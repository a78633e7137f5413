----------------------- MODULE ReboundOptimizer_proofs -----------------------
(***************************************************************************)
(* The trajectory optimiser's control for every objective, coefficient and *)
(* limit: the ring of corrections, the line search's steps, what a success *)
(* hands out, the stop requests and the number of calls.                   *)
(***************************************************************************)
EXTENDS ReboundOptimizer, TLAPS

\* The line search, whose steps lie between the start and MaxStep; at the start
\* the value and the slope are what they were there.
Searches == [count : 0 .. MaxLinesearch - 1, brackt : BOOLEAN, stage1 : BOOLEAN,
             uinfo : BOOLEAN, stx : 0 .. MaxStep, fx : Int, dgx : Int,
             sty : 0 .. MaxStep, fy : Int, dgy : Int, stp : Nat, fell : BOOLEAN,
             width : Int, prev_width : Int]

StartKnown(s) == s.stx = 0 => s.fx = 0 /\ s.dgx = dginit

\* A search that keeps its bracket: the best end decreases enough and, in the first
\* stage, still falls; without an interval the steps go on; an interval brackets a
\* minimum, and in the second stage whatever is as low as its best end decreases
\* enough.
OnCourse(s) ==
  /\ ~s.uinfo
  /\ Decreases(s.stx, s.fx)
  /\ s.stage1 => s.dgx < dgtest
  /\ ~s.brackt => s.stage1 /\ s.stx <= s.stp
  /\ s.brackt => s.dgx * (s.sty - s.stx) < 0
  /\ s.brackt /\ ~s.stage1 => s.fx <= Greater(s.stx, s.sty) * dgtest

Guided(s) == s.fx <= 0 /\ (s.fell \/ OnCourse(s))

-----------------------------------------------------------------------------
(* Arithmetic of the ring *)

LEMMA DivMod ==
  ASSUME NEW a \in Int, NEW m \in Nat \ {0}
  PROVE  a = m * (a \div m) + (a % m) /\ a % m \in 0 .. m - 1 /\ a \div m \in Int
  OBVIOUS

\* A remainder is unique.
LEMMA Remainder ==
  ASSUME NEW m \in Nat \ {0}, NEW q \in Int, NEW p \in Int,
         NEW r \in 0 .. m - 1, NEW t \in 0 .. m - 1, m * q + r = m * p + t
  PROVE  r = t
<1>1. CASE q = p
  BY <1>1
<1>2. CASE q < p
  <2>1. m * (p - q) >= m
    BY <1>2
  <2> QED
    BY <2>1
<1>3. CASE q > p
  <2>1. m * (q - p) >= m
    BY <1>3
  <2> QED
    BY <2>1
<1> QED
  BY <1>1, <1>2, <1>3

\* Walking from a place of the ring is walking from the number it stands for.
LEMMA Wrap ==
  ASSUME NEW a \in Int, NEW b \in Int, NEW m \in Nat \ {0}
  PROVE  ((a % m) + b) % m = (a + b) % m
<1> DEFINE q == a \div m
           r == a % m
           c == r + b
           d == a + b
           p == c \div m
           t == c % m
           o == d \div m
           u == d % m
<1>1. a = m * q + r /\ r \in Int /\ q \in Int
  BY DivMod
<1> HIDE DEF q, r
<1>2. c \in Int /\ d \in Int
  BY <1>1
<1> HIDE DEF c, d
<1>3. c = m * p + t /\ t \in 0 .. m - 1 /\ p \in Int
  BY <1>2, DivMod
<1>4. d = m * o + u /\ u \in 0 .. m - 1 /\ o \in Int
  BY <1>2, DivMod
<1> HIDE DEF p, t, o, u
<1> DEFINE s == q + p
<1>5. s \in Int /\ m * s = m * q + m * p
  BY <1>1, <1>3
<1> HIDE DEF s
<1>6. m * q \in Int /\ m * p \in Int /\ m * o \in Int
  BY <1>1, <1>3, <1>4
<1>7. m * s + t = m * o + u
  BY <1>1, <1>2, <1>3, <1>4, <1>5, <1>6 DEF c, d
<1>8. t = u
  BY <1>3, <1>4, <1>5, <1>7, Remainder
<1> QED
  BY <1>8 DEF t, u, c, d, r

\* A whole turn leads back.
LEMMA Turn ==
  ASSUME NEW a \in Int, NEW m \in Nat \ {0}
  PROVE  (a + m) % m = a % m
<1>1. a = m * (a \div m) + (a % m) /\ a % m \in 0 .. m - 1 /\ a \div m \in Int
  BY DivMod
<1>2. /\ a + m = m * ((a + m) \div m) + ((a + m) % m)
      /\ (a + m) % m \in 0 .. m - 1 /\ (a + m) \div m \in Int
  BY DivMod, a + m \in Int
<1>3. m * ((a \div m) + 1) + (a % m) = m * ((a + m) \div m) + ((a + m) % m)
  BY <1>1, <1>2
<1> QED
  BY <1>1, <1>2, <1>3, (a \div m) + 1 \in Int, Remainder

\* Numbers less than a turn apart have different places.
LEMMA LessThanATurn ==
  ASSUME NEW a \in Int, NEW b \in Int, NEW m \in Nat \ {0}, a < b, b < a + m
  PROVE  a % m # b % m
<1> SUFFICES ASSUME a % m = b % m PROVE FALSE
  OBVIOUS
<1>1. a = m * (a \div m) + (a % m) /\ a \div m \in Int /\ a % m \in Int
  BY DivMod
<1>2. b = m * (b \div m) + (b % m) /\ b \div m \in Int /\ b % m \in Int
  BY DivMod
<1>3. b - a = m * ((b \div m) - (a \div m))
  BY <1>1, <1>2
<1>4. CASE (b \div m) - (a \div m) <= 0
  BY <1>1, <1>2, <1>3, <1>4
<1>5. CASE (b \div m) - (a \div m) >= 1
  <2>1. m * ((b \div m) - (a \div m)) >= m
    BY <1>1, <1>2, <1>5
  <2> QED
    BY <2>1, <1>3
<1> QED
  BY <1>1, <1>2, <1>4, <1>5

-----------------------------------------------------------------------------
(* The line search *)

LEMMA SignOfProduct ==
  ASSUME NEW a \in Int, NEW b \in Int
  PROVE  a * b < 0 <=> (a < 0 /\ b > 0) \/ (a > 0 /\ b < 0)
<1>1. CASE a = 0 \/ b = 0
  BY <1>1
<1>2. CASE a > 0 /\ b > 0
  BY <1>2
<1>3. CASE a > 0 /\ b < 0
  <2>1. a * (-b) > 0
    BY <1>3
  <2>2. a * b = -(a * (-b))
    OBVIOUS
  <2> QED
    BY <1>3, <2>1, <2>2
<1>4. CASE a < 0 /\ b > 0
  <2>1. (-a) * b > 0
    BY <1>4
  <2>2. a * b = -((-a) * b)
    OBVIOUS
  <2> QED
    BY <1>4, <2>1, <2>2
<1>5. CASE a < 0 /\ b < 0
  <2>1. (-a) * (-b) > 0
    BY <1>5
  <2>2. a * b = (-a) * (-b)
    OBVIOUS
  <2> QED
    BY <1>5, <2>1, <2>2
<1> QED
  BY <1>1, <1>2, <1>3, <1>4, <1>5

\* The line of sufficient decrease falls.
LEMMA TestLine ==
  /\ dgtest \in Int /\ dgtest < 0 /\ dgtest > -SCurv /\ dginit < dgtest
  /\ \A a, b \in Int : /\ a * dgtest \in Int /\ (a <= b => b * dgtest <= a * dgtest)
                       /\ (a < b => b * dgtest < a * dgtest)
<1>1. dgtest = -FDec
  BY WolfeAssumption DEF dgtest, dginit
<1>2. dgtest \in {-1, -2, -3}
  BY <1>1, WolfeAssumption
<1>3. dgtest \in Int /\ dgtest < 0 /\ dgtest > -SCurv /\ dginit < dgtest
  BY <1>1, WolfeAssumption DEF dginit
<1> HIDE DEF dgtest
<1> QED
  BY <1>2, <1>3

LEMMA FirstSearch ==
  LineSearch \in Searches /\ StartKnown(LineSearch) /\ Guided(LineSearch)
<1>1. LineSearch \in Searches /\ StartKnown(LineSearch)
  BY MemAssumption, SearchAssumption DEF LineSearch, Searches, StartKnown, dginit
<1>2. Guided(LineSearch)
  <2>1. 0 <= 0 * dgtest
    BY TestLine
  <2> QED
    BY <2>1, TestLine, SearchAssumption DEF LineSearch, Guided, OnCourse, Decreases
<1> QED
  BY <1>1, <1>2

\* The step evaluated is neither before the start nor beyond MaxStep.
LEMMA StepInRange ==
  ASSUME NEW s \in Searches
  PROVE  StepTaken(s) \in 0 .. MaxStep
  BY SearchAssumption DEF Searches, StepTaken, Clipped, Lesser

\* What is found is a number, and at the start what it was there.
LEMMA FoundType ==
  ASSUME NEW s \in Searches, StartKnown(s), NEW e \in Found(s, StepTaken(s))
  PROVE  /\ e.f \in Int /\ e.d \in Int
         /\ StepTaken(s) = 0 => e.f = 0 /\ e.d = dginit
<1> DEFINE stp == StepTaken(s)
<1>1. s.fx \in Int /\ s.dgx \in Int
  BY DEF Searches
<1> HIDE DEF stp
<1>2. CASE stp = s.stx
  BY <1>1, <1>2 DEF Found, StartKnown, stp
<1>3. CASE stp # s.stx /\ stp = 0
  <2>1. e = [f |-> 0, d |-> dginit]
    BY <1>3 DEF Found, stp
  <2> QED
    BY <2>1 DEF dginit
<1>4. CASE stp # s.stx /\ stp # 0
  <2>1. e \in [f : Costs, d : Slopes]
    BY <1>4 DEF Found, stp
  <2> QED
    BY <1>4, <2>1, CostsAssumption DEF stp
<1> QED
  BY <1>2, <1>3, <1>4

\* A step is accepted only with a slope that has flattened, hence not at the start.
LEMMA AcceptedAhead ==
  ASSUME NEW s \in Searches, StartKnown(s), NEW e \in Found(s, StepTaken(s)),
         Verdict(s, StepTaken(s), e.f, e.d) = "accept"
  PROVE  StepTaken(s) * (e.d - dginit) > 0
<1> DEFINE stp == StepTaken(s)
           rise == e.d - dginit
<1>1. e.d \in Int /\ stp \in Nat
  BY FoundType, StepInRange
<1>2. 4 * Abs(e.d) <= SCurv * (-dginit)
  BY DEF Verdict
<1>3. rise \in Nat \ {0}
  BY <1>1, <1>2, WolfeAssumption DEF Abs, dginit
<1>4. stp # 0
  BY <1>1, <1>3, FoundType DEF dginit
<1> HIDE DEF stp, rise
<1>5. stp * rise > 0
  BY <1>1, <1>3, <1>4
<1> QED
  BY <1>5 DEF stp, rise

\* A search that goes on keeps its type and its course, whatever the interpolations
\* yield.
LEMMA UpdatedType ==
  ASSUME NEW s \in Searches, StartKnown(s), NEW e \in Found(s, StepTaken(s)),
         Verdict(s, StepTaken(s), e.f, e.d) = "goes_on",
         NEW v \in Updated(s, StepTaken(s), e.f, e.d)
  PROVE  v \in Searches /\ StartKnown(v) /\ (Guided(s) => Guided(v))
<1>1. StepTaken(s) \in Nat /\ StepTaken(s) \in 0 .. MaxStep
  BY StepInRange
<1>2. /\ s.stx \in Nat /\ s.sty \in Nat /\ s.stp \in Nat
      /\ s.fx \in Int /\ s.dgx \in Int /\ s.width \in Int /\ s.prev_width \in Int
  BY DEF Searches
<1>3. Low(s) \in Nat
  BY <1>2 DEF Low, Lesser
<1>4. High(s) \in Int
  BY <1>2 DEF High, Greater
<1>5. s.count + 1 \in 0 .. MaxLinesearch - 1
  BY SearchAssumption DEF Verdict, Searches
<1> DEFINE Ends == [st : 0 .. MaxStep, f : Int, d : Int]
           Known(end_) == end_.st = 0 => end_.f = 0 /\ end_.d = dginit
           stp == StepTaken(s)
           f == e.f
           dg == e.d
           X0 == [st |-> s.stx, f |-> s.fx, d |-> s.dgx]
           Y0 == [st |-> s.sty, f |-> s.fy, d |-> s.dgy]
           T0 == [st |-> stp, f |-> f, d |-> dg]
           tmin == Low(s)
           tmax == High(s)
           stage1 == s.stage1 /\ ~(Decreases(stp, f) /\ dgtest <= dg)
           modify == stage1 /\ ~Decreases(stp, f) /\ f <= s.fx
           X == IF modify THEN Modified(X0) ELSE X0
           Y == IF modify THEN Modified(Y0) ELSE Y0
           T == IF modify THEN Modified(T0) ELSE T0
           bad == BadInterval(X, Y, T, tmin, tmax, s.brackt)
           brackt == s.brackt \/ (~bad /\ (X.f < T.f \/ DSign(X, T)))
           nx == IF bad THEN X0 ELSE NewX(X0, T0, X.f < T.f)
           ny == IF bad THEN Y0 ELSE NewY(X0, Y0, T0, X.f < T.f, DSign(X, T))
           t(newt) == IF bad THEN stp
                      ELSE Limited(newt, nx, ny, tmin, tmax, brackt /\ Bound(X, T))
           wide == brackt /\ 2 * s.prev_width <= 3 * Abs(ny.st - nx.st)
           Next_(newt) ==
             [s EXCEPT !.count = @ + 1, !.brackt = brackt, !.stage1 = stage1, !.uinfo = bad,
                     !.stx = nx.st, !.fx = nx.f, !.dgx = nx.d,
                     !.sty = ny.st, !.fy = ny.f, !.dgy = ny.d,
                     !.stp = IF wide THEN nx.st + (ny.st - nx.st) \div 2 ELSE t(newt),
                     !.fell = @ \/ (~bad /\ ~wide /\ Behind(X, T, newt)),
                     !.prev_width = IF brackt THEN s.width ELSE @,
                     !.width = IF brackt THEN Abs(ny.st - nx.st) ELSE @]
<1>6. X0 \in Ends /\ Y0 \in Ends /\ T0 \in Ends /\ Known(X0) /\ Known(T0)
  BY FoundType, StepInRange DEF Searches, StartKnown
<1>7. v \in {Next_(newt) : newt \in NewTrials(X, Y, T, tmin, tmax, brackt)}
  BY Zenon DEF Updated
<1>8. X.st \in Int /\ Y.st \in Int /\ T.st \in Int
  BY <1>6 DEF Modified
<1>9. nx \in Ends /\ Known(nx) /\ ny \in Ends
  BY <1>6 DEF NewX, NewY
<1>10. stage1 \in BOOLEAN /\ brackt \in BOOLEAN /\ bad \in BOOLEAN
  BY DEF Searches, BadInterval
<1> HIDE DEF Next_
<1>11. PICK newt \in NewTrials(X, Y, T, tmin, tmax, brackt) : v = Next_(newt)
  BY <1>7, Zenon
<1>12. tmin \in Nat /\ tmax \in Int /\ stp \in Nat
  BY <1>1, <1>3, <1>4
<1> HIDE DEF X0, Y0, T0, X, Y, T, tmin, tmax, brackt, stp, nx, ny, bad, stage1, modify
<1>13. newt \in Int
  BY <1>8, <1>11, <1>12 DEF NewTrials, Between, Lesser, Greater
<1>14. t(newt) \in Nat
  <2>1. /\ nx.st \in Nat /\ ny.st \in Nat
    BY <1>9, SearchAssumption
  <2> DEFINE x == nx.st
             y == ny.st
  <2>2. (2 * (y - x)) \div 3 \in Int /\ (x < y => (2 * (y - x)) \div 3 >= 0)
    BY <2>1
  <2> DEFINE most == x + (2 * (y - x)) \div 3
  <2>3. most \in Int /\ (x < y => most >= 0)
    BY <2>1, <2>2
  <2>4. Greater(Lesser(newt, tmax), tmin) \in Nat
    BY <1>12, <1>13 DEF Greater, Lesser
  <2> HIDE DEF most
  <2>5. \A limit \in BOOLEAN : Limited(newt, nx, ny, tmin, tmax, limit) \in Nat
    BY <2>3, <2>4 DEF Limited, Lesser, Greater, most
  <2> QED
    BY <1>12, <2>5 DEF Limited
<1>15. /\ nx.st + (ny.st - nx.st) \div 2 \in Nat
       /\ Abs(ny.st - nx.st) \in Int
  <2>1. nx.st \in Nat /\ ny.st \in Nat
    BY <1>9, SearchAssumption
  <2> QED
    BY <2>1 DEF Abs
<1> HIDE DEF t, wide
<1>16. v \in Searches
  <2> DEFINE stp2 == IF wide THEN nx.st + (ny.st - nx.st) \div 2 ELSE t(newt)
             fell == s.fell \/ (~bad /\ ~wide /\ Behind(X, T, newt))
             prev == IF brackt THEN s.width ELSE s.prev_width
             width == IF brackt THEN Abs(ny.st - nx.st) ELSE s.width
  <2>1. stp2 \in Nat
    BY <1>14, <1>15
  <2>2. prev \in Int /\ width \in Int
    BY <1>2, <1>15
  <2>3. fell \in BOOLEAN
    BY DEF Searches
  <2>4. v = [s EXCEPT !.count = @ + 1, !.brackt = brackt, !.stage1 = stage1, !.uinfo = bad,
                      !.stx = nx.st, !.fx = nx.f, !.dgx = nx.d,
                      !.sty = ny.st, !.fy = ny.f, !.dgy = ny.d,
                      !.stp = stp2, !.fell = fell, !.prev_width = prev, !.width = width]
    BY <1>11 DEF Next_
  <2>5. /\ nx.st \in 0 .. MaxStep /\ nx.f \in Int /\ nx.d \in Int
        /\ ny.st \in 0 .. MaxStep /\ ny.f \in Int /\ ny.d \in Int
    BY <1>9
  <2> HIDE DEF stp2, fell, prev, width
  <2>6. v = [count |-> s.count + 1, brackt |-> brackt, stage1 |-> stage1, uinfo |-> bad,
             stx |-> nx.st, fx |-> nx.f, dgx |-> nx.d, sty |-> ny.st, fy |-> ny.f,
             dgy |-> ny.d, stp |-> stp2, fell |-> fell, width |-> width, prev_width |-> prev]
    BY <2>4 DEF Searches
  <2> QED
    BY <1>5, <1>10, <2>1, <2>2, <2>3, <2>5, <2>6 DEF Searches
<1>17. StartKnown(v)
  BY <1>9, <1>11 DEF Searches, StartKnown, Next_
<1>18. ASSUME Guided(s) PROVE Guided(v)
  <2>1. /\ v.uinfo = bad /\ v.brackt = brackt /\ v.stage1 = stage1
        /\ v.stx = nx.st /\ v.fx = nx.f /\ v.dgx = nx.d /\ v.sty = ny.st
        /\ v.fell = (s.fell \/ (~bad /\ ~wide /\ Behind(X, T, newt)))
        /\ v.stp = IF wide THEN nx.st + (ny.st - nx.st) \div 2 ELSE t(newt)
    BY <1>11 DEF Searches, Next_
  <2>2. /\ X0.st = s.stx /\ X0.f = s.fx /\ X0.d = s.dgx /\ Y0.st = s.sty
        /\ T0.st = stp /\ T0.f = f /\ T0.d = dg
        /\ X.st = s.stx /\ Y.st = s.sty /\ T.st = stp
        /\ modify => /\ X.f = s.fx - s.stx * dgtest /\ X.d = s.dgx - dgtest
                     /\ T.f = f - stp * dgtest /\ T.d = dg - dgtest
        /\ ~modify => X.f = s.fx /\ X.d = s.dgx /\ T.f = f /\ T.d = dg
    BY DEF X0, Y0, T0, X, Y, T, Modified
  <2>3. /\ f \in Int /\ dg \in Int /\ stp \in Nat /\ stp = StepTaken(s)
        /\ stp = s.stx => f = s.fx /\ dg = s.dgx
    BY <1>12, FoundType DEF Found, stp
  <2>4. /\ nx = IF bad \/ X.f < T.f THEN X0 ELSE T0
        /\ ny = IF bad THEN Y0 ELSE IF X.f < T.f THEN T0 ELSE IF DSign(X, T) THEN X0 ELSE Y0
        /\ brackt = (s.brackt \/ (~bad /\ (X.f < T.f \/ DSign(X, T))))
        /\ stage1 = (s.stage1 /\ ~(Decreases(stp, f) /\ dgtest <= dg))
        /\ modify = (stage1 /\ ~Decreases(stp, f) /\ f <= s.fx)
    BY DEF nx, ny, brackt, stage1, modify, NewX, NewY
  <2>5. v.fx <= 0
    <3>1. CASE bad \/ X.f < T.f
      BY <1>18, <2>1, <2>2, <2>4, <3>1 DEF Guided
    <3>2. CASE ~bad /\ ~(X.f < T.f) /\ modify
      <4>1. f <= s.fx /\ v.fx = f
        BY <2>1, <2>2, <2>4, <3>2
      <4>2. s.fx <= 0
        BY <1>18 DEF Guided
      <4> QED
        BY <1>2, <2>3, <4>1, <4>2
    <3>3. CASE ~bad /\ ~(X.f < T.f) /\ ~modify
      BY <1>2, <1>18, <2>1, <2>2, <2>3, <2>4, <3>3 DEF Guided
    <3> QED
      BY <3>1, <3>2, <3>3
  <2>6. ASSUME ~v.fell PROVE OnCourse(v)
    <3>1. OnCourse(s)
      BY <1>18, <2>1, <2>6 DEF Guided
    <3>2. /\ s.brackt => (s.stx < stp /\ stp < s.sty) \/ (s.sty < stp /\ stp < s.stx)
          /\ ~s.brackt => s.stx <= stp /\ tmin = s.stx /\ stp <= tmax
      <4>1. ~OutOfInterval(s, stp)
        BY <2>3 DEF Verdict
      <4>2. CASE s.brackt
        <5>1. Low(s) < stp /\ stp < High(s)
          BY <1>3, <1>4, <2>3, <4>1, <4>2 DEF OutOfInterval
        <5> QED
          BY <1>2, <2>3, <4>2, <5>1 DEF Low, High, Lesser, Greater
      <4>3. CASE ~s.brackt
        <5>1. stp = Lesser(s.stp, MaxStep)
          BY <2>3, <4>3 DEF StepTaken, Unusual, OutOfInterval, Clipped
        <5>2. s.stx <= s.stp /\ s.stx <= MaxStep /\ MaxStep \in Nat
          BY <3>1, <4>3, SearchAssumption DEF OnCourse, Searches
        <5>3. s.stx <= stp /\ stp <= s.stp
          BY <1>2, <5>1, <5>2 DEF Lesser
        <5>4. tmin = s.stx /\ tmax = s.stp + 4 * (s.stp - s.stx)
          BY <4>3 DEF tmin, tmax, Low, High
        <5> QED
          BY <1>2, <2>3, <4>3, <5>2, <5>3, <5>4
      <4> QED
        BY <4>2, <4>3
    \* Where the search falls, the trial lies.
    <3>3. /\ s.brackt => (s.dgx < 0 /\ s.sty > s.stx) \/ (s.dgx > 0 /\ s.sty < s.stx)
          /\ s.stage1 => s.dgx < dgtest /\ s.dgx < 0
          /\ ~s.brackt => s.stage1
      BY <1>2, <3>1, SignOfProduct, TestLine, s.sty - s.stx \in Int DEF OnCourse
    <3>4. /\ s.brackt => (s.dgx < 0 /\ stp > s.stx) \/ (s.dgx > 0 /\ stp < s.stx)
          /\ s.stage1 => stp >= s.stx
      BY <1>2, <2>3, <3>2, <3>3
    \* Where the modified function guides, no trial is as low as the best end.
    <3>5. modify => X.f < T.f
      <4>1. s.fx <= s.stx * dgtest /\ s.stx * dgtest \in Int /\ stp * dgtest \in Int
        BY <1>2, <2>3, <3>1, TestLine DEF OnCourse, Decreases
      <4>2. SUFFICES ASSUME modify PROVE X.f < T.f
        OBVIOUS
      <4>3. ~(f <= stp * dgtest)
        BY <2>4, <4>2 DEF Decreases
      <4>4. X.f = s.fx - s.stx * dgtest /\ T.f = f - stp * dgtest
        BY <2>2, <4>2
      <4> DEFINE a == s.stx * dgtest
                 b == stp * dgtest
      <4>5. /\ s.fx <= a /\ a \in Int /\ b \in Int /\ ~(f <= b)
            /\ X.f = s.fx - a /\ T.f = f - b
        BY <4>1, <4>3, <4>4
      <4> HIDE DEF a, b
      <4> QED
        BY <1>2, <2>3, <4>5
    <3>6. s.brackt => (X.d < 0 /\ stp > s.stx) \/ (X.d > 0 /\ stp < s.stx)
      <4>1. CASE modify
        <5>1. s.stage1 /\ X.d = s.dgx - dgtest
          BY <2>2, <2>4, <4>1
        <5> QED
          BY <1>2, <2>3, <3>3, <3>4, <5>1, TestLine
      <4>2. CASE ~modify
        <5>1. X.d = s.dgx
          BY <2>2, <4>2
        <5> QED
          BY <1>2, <2>3, <3>3, <3>4, <5>1
      <4> QED
        BY <4>1, <4>2
    <3>7. ~bad
      <4>1. ASSUME s.brackt
            PROVE  /\ ~(T.st <= Lesser(X.st, Y.st)) /\ ~(Greater(X.st, Y.st) <= T.st)
                   /\ ~(tmax < tmin) /\ X.d * (T.st - X.st) < 0
        <5>1. X.d \in Int /\ stp - s.stx \in Int
          BY <1>2, <2>2, <2>3, <2>4, TestLine
        <5>2. X.d * (stp - s.stx) < 0
          BY <1>2, <2>3, <3>6, <4>1, <5>1, SignOfProduct
        <5> QED
          BY <1>2, <2>2, <2>3, <3>2, <4>1, <5>2
             DEF tmin, tmax, Low, High, Lesser, Greater
      <4>2. X.d * (T.st - X.st) \in Int
        BY <1>2, <2>2, <2>3, <2>4, TestLine
      <4> QED
        BY <4>1, <4>2 DEF bad, BadInterval
    <3>8. CASE X.f < T.f
      <4>1. nx = X0 /\ ny = T0 /\ brackt
        BY <2>4, <3>7, <3>8
      <4>2. stp # s.stx
        BY <1>2, <2>2, <2>3, <3>8, TestLine
      <4>3. s.dgx * (stp - s.stx) < 0
        BY <1>2, <2>3, <3>2, <3>3, <3>4, <4>2, SignOfProduct, stp - s.stx \in Int
      <4>4. ~stage1 => s.fx <= Greater(s.stx, stp) * dgtest
        <5>1. CASE s.stage1 /\ ~stage1
          <6>1. Decreases(stp, f) /\ ~modify
            BY <2>4, <5>1
          <6>2. s.fx < f /\ f <= stp * dgtest
            BY <2>2, <3>8, <6>1 DEF Decreases
          <6>3. s.fx <= s.stx * dgtest
            BY <3>1 DEF OnCourse, Decreases
          <6>4. Greater(s.stx, stp) \in {s.stx, stp}
            BY DEF Greater
          <6>5. stp * dgtest \in Int
            BY <2>3, TestLine
          <6>6. s.fx <= stp * dgtest
            BY <1>2, <2>3, <6>2, <6>5
          <6> QED
            BY <6>3, <6>4, <6>6
        <5>2. CASE ~s.stage1
          <6>1. s.fx <= Greater(s.stx, s.sty) * dgtest
            BY <3>1, <3>3, <5>2 DEF OnCourse
          <6>2. /\ Greater(s.stx, stp) <= Greater(s.stx, s.sty)
                /\ Greater(s.stx, stp) \in Int /\ Greater(s.stx, s.sty) \in Int
            BY <1>2, <2>3, <3>2, <3>3, <5>2 DEF Greater
          <6>3. Greater(s.stx, s.sty) * dgtest <= Greater(s.stx, stp) * dgtest
            BY <6>2, TestLine
          <6> QED
            BY <1>2, <6>1, <6>2, <6>3, TestLine
        <5> QED
          BY <5>1, <5>2
      <4> QED
        BY <2>1, <2>2, <2>4, <3>1, <3>7, <4>1, <4>3, <4>4 DEF OnCourse
    <3>9. CASE ~(X.f < T.f)
      <4>1. ~modify /\ f <= s.fx /\ nx = T0 /\ X.d = s.dgx /\ T.d = dg
        BY <1>2, <2>2, <2>3, <2>4, <3>5, <3>7, <3>9
      <4>2. Decreases(stp, f)
        <5>1. CASE s.stage1
          BY <2>4, <4>1, <5>1
        <5>2. CASE ~s.stage1
          <6>1. s.fx <= Greater(s.stx, s.sty) * dgtest
            BY <3>1, <3>3, <5>2 DEF OnCourse
          <6>2. Greater(s.stx, s.sty) > stp /\ Greater(s.stx, s.sty) \in Int
            BY <1>2, <2>3, <3>2, <3>3, <5>2 DEF Greater
          <6>3. Greater(s.stx, s.sty) * dgtest < stp * dgtest
            BY <2>3, <6>2, TestLine
          <6> QED
            BY <1>2, <2>3, <4>1, <6>1, <6>2, <6>3, TestLine DEF Decreases
        <5> QED
          BY <5>1, <5>2
      <4>3. dg > SCurv \/ dg < -SCurv
        BY <2>3, <4>2, WolfeAssumption DEF Verdict, Abs, dginit
      <4>4. /\ stage1 => s.stage1 /\ dg < dgtest
            /\ s.stage1 /\ ~stage1 => dg > 0
            /\ dg # 0 /\ s.dgx # 0
        <5>1. stage1 => s.stage1 /\ ~(dgtest <= dg)
          BY <2>4, <4>2
        <5>2. s.stage1 /\ ~stage1 => dgtest <= dg
          BY <2>4
        <5>3. s.dgx # 0
          BY <3>3, <1>2
        <5> QED
          BY <2>3, <4>3, <5>1, <5>2, <5>3, TestLine, WolfeAssumption
      <4>5. DSign(X, T) <=> (dg < 0 /\ s.dgx > 0) \/ (dg > 0 /\ s.dgx < 0)
        BY <1>2, <2>3, <4>1, <4>4, SignOfProduct DEF DSign
      <4>6. CASE DSign(X, T)
        <5>1. ny = X0 /\ brackt
          BY <2>4, <3>7, <3>9, <4>6
        <5>2. stp # s.stx
          BY <1>2, <2>3, <4>5, <4>6
        <5>3. dg * (s.stx - stp) < 0
          BY <1>2, <2>3, <3>2, <3>3, <3>4, <4>5, <4>6, <5>2, SignOfProduct,
             s.stx - stp \in Int
        <5>4. ~stage1 => f <= Greater(stp, s.stx) * dgtest
          <6>1. CASE s.stage1
            <7>1. Greater(stp, s.stx) = stp
              BY <1>2, <2>3, <3>4, <6>1 DEF Greater
            <7> QED
              BY <4>2, <7>1 DEF Decreases
          <6>2. CASE ~s.stage1
            <7>1. s.fx <= Greater(s.stx, s.sty) * dgtest
              BY <3>1, <3>3, <6>2 DEF OnCourse
            <7>2. /\ Greater(stp, s.stx) <= Greater(s.stx, s.sty)
                  /\ Greater(stp, s.stx) \in Int /\ Greater(s.stx, s.sty) \in Int
              BY <1>2, <2>3, <3>2, <3>3, <6>2 DEF Greater
            <7>3. Greater(s.stx, s.sty) * dgtest <= Greater(stp, s.stx) * dgtest
              BY <7>2, TestLine
            <7> QED
              BY <1>2, <2>3, <4>1, <7>1, <7>2, <7>3, TestLine
          <6> QED
            BY <6>1, <6>2
        <5> QED
          BY <2>1, <2>2, <3>7, <4>1, <4>2, <4>4, <5>1, <5>3, <5>4 DEF OnCourse
      <4>7. CASE ~DSign(X, T) /\ s.brackt
        <5>1. ny = Y0 /\ brackt
          BY <2>4, <3>7, <3>9, <4>7
        <5>2. dg * (s.sty - stp) < 0
          BY <1>2, <2>3, <3>2, <3>3, <3>4, <4>4, <4>5, <4>7, SignOfProduct,
             s.sty - stp \in Int
        <5>3. ~stage1 => ~s.stage1
          BY <2>3, <3>3, <4>4, <4>5, <4>7
        <5>4. ~stage1 => f <= Greater(stp, s.sty) * dgtest
          <6> SUFFICES ASSUME ~s.stage1 PROVE f <= Greater(stp, s.sty) * dgtest
            BY <5>3
          <6>1. s.fx <= Greater(s.stx, s.sty) * dgtest
            BY <3>1, <4>7 DEF OnCourse
          <6>2. /\ Greater(stp, s.sty) <= Greater(s.stx, s.sty)
                /\ Greater(stp, s.sty) \in Int /\ Greater(s.stx, s.sty) \in Int
            BY <1>2, <2>3, <3>2, <4>7 DEF Greater
          <6>3. Greater(s.stx, s.sty) * dgtest <= Greater(stp, s.sty) * dgtest
            BY <6>2, TestLine
          <6> QED
            BY <1>2, <2>3, <4>1, <6>1, <6>2, <6>3, TestLine
        <5> QED
          BY <2>1, <2>2, <3>7, <4>1, <4>2, <4>4, <5>1, <5>2, <5>4 DEF OnCourse
      <4>8. CASE ~DSign(X, T) /\ ~s.brackt
        <5>1. ~brackt /\ ~wide /\ stage1
          BY <2>3, <2>4, <3>3, <3>9, <4>4, <4>5, <4>8 DEF wide
        <5>2. ~Behind(X, T, newt)
          BY <2>1, <2>6, <3>7, <5>1
        <5>3. newt >= stp
          <6>1. newt \in IF X.f >= T.f /\ Flatter(X, T)
                         THEN IF FallsBehind(X, T, IF X.st < T.st THEN tmin ELSE tmax, brackt)
                              THEN {IF X.st < T.st THEN tmin ELSE tmax}
                              ELSE IF X.st < T.st THEN T.st .. tmax ELSE tmin .. T.st
                         ELSE {IF X.st < T.st THEN tmax ELSE tmin}
            BY <1>11, <3>9, <4>8, <5>1 DEF NewTrials
          <6>2. CASE stp = s.stx
            <7>1. ~Flatter(X, T)
              BY <2>2, <2>3, <4>1, <6>2 DEF Flatter, Abs
            <7> QED
              BY <2>2, <2>3, <3>2, <4>8, <6>1, <6>2, <7>1
          <6>3. CASE stp # s.stx
            <7>1. X.st < T.st
              BY <1>2, <2>2, <2>3, <3>2, <4>8, <6>3
            <7>2. CASE X.f >= T.f /\ Flatter(X, T)
              BY <1>13, <2>2, <2>3, <5>2, <7>1, <7>2 DEF Behind
            <7>3. CASE ~(X.f >= T.f /\ Flatter(X, T))
              BY <2>2, <3>2, <4>8, <6>1, <7>1, <7>3
            <7> QED
              BY <7>2, <7>3
          <6> QED
            BY <6>2, <6>3
        <5>4. v.stp = Greater(Lesser(newt, tmax), tmin)
          BY <2>1, <3>7, <5>1 DEF t, Limited
        <5>5. stp <= v.stp
          BY <1>12, <1>13, <2>3, <3>2, <4>8, <5>3, <5>4 DEF Greater, Lesser
        <5> QED
          BY <2>1, <2>2, <3>7, <4>1, <4>2, <4>4, <5>1, <5>5 DEF OnCourse
      <4> QED
        BY <4>6, <4>7, <4>8
    <3> QED
      BY <3>8, <3>9
  <2> QED
    BY <2>5, <2>6 DEF Guided
<1> QED
  BY <1>16, <1>17, <1>18

-----------------------------------------------------------------------------
(* The inductive invariant *)

\* The line search keeps its type and its course, and the iterations their limit.
SearchInv ==
  /\ TypeOK
  /\ ls \in Searches /\ StartKnown(ls) /\ Guided(ls)
  /\ k <= MaxIterations

\* Where in the ring the corrections are, that none has turned, and which ones
\* the two loops went through.
RingInv ==
  /\ end = (k - 1) % Mem
  /\ \A i \in 0 .. Mem - 1 : lm[i].positive
  /\ \A n \in 1 .. k - 1 : k - Mem <= n => lm[(n - 1) % Mem].no = n
  /\ used.down = [i \in 1 .. Lesser(Mem, k - 1) |-> k - i]
  /\ used.up = [i \in 1 .. Lesser(Mem, k - 1) |-> k - 1 - Lesser(Mem, k - 1) + i]

\* What the loops around the solver leave to one another.
ControlInv ==
  /\ ret \in {"evaluating", "searching"} => pc = "solve"
  /\ pc = "prepare" => job = "rebound"
  /\ job = "refine" => ret # "CANCELED"
  /\ ret \in Succeeded => points = "iterate"
  /\ job = "rebound" /\ success => pc = "returned" /\ points = "iterate" /\ ~PeersClose

\* Each call of the solver so far, but for the one under way, has used up a
\* restart or a rebound.
CountInv ==
  LET spent == restart_nums + Lesser(rebound_times, ReboundLimit)
  IN /\ calls \in Nat
     /\ pc # "returned" /\ job = "rebound" => restart_nums < MaxRestarts
     /\ pc = "prepare" => PeersClose \/ calls <= spent
     /\ pc = "solve" /\ job = "rebound" => calls <= 1 + spent
     /\ CallsAreLimited

IInv == SearchInv /\ RingInv /\ ControlInv /\ CountInv

LEMMA InitIInv == Init => IInv
<1> SUFFICES ASSUME Init PROVE IInv
  OBVIOUS
<1> USE MemAssumption, LimitsAssumption
<1>1. SearchInv
  <2>1. ls \in Searches /\ StartKnown(ls) /\ Guided(ls)
    BY FirstSearch DEF Init
  <2>2. LbfgsTypeOK /\ k <= MaxIterations
    <3>1. /\ ls.count \in 0 .. MaxLinesearch - 1
          /\ {ls.stx, ls.sty} \subseteq 0 .. MaxStep /\ ls.stp \in Int
      BY <2>1 DEF Searches
    <3>2. lm \in [0 .. Mem - 1 -> Corrections]
      BY DEF Init, Corrections, NoCorrection
    <3> QED
      BY <3>1, <3>2 DEF Init, LbfgsTypeOK
  <2>3. TypeOK
    BY <2>2 DEF Init, TypeOK, Stops, None
  <2> QED
    BY <2>1, <2>2, <2>3 DEF SearchInv
<1>2. RingInv
  <2>1. Lesser(Mem, k - 1) = 0 /\ k = 1 /\ end = 0
    BY DEF Init, Lesser
  <2>2. 0 % Mem = 0
    OBVIOUS
  <2> QED
    BY <2>1, <2>2 DEF Init, RingInv, NoCorrection
<1>4. ControlInv
  BY DEF Init, ControlInv, Succeeded
<1>5. CountInv
  BY DEF Init, CountInv, Lesser
<1> QED
  BY <1>1, <1>2, <1>4, <1>5 DEF IInv

-----------------------------------------------------------------------------
(* The solver's steps *)

SolverInv == LbfgsTypeOK /\ ls \in Searches /\ StartKnown(ls) /\ Guided(ls) /\ k <= MaxIterations

LEMMA SearchTypes ==
  ASSUME NEW s \in Searches
  PROVE  s.count \in 0 .. MaxLinesearch - 1 /\ {s.stx, s.sty} \subseteq 0 .. MaxStep
         /\ s.stp \in Int
  BY DEF Searches

LEMMA CallKeeps ==
  ASSUME SolverInv, RingInv, Call
  PROVE  SolverInv' /\ RingInv' /\ ret' = "evaluating" /\ points' = points
<1> USE MemAssumption DEF Call
<1>1. SolverInv'
  BY DEF SolverInv, LbfgsTypeOK, Corrections, NoCorrection, StartKnown
<1>2. RingInv'
  <2>1. (Lesser(Mem, k - 1) = 0 /\ k = 1 /\ end = 0)'
    BY DEF Lesser
  <2>2. 0 % Mem = 0
    OBVIOUS
  <2> QED
    BY <2>1, <2>2 DEF RingInv, NoCorrection
<1> QED
  BY <1>1, <1>2

LEMMA FirstEvaluationKeeps ==
  ASSUME SolverInv, RingInv, FirstEvaluation
  PROVE  SolverInv' /\ RingInv' /\ ret' \in {"ALREADY_MINIMIZED", "searching"}
         /\ points' = "iterate"
<1> USE DEF FirstEvaluation
<1>1. SolverInv'
  BY FirstSearch, SearchTypes DEF SolverInv, LbfgsTypeOK, Codes, Succeeded
<1>2. RingInv'
  BY DEF RingInv
<1> QED
  BY <1>1, <1>2

LEMMA CancelledKeeps ==
  ASSUME SolverInv, RingInv, Cancelled
  PROVE  SolverInv' /\ RingInv' /\ ret' = "CANCELED"
<1> USE DEF Cancelled
<1>1. SolverInv'
  BY FirstSearch, SearchTypes DEF SolverInv, LbfgsTypeOK, Codes
<1>2. RingInv'
  BY DEF RingInv
<1> QED
  BY <1>1, <1>2

\* The next iteration stores its correction where the oldest was, and the two
\* loops go through what is then in the ring.
LEMMA NextIterationKeeps ==
  ASSUME SolverInv, RingInv, NEW e \in Found(ls, StepTaken(ls)),
         NextIteration(StepTaken(ls), e.f, e.d)
  PROVE  SolverInv' /\ RingInv' /\ ret' = "searching" /\ points' = "iterate"
<1> DEFINE from == (end + 1) % Mem
           bound == Lesser(Mem, k)
           new == [no |-> k, positive |-> StepTaken(ls) * (e.d - dginit) > 0]
<1>1. /\ Verdict(ls, StepTaken(ls), e.f, e.d) = "accept"
      /\ MaxIterations >= k + 1 /\ points' = "iterate"
      /\ lm' = [lm EXCEPT ![end] = new] /\ k' = k + 1 /\ end' = from
      /\ used' = [down |-> Down(lm', from, bound), up |-> Up(lm', from, bound)]
      /\ ls' = LineSearch
      /\ ret' = IF \A i \in 0 .. Mem - 1 : lm'[i].positive THEN "searching"
                ELSE "INCREASEGRADIENT"
  BY DEF NextIteration
<1>2. new.positive = TRUE /\ new.no = k
  BY <1>1, AcceptedAhead DEF SolverInv
<1>3. /\ k \in Nat \ {0} /\ Mem \in Nat \ {0} /\ end \in 0 .. Mem - 1
      /\ lm \in [0 .. Mem - 1 -> Corrections] /\ k <= MaxIterations
  BY MemAssumption DEF SolverInv, LbfgsTypeOK
<1> HIDE DEF new
<1>4. \A i \in 0 .. Mem - 1 : lm'[i] = IF i = end THEN new ELSE lm[i]
  BY <1>1, <1>3
<1>5. (\A i \in 0 .. Mem - 1 : lm[i].positive)'
  BY <1>2, <1>4 DEF RingInv
<1>6. end = (k - 1) % Mem /\ from = k % Mem /\ from \in 0 .. Mem - 1
  <2> DEFINE a == k - 1
  <2>1. end = a % Mem
    BY DEF RingInv
  <2>2. a \in Int /\ a + 1 = k
    BY <1>3
  <2> HIDE DEF a
  <2> DEFINE one == 1
  <2>6. one \in Int
    OBVIOUS
  <2> HIDE DEF one
  <2>7. ((a % Mem) + one) % Mem = (a + one) % Mem
    BY <1>3, <2>2, <2>6, Wrap, Zenon
  <2>3. ((a % Mem) + 1) % Mem = (a + 1) % Mem
    BY <2>7 DEF one
  <2>4. from = k % Mem
    BY <2>1, <2>2, <2>3
  <2>5. k % Mem \in 0 .. Mem - 1
    BY <1>3
  <2> QED
    BY <2>1, <2>4, <2>5 DEF a
<1>7. (\A n \in 1 .. k - 1 : k - Mem <= n => lm[(n - 1) % Mem].no = n)'
  <2> SUFFICES ASSUME NEW n \in 1 .. k, k + 1 - Mem <= n
               PROVE  lm'[(n - 1) % Mem].no = n
    BY <1>1, <1>3
  <2>1. (n - 1) % Mem \in 0 .. Mem - 1
    BY <1>3, DivMod, n - 1 \in Int
  <2>2. CASE n = k
    BY <1>2, <1>4, <1>6, <2>1, <2>2
  <2>3. CASE n < k
    <3> DEFINE a == n - 1
               b == k - 1
    <3>3. a \in Int /\ b \in Int /\ a < b /\ b < a + Mem
      BY <1>3, <2>3
    <3> HIDE DEF a, b
    <3>4. a % Mem # b % Mem
      BY <1>3, <3>3, LessThanATurn
    <3>1. (n - 1) % Mem # (k - 1) % Mem
      BY <3>4 DEF a, b
    <3>2. lm[(n - 1) % Mem].no = n
      BY <1>3, <2>3 DEF RingInv
    <3> QED
      BY <1>4, <1>6, <2>1, <3>1, <3>2
  <2> QED
    BY <1>3, <2>2, <2>3
<1>8. bound \in Nat /\ bound <= Mem /\ bound <= k /\ bound = Lesser(Mem, k' - 1)
  BY <1>1, <1>3 DEF Lesser
\* A place reached from `from` by b is that of the number k + 1 + b.
<1>9. ASSUME NEW n \in 1 .. k, k + 1 - Mem <= n, NEW b \in Int,
             b = Mem + n - 1 - k
      PROVE  lm'[(from + b) % Mem].no = n
  <2>5. k \in Int
    BY <1>3
  <2>1. ((k % Mem) + b) % Mem = (k + b) % Mem
    BY <1>3, <2>5, Wrap, Zenon
  <2>2. k + b = (n - 1) + Mem
    BY <1>3, <1>9
  <2>3. ((n - 1) + Mem) % Mem = (n - 1) % Mem
    BY <1>3, Turn, n - 1 \in Int
  <2>4. lm'[(n - 1) % Mem].no = n
    BY <1>1, <1>3, <1>7, <1>9
  <2> QED
    BY <1>6, <2>1, <2>2, <2>3, <2>4
<1> HIDE DEF bound
<1>10. \A i \in 1 .. bound : lm'[(from + Mem - i) % Mem].no = k' - i
  <2> SUFFICES ASSUME NEW i \in 1 .. bound
               PROVE  lm'[(from + Mem - i) % Mem].no = k' - i
    OBVIOUS
  <2>1. k + 1 - i \in 1 .. k /\ k + 1 - Mem <= k + 1 - i /\ Mem - i \in Int
        /\ Mem - i = Mem + (k + 1 - i) - 1 - k
    BY <1>3, <1>8
  <2>2. lm'[(from + (Mem - i)) % Mem].no = k + 1 - i
    BY <1>9, <2>1
  <2>3. from + (Mem - i) = from + Mem - i
    BY <1>3, <1>6
  <2>4. k' - i = k + 1 - i
    BY <1>1, <1>3
  <2> QED
    BY <2>2, <2>3, <2>4, Zenon
<1>11. \A i \in 1 .. bound :
         lm'[(from + Mem - bound + i - 1) % Mem].no = k' - 1 - bound + i
  <2> SUFFICES ASSUME NEW i \in 1 .. bound
               PROVE  lm'[(from + Mem - bound + i - 1) % Mem].no = k' - 1 - bound + i
    OBVIOUS
  <2> DEFINE n == k - bound + i
             b == Mem - bound + i - 1
  <2>1. n \in 1 .. k /\ k + 1 - Mem <= n /\ b \in Int /\ b = Mem + n - 1 - k
    BY <1>3, <1>8
  <2>2. /\ from + b = from + Mem - bound + i - 1
        /\ k' - 1 - bound + i = n
    BY <1>1, <1>3, <1>6, <1>8
  <2> HIDE DEF n, b
  <2>3. lm'[(from + b) % Mem].no = n
    BY <1>9, <2>1
  <2> QED
    BY <2>2, <2>3
<1>12. /\ Down(lm', from, bound) = [i \in 1 .. bound |-> k' - i]
       /\ Up(lm', from, bound) = [i \in 1 .. bound |-> k' - 1 - bound + i]
  BY <1>10, <1>11 DEF Down, Up
<1>13. RingInv'
  <2>1. end' = (k' - 1) % Mem
    BY <1>1, <1>3, <1>6
  <2>2. used'.down = Down(lm', from, bound) /\ used'.up = Up(lm', from, bound)
    BY <1>1 DEF bound
  <2> QED
    BY <1>5, <1>7, <1>8, <1>12, <2>1, <2>2 DEF RingInv
<1>14. ret' = "searching"
  BY <1>1, <1>5
<1>15. SolverInv'
  <2>1. lm' \in [0 .. Mem - 1 -> Corrections]
    BY <1>1, <1>2, <1>3, MemAssumption DEF Corrections, new
  <2>2. (ls \in Searches /\ StartKnown(ls) /\ Guided(ls))'
    BY <1>1, FirstSearch
  <2>3. k' \in 1 .. MaxIterations + 1 /\ k' <= MaxIterations
    BY <1>1, <1>3, MemAssumption
  <2> QED
    BY <1>1, <1>6, <1>14, <2>1, <2>2, <2>3, SearchTypes DEF SolverInv, LbfgsTypeOK
<1> QED
  BY <1>1, <1>13, <1>14, <1>15

\* What a pass leaves: a search that goes on, an error, or the trial as the iterate.
LEMMA PassKeeps ==
  ASSUME SolverInv, RingInv, NEW e \in Found(ls, StepTaken(ls)), Pass(e.f, e.d)
  PROVE  /\ SolverInv' /\ RingInv'
         /\ \/ ret' = "searching"
            \/ ret' \in LineSearchErrors
            \/ ret' \in Succeeded /\ points' = "iterate"
<1> DEFINE stp == StepTaken(ls)
<1>1. ret = "searching"
  BY DEF Pass
<1>2. CASE SearchFails(stp, e.f, e.d)
  <2>1. ret' \in LineSearchErrors /\ UNCHANGED <<k, end, lm, used>> /\ ls' = LineSearch
        /\ points' \in {"iterate", "trial"}
    BY <1>2 DEF SearchFails
  <2>2. ret' \in Codes
    BY <2>1 DEF Codes
  <2>3. SolverInv'
    BY <2>1, <2>2, FirstSearch, SearchTypes DEF SolverInv, LbfgsTypeOK
  <2>4. RingInv'
    BY <2>1 DEF RingInv
  <2> QED
    BY <2>1, <2>3, <2>4
<1>3. CASE SearchGoesOn(stp, e.f, e.d)
  <2>1. /\ Verdict(ls, stp, e.f, e.d) = "goes_on"
        /\ ls' \in Updated(ls, stp, e.f, e.d)
        /\ UNCHANGED <<ret, k, end, lm, used>> /\ points' \in {"iterate", "trial"}
    BY <1>3 DEF SearchGoesOn
  <2>2. (ls \in Searches /\ StartKnown(ls) /\ Guided(ls))'
    BY <2>1, UpdatedType DEF SolverInv
  <2>3. SolverInv'
    BY <2>1, <2>2, SearchTypes DEF SolverInv, LbfgsTypeOK
  <2>4. RingInv'
    BY <2>1 DEF RingInv
  <2> QED
    BY <1>1, <2>1, <2>3, <2>4
<1>4. CASE Finishes(stp, e.f, e.d)
  <2>1. ret' \in {"CONVERGENCE", "MAXIMUMITERATION"} /\ UNCHANGED <<k, end, lm, used>>
        /\ ls' = LineSearch /\ points' = "iterate"
    BY <1>4 DEF Finishes
  <2>2. ret' \in Succeeded /\ ret' \in Codes
    BY <2>1 DEF Succeeded, Codes
  <2>3. SolverInv'
    BY <2>1, <2>2, FirstSearch, SearchTypes DEF SolverInv, LbfgsTypeOK
  <2>4. RingInv'
    BY <2>1 DEF RingInv
  <2> QED
    BY <2>1, <2>2, <2>3, <2>4
<1>5. CASE NextIteration(stp, e.f, e.d)
  BY <1>5, NextIterationKeeps
<1> QED
  BY <1>2, <1>3, <1>4, <1>5 DEF Pass

-----------------------------------------------------------------------------
(* The optimiser's steps *)

ControlTypes ==
  /\ job \in {"rebound", "refine"}
  /\ pc \in {"prepare", "solve", "returned"}
  /\ force_stop \in Stops \cup {"DONT_STOP"}
  /\ iter_num \in 0 .. QuietEvals + 1
  /\ min_ellip \in {Apart, Close, None}
  /\ restart_nums \in 0 .. MaxRestarts
  /\ rebound_times \in 0 .. ReboundLimit + 1
  /\ success \in BOOLEAN

LEMMA SearchInvParts == SearchInv <=> SolverInv /\ ControlTypes
  BY DEF SearchInv, SolverInv, TypeOK, ControlTypes

LEMMA PrepareKeeps == ASSUME IInv, Prepare PROVE IInv'
<1> USE LimitsAssumption DEF Prepare
<1>1. SolverInv /\ ControlTypes /\ RingInv /\ ControlInv /\ CountInv
  BY SearchInvParts DEF IInv
<1>2. SolverInv' /\ RingInv' /\ ret' = "evaluating"
  BY <1>1, CallKeeps
<1>3. ControlTypes'
  <2>1. 0 \in 0 .. QuietEvals + 1
    OBVIOUS
  <2> QED
    BY <1>1, <2>1 DEF ControlTypes, None
<1>4. ControlInv'
  BY <1>1, <1>2 DEF ControlInv, Succeeded
<1>5. CountInv'
  <2> DEFINE spent == restart_nums + Lesser(rebound_times, ReboundLimit)
  <2>1. /\ restart_nums \in Nat /\ restart_nums < MaxRestarts /\ calls \in Nat
        /\ Lesser(rebound_times, ReboundLimit) \in 0 .. ReboundLimit
        /\ PeersClose \/ calls <= spent
    BY <1>1 DEF CountInv, ControlTypes, Lesser
  <2>2. spent' = spent /\ spent \in Nat /\ spent < MaxRestarts + ReboundLimit
    BY <2>1
  <2>3. calls' \in Nat /\ calls' <= 1 + spent
    BY <2>1, <2>2
  <2> HIDE DEF spent
  <2>4. calls' <= MaxRestarts + ReboundLimit
    BY <2>2, <2>3
  <2> QED
    BY <1>1, <2>1, <2>2, <2>3, <2>4 DEF CountInv, CallsAreLimited, spent
<1> QED
  BY <1>2, <1>3, <1>4, <1>5, SearchInvParts DEF IInv, SearchInv, SolverInv, TypeOK, ControlTypes

LEMMA EvaluateKeeps ==
  ASSUME IInv, Evaluate
  PROVE  IInv' /\ ret' # "CANCELED"
<1> USE LimitsAssumption
<1>1. SolverInv /\ ControlTypes /\ RingInv /\ ControlInv /\ CountInv
  BY SearchInvParts DEF IInv
<1>2. /\ SolverInv' /\ RingInv'
      /\ \/ ret' = "searching"
         \/ ret' \in LineSearchErrors
         \/ ret' \in Succeeded /\ points' = "iterate"
  <2>1. CASE FirstEvaluation
    BY <1>1, <2>1, FirstEvaluationKeeps DEF Succeeded
  <2>2. CASE \E e \in Found(ls, StepTaken(ls)) : Pass(e.f, e.d)
    BY <1>1, <2>2, PassKeeps
  <2> QED
    BY <2>1, <2>2 DEF Evaluate
<1>3. /\ pc = "solve" /\ UNCHANGED <<job, pc, restart_nums, rebound_times, success, calls>>
      /\ CostRebound \/ CostRefine
  BY DEF Evaluate
<1>4. ControlTypes'
  <2>1. CASE CostRebound
    <3>1. iter_num' \in 0 .. QuietEvals + 1
      BY <1>1, <2>1 DEF CostRebound, ControlTypes, Lesser
    <3>2. min_ellip' \in {Apart, Close, None}
      BY <1>1, <2>1 DEF CostRebound, ControlTypes, Lesser, Apart, Close, None
    <3>3. force_stop' \in Stops \cup {"DONT_STOP"}
      BY <2>1 DEF CostRebound
    <3> QED
      BY <1>1, <1>3, <3>1, <3>2, <3>3 DEF ControlTypes
  <2>2. CASE CostRefine
    BY <1>1, <1>3, <2>2 DEF ControlTypes, CostRefine
  <2> QED
    BY <1>3, <2>1, <2>2
<1>5. ret' # "CANCELED"
  BY <1>2 DEF LineSearchErrors, Succeeded
<1>6. ControlInv'
  BY <1>1, <1>2, <1>3, <1>5 DEF ControlInv, Succeeded, LineSearchErrors
<1>7. CountInv'
  BY <1>1, <1>3 DEF CountInv, CallsAreLimited
<1> QED
  BY <1>2, <1>4, <1>5, <1>6, <1>7, SearchInvParts DEF IInv, SearchInv, SolverInv, TypeOK, ControlTypes

LEMMA PollKeeps == ASSUME IInv, Poll PROVE IInv' /\ job = "rebound" /\ ret' = "CANCELED"
<1>1. SolverInv /\ ControlTypes /\ RingInv /\ ControlInv /\ CountInv
  BY SearchInvParts DEF IInv
<1>2. SolverInv' /\ RingInv' /\ ret' = "CANCELED"
  BY <1>1, CancelledKeeps DEF Poll
<1>3. UNCHANGED reboundVars /\ pc = "solve" /\ job = "rebound"
  BY DEF Poll, EarlyExit
<1>4. ControlTypes' /\ CountInv'
  BY <1>1, <1>3 DEF ControlTypes, CountInv, CallsAreLimited, PeersClose, reboundVars
<1>5. ControlInv'
  BY <1>1, <1>2, <1>3 DEF ControlInv, Succeeded, reboundVars
<1> QED
  BY <1>2, <1>3, <1>4, <1>5 DEF IInv, SearchInv, SolverInv, TypeOK, ControlTypes

LEMMA JudgeKeeps == ASSUME IInv, Judge PROVE IInv'
<1> USE LimitsAssumption
<1>1. SolverInv /\ ControlTypes /\ RingInv /\ ControlInv /\ CountInv
  BY SearchInvParts DEF IInv
<1>2. /\ job = "rebound" /\ pc = "solve" /\ ret \notin {"evaluating", "searching"}
      /\ UNCHANGED <<lbfgsVars, job, force_stop, iter_num, min_ellip, calls>>
  BY DEF Judge
<1>3. SolverInv' /\ RingInv'
  BY <1>1, <1>2 DEF SolverInv, LbfgsTypeOK, RingInv, lbfgsVars
\* The limits that hold when the solver has returned.
<1>4. /\ calls \in Nat /\ restart_nums \in 0 .. MaxRestarts - 1
      /\ rebound_times \in 0 .. ReboundLimit + 1
      /\ calls <= 1 + restart_nums + Lesser(rebound_times, ReboundLimit)
      /\ calls <= MaxRestarts + ReboundLimit /\ success \in BOOLEAN
      /\ success = FALSE
  BY <1>1, <1>2 DEF CountInv, ControlTypes, ControlInv, Lesser
<1>5. /\ restart_nums' \in 0 .. MaxRestarts
      /\ rebound_times' \in 0 .. ReboundLimit + 1
      /\ pc' \in {"prepare", "returned"}
      /\ pc' = "prepare" => /\ restart_nums' < MaxRestarts
                            /\ \/ PeersClose
                               \/ calls <= restart_nums' + Lesser(rebound_times', ReboundLimit)
      /\ success' \in BOOLEAN
      /\ success' => pc' = "returned" /\ IsSolution /\ ~PeersClose
  <2> USE DEF LoopOrReturn, Again
  <2>1. CASE PeersTooClose
    BY <1>4, <2>1 DEF PeersTooClose
  <2>2. CASE StartBlocked
    BY <1>4, <2>2 DEF StartBlocked
  <2>3. CASE CurveBlocked
    BY <1>4, <2>3 DEF CurveBlocked
  <2>4. CASE CurveFree
    BY <1>4, <2>4 DEF CurveFree
  <2>5. CASE Rebounded
    <3>1. rebound_times' \in 0 .. ReboundLimit + 1 /\ restart_nums' = restart_nums
          /\ (rebound_times' <= ReboundLimit => rebound_times' = rebound_times + 1)
      BY <1>4, <2>5 DEF Rebounded, Lesser
    <3>2. pc' \in {"prepare", "returned"} /\ success' = FALSE
      BY <1>4, <2>5 DEF Rebounded
    <3>3. pc' = "prepare" => PeersClose \/ rebound_times' <= ReboundLimit
      BY <2>5 DEF Rebounded
    <3>4. ASSUME rebound_times' <= ReboundLimit
          PROVE  calls <= restart_nums' + Lesser(rebound_times', ReboundLimit)
      BY <1>4, <3>1, <3>4 DEF Lesser
    <3>5. restart_nums' < MaxRestarts /\ restart_nums' \in 0 .. MaxRestarts
      BY <1>4, <3>1
    <3> HIDE DEF LoopOrReturn
    <3> QED
      BY <3>1, <3>2, <3>3, <3>4, <3>5
  <2>6. CASE SolverError
    BY <1>4, <2>6 DEF SolverError
  <2> QED
    BY <2>1, <2>2, <2>3, <2>4, <2>5, <2>6 DEF Judge
<1>6. ControlTypes'
  BY <1>1, <1>2, <1>5 DEF ControlTypes
<1>7. PeersClose' = PeersClose /\ (ret \in Succeeded => points = "iterate")
  BY <1>1, <1>2 DEF PeersClose, ControlInv
<1>8. ControlInv'
  BY <1>1, <1>2, <1>5, <1>7 DEF ControlInv, lbfgsVars, IsSolution
<1>9. CountInv'
  BY <1>2, <1>4, <1>5, <1>7 DEF CountInv, CallsAreLimited
<1> QED
  BY <1>3, <1>6, <1>8, <1>9 DEF IInv, SearchInv, SolverInv, TypeOK, ControlTypes

LEMMA RefineKeeps == ASSUME IInv, Refine PROVE IInv'
<1> USE LimitsAssumption DEF Refine
<1>1. SolverInv /\ ControlTypes /\ RingInv /\ ControlInv /\ CountInv
  BY SearchInvParts DEF IInv
<1>2. SolverInv' /\ RingInv' /\ ret' = "evaluating"
  BY <1>1, CallKeeps
<1>3. ControlTypes'
  <2>1. 0 \in 0 .. QuietEvals + 1 /\ 0 \in 0 .. MaxRestarts /\ 0 \in 0 .. ReboundLimit + 1
    OBVIOUS
  <2> QED
    BY <1>1, <2>1 DEF ControlTypes
<1>4. ControlInv'
  BY <1>1, <1>2 DEF ControlInv, Succeeded
<1>5. CountInv'
  BY <1>1, <1>2 DEF CountInv, CallsAreLimited
<1> QED
  BY <1>2, <1>3, <1>4, <1>5 DEF IInv, SearchInv, SolverInv, TypeOK, ControlTypes

LEMMA RefinedKeeps == ASSUME IInv, Refined PROVE IInv'
<1> USE DEF Refined
<1>1. SolverInv /\ ControlTypes /\ RingInv /\ ControlInv /\ CountInv
  BY SearchInvParts DEF IInv
<1>2. SolverInv' /\ RingInv'
  BY <1>1 DEF SolverInv, LbfgsTypeOK, RingInv, lbfgsVars
<1>3. ControlTypes'
  BY <1>1 DEF ControlTypes
<1>4. ControlInv' /\ CountInv'
  BY <1>1 DEF ControlInv, CountInv, CallsAreLimited, lbfgsVars
<1> QED
  BY <1>2, <1>3, <1>4 DEF IInv, SearchInv, SolverInv, TypeOK, ControlTypes

LEMMA StepKeeps == ASSUME IInv, [Next]_vars PROVE IInv'
<1>1. CASE UNCHANGED vars
  BY <1>1 DEF vars, lbfgsVars, reboundVars, IInv, SearchInv, TypeOK, LbfgsTypeOK,
              RingInv, ControlInv, CountInv, CallsAreLimited, PeersClose
<1>2. CASE Next
  BY <1>2, PrepareKeeps, EvaluateKeeps, PollKeeps, JudgeKeeps, RefineKeeps, RefinedKeeps
     DEF Next
<1> QED
  BY <1>1, <1>2

-----------------------------------------------------------------------------
(* Theorems *)

\* The invariant the others follow from.  (rebound_optimize, lbfgs_optimize)
THEOREM OptimizerInvariance == Spec => []IInv
<1>1. Init => IInv
  BY InitIInv
<1>2. IInv /\ [Next]_vars => IInv'
  BY StepKeeps
<1> QED
  BY <1>1, <1>2, PTL DEF Spec

\* The types, and the limit on the calls of the solver, for every limit the
\* parameters set.  (the loop of rebound_optimize)
THEOREM OptimizerLimited == Spec => []OptimizerInv
<1>1. IInv => OptimizerInv
  BY DEF OptimizerInv, IInv, SearchInv, CountInv
<1> QED
  BY <1>1, OptimizerInvariance, PTL

\* The two loops never use a correction that was overwritten, whatever the length
\* of the ring and the number of iterations, and every direction descends.
\* (lbfgs_optimize)
THEOREM CorrectionsLatest == Spec => []CorrectionsAreLatest
<1>1. IInv => CorrectionsAreLatest
  BY DEF IInv, RingInv, CorrectionsAreLatest
<1> QED
  BY <1>1, OptimizerInvariance, PTL

\* The line search never loses the minimum it has bracketed, nor goes up from the
\* start, unless a cubic fell behind its trial: for every objective, every pair of
\* coefficients and every choice of the interpolations.
\* (line_search_morethuente, update_trial_interval)
THEOREM BracketHolds == Spec => []BracketKept
<1>1. IInv => BracketKept
  BY DEF IInv, SearchInv, Guided, OnCourse, BracketKept, Bracketed
<1> QED
  BY <1>1, OptimizerInvariance, PTL

\* A rebound that succeeds hands out the solver's solution.  (rebound_optimize)
THEOREM SuccessSound == Spec => []SuccessIsTheSolution
<1>1. IInv => SuccessIsTheSolution
  BY DEF IInv, ControlInv, SuccessIsTheSolution
<1> QED
  BY <1>1, OptimizerInvariance, PTL

\* A stop asked for ends the call it was asked in, and no refinement.
\* (earlyExit, lbfgs_optimize)
THEOREM StopsHonoured == Spec => StopsAreHonoured
<1> DEFINE A == /\ ret = "searching" /\ job = "rebound" /\ force_stop \in Stops
                     => ret' = "CANCELED"
                /\ job = "refine" => ret' # "CANCELED"
<1>1. ASSUME IInv, Next PROVE A
  <2>1. ControlInv
    BY <1>1 DEF IInv
  <2>2. CASE Prepare
    BY <2>1, <2>2 DEF Prepare, ControlInv
  <2>3. CASE Evaluate
    BY <1>1, <2>3, EvaluateKeeps DEF Evaluate, FirstEvaluation, EarlyExit
  <2>4. CASE Poll
    BY <1>1, <2>4, PollKeeps
  <2>5. CASE Judge
    BY <2>5 DEF Judge
  <2>6. CASE Refine
    BY <2>1, <2>6 DEF Refine, ControlInv
  <2>7. CASE Refined
    BY <2>1, <2>7 DEF Refined, ControlInv, lbfgsVars
  <2> QED
    BY <1>1, <2>2, <2>3, <2>4, <2>5, <2>6, <2>7 DEF Next
<1>2. IInv /\ [Next]_vars => [A]_vars
  BY <1>1
<1> QED
  BY <1>2, OptimizerInvariance, PTL DEF Spec, StopsAreHonoured
=============================================================================
