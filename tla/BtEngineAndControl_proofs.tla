---------------------- MODULE BtEngineAndControl_proofs ----------------------
(***************************************************************************)
(* What the behaviour tree promises, for every configuration of its steps, *)
(* every number of attempts, every deadline and any number of events, and  *)
(* in the last section what the offboard controller publishes.             *)
(*                                                                         *)
(* A node of the tree is proved to keep a contract: ticked in a state that *)
(* is good and in which P holds, it leaves a good state, in which S holds  *)
(* if it succeeds and F if it fails; it changes nothing that other nodes   *)
(* remember, and ends a flight only where E holds.  The contract of a      *)
(* composite or a decorator follows from those of its children, up to that *)
(* of the root, which is the engine's tick.  A good state is one in which  *)
(* the numbers of the composites with memory mean what they should: that   *)
(* each earlier child has left its fact.                                   *)
(***************************************************************************)
EXTENDS OffboardControl, BtEngine, SequenceTheorems, WellFoundedInduction, TLAPS

-----------------------------------------------------------------------------
(* Facts about a flight that last: none is taken back while a tree ticks. *)

Statuses == {"SUCCESS", "FAILURE", "RUNNING"}

\* What a tick may change of the blackboard, and how.
Later(s, t) ==
  /\ t.config = s.config
  /\ t.board.flight_plan = s.board.flight_plan
  /\ s.board.objectives \subseteq t.board.objectives
  /\ \A m \in Missions :
       s.board.mission_outcomes[m] # "none" => t.board.mission_outcomes[m] # "none"
  /\ t.board.running => s.board.running

Lasting(P) ==
  /\ P \subseteq States
  /\ \A s \in P, t \in States : Later(s, t) => t \in P

Works(key) == {s \in States : key \in DOMAIN s.config => s.config[key].outcome = "success"}
AllWork(keys) == {s \in States : \A key \in keys : s \in Works(key)}
OneFails(keys) == {s \in States : \E key \in keys : s \notin Works(key)}
Scored(objective) == {s \in States : objective \in s.board.objectives}
Told(mission) == {s \in States : s.board.mission_outcomes[mission] # "none"}
Flies(plan) == {s \in States : s.board.flight_plan = plan}

\* What holds once a mission is flown, the landing over, a flight over.
MissionFacts(mission) == {s \in States : mission \in Enabled => s \in Told(mission)}
LandingFacts ==
  {s \in States :
     \/ s \in Scored("landing.moving")
     \/ s \in OneFails(MovingSteps) /\ s \in Scored("landing.static")
     \/ s \in OneFails(MovingSteps) /\ s \in OneFails(StaticSteps)}
EndFacts ==
  {s \in States :
     \/ /\ s \in Flies("flight_a") /\ s \in LandingFacts
        /\ \A m \in {"mission1", "mission2", "mission3"} : s \in MissionFacts(m)
     \/ s \in Flies("flight_b") /\ s \in MissionFacts("mission4")}

-----------------------------------------------------------------------------
(* What the number of a composite with memory says: the facts its earlier *)
(* children left.                                                         *)

GateFacts(objective, detect, traverse) == <<Works(detect), Works(traverse), Scored(objective)>>
ApproachFacts(objective, find, track, descend, confirm) ==
  <<Works(find), Works(track), Works(descend), Works(confirm), Scored(objective)>>

WindowARed  == {"DetectWindowARed", "TraverseWindowARed"}
WindowBRed  == {"DetectWindowBRed", "TraverseWindowBRed"}
RedBarHigh  == {"DetectRedBar", "CrossRedBarHigh"}
BlueBarsLow == {"DetectBlueBars", "CrossBlueBarsLow"}
EnterRed    == {"AlignEnterRed", "FlyEnterRed"}
ExitRed     == {"AlignExitRed", "FlyExitRed"}

FactsOf(name) ==
  IF name = "Window A red"
        THEN GateFacts("m1.window_a_red", "DetectWindowARed", "TraverseWindowARed")
  ELSE IF name = "Window A blue"
        THEN GateFacts("m1.window_a_blue", "DetectWindowABlue", "TraverseWindowABlue")
  ELSE IF name = "Red bar high" THEN GateFacts("m1.bar_red_high", "DetectRedBar", "CrossRedBarHigh")
  ELSE IF name = "Red bar middle"
        THEN GateFacts("m1.bar_red_middle", "DetectRedBar", "CrossRedBarMiddle")
  ELSE IF name = "Blue bars low"
        THEN GateFacts("m1.bar_blue_low", "DetectBlueBars", "CrossBlueBarsLow")
  ELSE IF name = "Blue bars middle"
        THEN GateFacts("m1.bar_blue_middle", "DetectBlueBars", "CrossBlueBarsMiddle")
  ELSE IF name = "Tubes" THEN GateFacts("m1.tubes", "DetectTubes", "CrossTubes")
  ELSE IF name = "Window B red"
        THEN GateFacts("m1.window_b_red", "DetectWindowBRed", "TraverseWindowBRed")
  ELSE IF name = "Window B blue"
        THEN GateFacts("m1.window_b_blue", "DetectWindowBBlue", "TraverseWindowBBlue")
  ELSE IF name = "Enter room via red" THEN GateFacts("m2.enter_red", "AlignEnterRed", "FlyEnterRed")
  ELSE IF name = "Enter room via blue"
        THEN GateFacts("m2.enter_blue", "AlignEnterBlue", "FlyEnterBlue")
  ELSE IF name = "Exit room via red" THEN GateFacts("m2.exit_red", "AlignExitRed", "FlyExitRed")
  ELSE IF name = "Exit room via blue" THEN GateFacts("m2.exit_blue", "AlignExitBlue", "FlyExitBlue")
  ELSE IF name = "Land on Moving platform" THEN
         ApproachFacts("landing.moving", "FindMovingMarker", "TrackMovingPlatform", "DescendMoving",
                       "ConfirmMovingTouchdown")
  ELSE IF name = "Land on Static platform" THEN
         ApproachFacts("landing.static", "FindStaticMarker", "TrackStaticPlatform", "DescendStatic",
                       "ConfirmStaticTouchdown")
  ELSE IF name = "Window A" THEN <<OneFails(WindowARed), States, {}>>
  ELSE IF name = "Red bar" THEN <<OneFails(RedBarHigh), States, {}>>
  ELSE IF name = "Blue bars" THEN <<OneFails(BlueBarsLow), States, {}>>
  ELSE IF name = "Window B" THEN <<OneFails(WindowBRed), States, {}>>
  ELSE IF name = "Enter room" THEN <<OneFails(EnterRed), States>>
  ELSE IF name = "Exit room" THEN <<OneFails(ExitRed), States>>
  ELSE IF name = "Tube passage" THEN <<States, {}>>
  ELSE IF name = "Precision Landing" THEN <<OneFails(MovingSteps), OneFails(StaticSteps), {}>>
  ELSE IF name = "Mission 2" THEN
         <<Works("ApproachRoom"), States, Works("Illuminate"), Works("SweepAndCount"),
           States, States, Works("PublishCount")>>
  ELSE IF name = "Mission 3" THEN
         <<Works("ApproachBoxArea"), Works("ScanBoxes"), Works("SelectHotBox"), Works("HoverOverBox"),
           Works("BlinkHotspotLed"), Scored("m3.hotbox_detected"), Works("DropCone"), States>>
  ELSE IF name = "Mission 4" THEN
         <<Works("ApproachRingSupport"), Works("VisualServoToRing"), Works("GrabRing"),
           Works("VerifyGrab"), States, Works("ApproachBlade"), Works("TouchCopperDisc"), States,
           Works("RetreatFromBlade")>>
  ELSE IF name = "FlightA" THEN
         <<States, MissionFacts("mission1"), MissionFacts("mission2"), MissionFacts("mission3"),
           LandingFacts, {}>>
  ELSE IF name = "FlightB" THEN <<States, MissionFacts("mission4"), States, {}>>
  ELSE << >>

Past(id) == IF Len(id) = 1 THEN FactsOf(id[1]) ELSE << >>
Sound(id, number, s) == \A j \in 1..Len(Past(id)) : j < number => s \in Past(id)[j]

\* Why an objective may be on the score sheet.
Reason(objective) ==
  IF objective = "m1.window_a_red" THEN AllWork(WindowARed)
  ELSE IF objective = "m1.window_a_blue" THEN OneFails(WindowARed)
  ELSE IF objective = "m1.bar_red_high" THEN AllWork(RedBarHigh)
  ELSE IF objective = "m1.bar_red_middle" THEN OneFails(RedBarHigh)
  ELSE IF objective = "m1.bar_blue_low" THEN AllWork(BlueBarsLow)
  ELSE IF objective = "m1.bar_blue_middle" THEN OneFails(BlueBarsLow)
  ELSE IF objective = "m1.window_b_red" THEN AllWork(WindowBRed)
  ELSE IF objective = "m1.window_b_blue" THEN OneFails(WindowBRed)
  ELSE IF objective = "m2.enter_red" THEN AllWork(EnterRed)
  ELSE IF objective = "m2.enter_blue" THEN OneFails(EnterRed)
  ELSE IF objective = "m2.exit_red" THEN AllWork(ExitRed)
  ELSE IF objective = "m2.exit_blue" THEN OneFails(ExitRed)
  ELSE IF objective = "landing.moving" THEN AllWork(MovingSteps)
  ELSE IF objective = "landing.static" THEN OneFails(MovingSteps)
  ELSE IF objective = "m3.cone_dropped" THEN Scored("m3.hotbox_detected")
  ELSE States

\* The states of a tree that has only ever been ticked.
Good ==
  {s \in States :
     /\ \A m, n \in s.mem : m.id = n.id => m = n
     /\ \A m \in s.mem : Sound(m.id, m.number, s)
     /\ \A o \in s.board.objectives : o \in Objectives /\ s \in Reason(o)
     /\ \A m \in Missions :
          s.board.mission_outcomes[m] = "success" => s \in AllWork(Needed[m])}

-----------------------------------------------------------------------------
(* Induction on the naturals, and iteration *)

Less == OpToRel(<, Nat)

LEMMA LessIsWellFounded == IsWellFoundedOn(Less, Nat)
  BY NatLessThanWellFounded, Zenon DEF Less

LEMMA LessIs == \A x, y \in Nat : x < y => <<x, y>> \in Less
  BY Zenon DEF Less, OpToRel

\* A set of naturals that is not empty has a least element.
LEMMA LeastElement ==
  ASSUME NEW T, T \subseteq Nat, T # {}
  PROVE  \E x \in T : \A y \in T : x <= y
<1>1. PICK x \in T : \A y \in T : <<y, x>> \notin Less
  BY LessIsWellFounded, WFMin
<1>2. \A y \in T : ~(y < x)
  BY <1>1, LessIs
<1>3. \A y \in T : x <= y
  BY <1>2
<1> QED
  BY <1>3

LEMMA Induction ==
  ASSUME NEW T, T \subseteq Nat, 0 \in T, \A n \in T : n + 1 \in T
  PROVE  Nat \subseteq T
<1> DEFINE Bad == Nat \ T
<1> SUFFICES ASSUME Bad # {} PROVE FALSE
  OBVIOUS
<1>1. PICK x \in Bad : \A y \in Bad : x <= y
  BY LeastElement
<1>2. x \in Nat /\ x # 0
  OBVIOUS
<1>3. x - 1 \in Nat /\ x - 1 < x
  BY <1>2
<1>4. x - 1 \in T
  BY <1>1, <1>2, <1>3
<1>5. (x - 1) + 1 \in T
  BY <1>4
<1> QED
  BY <1>2, <1>5

\* A function defined by recursion on 0 .. N exists.
Recurs(S, x, step, N) ==
  \E f \in [0 .. N -> S] : f = [k \in 0 .. N |-> IF k = 0 THEN x ELSE step[k][f[k - 1]]]
LEMMA Recursion ==
  ASSUME NEW S, NEW x \in S, NEW N \in Nat, NEW step \in [1 .. N -> [S -> S]]
  PROVE  Recurs(S, x, step, N)
<1> DEFINE Grows(f, n) == f \in [0 .. n -> S] /\ f[0] = x /\ \A k \in 1 .. n : f[k] = step[k][f[k - 1]]
           T == {n \in Nat : n <= N => \E f \in [0 .. n -> S] : Grows(f, n)}
<1>1. 0 \in T
  <2> DEFINE f0 == [k \in 0 .. 0 |-> x]
  <2>1. Grows(f0, 0)
    OBVIOUS
  <2> QED
    BY <2>1
<1>2. \A n \in T : n + 1 \in T
  <2> TAKE n \in T
  <2>1. n \in Nat /\ n + 1 \in Nat
    OBVIOUS
  <2> SUFFICES ASSUME n + 1 <= N PROVE \E f \in [0 .. n + 1 -> S] : Grows(f, n + 1)
    BY <2>1
  <2>2. PICK f \in [0 .. n -> S] : Grows(f, n)
    BY <2>1
  <2> DEFINE g == [k \in 0 .. n + 1 |-> IF k = n + 1 THEN step[n + 1][f[n]] ELSE f[k]]
  <2>3. g \in [0 .. n + 1 -> S]
    <3>1. n + 1 \in 1 .. N /\ f[n] \in S
      BY <2>1, <2>2
    <3>2. step[n + 1] \in [S -> S]
      BY <3>1
    <3>3. step[n + 1][f[n]] \in S
      BY <3>1, <3>2
    <3>4. \A k \in 0 .. n + 1 : k # n + 1 => f[k] \in S
      BY <2>1, <2>2
    <3> QED
      BY <3>3, <3>4
  <2>4. g[0] = x
    BY <2>1, <2>2
  <2>5. ASSUME NEW k \in 1 .. n + 1 PROVE g[k] = step[k][g[k - 1]]
    <3>1. CASE k = n + 1
      <4>1. g[k] = step[k][f[n]] /\ k - 1 = n /\ n \in 0 .. n + 1 /\ n # n + 1
        BY <2>1, <3>1
      <4>2. g[n] = f[n]
        BY <4>1
      <4> QED
        BY <4>1, <4>2
    <3>2. CASE k # n + 1
      <4>1. k \in 1 .. n /\ k \in 0 .. n + 1 /\ k - 1 \in 0 .. n + 1 /\ k - 1 # n + 1
        BY <2>1, <3>2
      <4>2. g[k] = f[k] /\ g[k - 1] = f[k - 1]
        BY <3>2, <4>1
      <4>3. f[k] = step[k][f[k - 1]]
        BY <2>2, <4>1
      <4> QED
        BY <4>2, <4>3
    <3> QED
      BY <3>1, <3>2
  <2>6. Grows(g, n + 1)
    BY <2>3, <2>4, <2>5
  <2> QED
    BY <2>1, <2>6
<1>3. N \in T
  <2>1. Nat \subseteq T
    BY <1>1, <1>2, Induction
  <2> QED
    BY <2>1
<1>4. PICK f \in [0 .. N -> S] : Grows(f, N)
  BY <1>3
<1>5. f = [k \in 0 .. N |-> IF k = 0 THEN x ELSE step[k][f[k - 1]]]
  <2>1. \A k \in 0 .. N : k = 0 \/ k \in 1 .. N
    OBVIOUS
  <2>2. \A k \in 0 .. N : f[k] = IF k = 0 THEN x ELSE step[k][f[k - 1]]
    BY <1>4, <2>1
  <2> QED
    BY <1>4, <2>2
<1> QED
  BY <1>5 DEF Recurs

\* What each step keeps holds all along.
LEMMA StepByStep ==
  ASSUME NEW N \in Nat, NEW b, NEW inv, b[0] \in inv[0],
         \A k \in 1 .. N : b[k - 1] \in inv[k - 1] => b[k] \in inv[k]
  PROVE  \A k \in 0 .. N : b[k] \in inv[k]
<1> DEFINE T == {k \in Nat : k <= N => b[k] \in inv[k]}
<1>1. 0 \in T
  OBVIOUS
<1>2. ASSUME NEW k \in T PROVE k + 1 \in T
  <2> SUFFICES ASSUME k + 1 <= N PROVE b[k + 1] \in inv[k + 1]
    OBVIOUS
  <2>1. k + 1 \in 1 .. N /\ (k + 1) - 1 = k /\ b[k] \in inv[k]
    OBVIOUS
  <2> QED
    BY <2>1
<1>3. Nat \subseteq T
  <2>1. T \subseteq Nat
    OBVIOUS
  <2> HIDE DEF T
  <2> QED
    BY <1>1, <1>2, <2>1, Induction
<1> QED
  BY <1>3

\* A recursion whose steps keep an invariant need only be one where it holds.
Keeps(S, x, step, inv, N) ==
  \E f \in [0 .. N -> S] :
    /\ f = [k \in 0 .. N |-> IF k = 0 THEN x ELSE step[k][f[k - 1]]]
    /\ \A k \in 0 .. N : f[k] \in inv[k]
LEMMA RecursionKeeps ==
  ASSUME NEW S, NEW N \in Nat, NEW inv \in [0 .. N -> SUBSET S], NEW x \in inv[0], NEW step,
         \A k \in 1 .. N : \A s \in inv[k - 1] : step[k][s] \in inv[k]
  PROVE  Keeps(S, x, step, inv, N)
<1> DEFINE safe == [k \in 1 .. N |-> [s \in S |-> IF s \in inv[k - 1] THEN step[k][s] ELSE s]]
<1>1. safe \in [1 .. N -> [S -> S]] /\ x \in S
  <2>1. \A k \in 1 .. N : k \in 0 .. N /\ k - 1 \in 0 .. N
    OBVIOUS
  <2>2. \A k \in 1 .. N : \A s \in S : (IF s \in inv[k - 1] THEN step[k][s] ELSE s) \in S
    BY <2>1
  <2>3. 0 \in 0 .. N
    OBVIOUS
  <2> QED
    BY <2>2, <2>3
<1>2. PICK f \in [0 .. N -> S] : f = [k \in 0 .. N |-> IF k = 0 THEN x ELSE safe[k][f[k - 1]]]
  <2>1. Recurs(S, x, safe, N)
    <3> HIDE DEF safe
    <3> QED
      BY <1>1, Recursion
  <2> QED
    BY <2>1 DEF Recurs
<1>3. f[0] = x /\ \A k \in 1 .. N : f[k] = safe[k][f[k - 1]]
  <2>1. 0 \in 0 .. N /\ \A k \in 1 .. N : k \in 0 .. N /\ k # 0
    OBVIOUS
  <2> HIDE DEF safe
  <2> QED
    BY <1>2, <2>1
<1>4. ASSUME NEW k \in 1 .. N, f[k - 1] \in inv[k - 1]
      PROVE  f[k] = step[k][f[k - 1]] /\ f[k] \in inv[k]
  <2>1. k - 1 \in 0 .. N
    OBVIOUS
  <2>2. f[k - 1] \in S
    BY <2>1
  <2>3. safe[k][f[k - 1]] = step[k][f[k - 1]]
    BY <1>4, <2>2
  <2> QED
    BY <1>3, <1>4, <2>3
<1>6. \A k \in 0 .. N : f[k] \in inv[k]
  <2>1. f[0] \in inv[0]
    BY <1>3
  <2>2. \A k \in 1 .. N : f[k - 1] \in inv[k - 1] => f[k] \in inv[k]
    BY <1>4
  <2> QED
    BY <2>1, <2>2, StepByStep
<1>7. \A k \in 0 .. N : f[k] = IF k = 0 THEN x ELSE step[k][f[k - 1]]
  <2> TAKE k \in 0 .. N
  <2>1. CASE k = 0
    BY <1>3, <2>1
  <2>2. CASE k # 0
    <3>1. k \in 1 .. N /\ k - 1 \in 0 .. N
      BY <2>2
    <3> QED
      BY <1>4, <1>6, <2>2, <3>1
  <2> QED
    BY <2>1, <2>2
<1>8. f = [k \in 0 .. N |-> IF k = 0 THEN x ELSE step[k][f[k - 1]]]
  BY <1>7
<1> QED
  BY <1>6, <1>8 DEF Keeps

-----------------------------------------------------------------------------
(* The facts do last *)

Facts == {P \in SUBSET States : Lasting(P)}

LEMMA FactsLast == \A P \in Facts : Lasting(P)
  BY DEF Facts

LEMMA SimpleFacts ==
  /\ States \in Facts /\ {} \in Facts
  /\ \A key : Works(key) \in Facts
  /\ \A keys : AllWork(keys) \in Facts /\ OneFails(keys) \in Facts
  /\ \A objective : Scored(objective) \in Facts
  /\ \A mission \in Missions : Told(mission) \in Facts
  /\ \A plan : Flies(plan) \in Facts
<1>1. States \in Facts /\ {} \in Facts
  BY DEF Facts, Lasting
<1>2. ASSUME NEW key PROVE Works(key) \in Facts
  <2>1. \A s \in Works(key), t \in States : Later(s, t) => t \in Works(key)
    BY DEF Works, Later
  <2>2. Works(key) \subseteq States
    BY DEF Works
  <2> QED
    BY <2>1, <2>2 DEF Facts, Lasting
<1>3. ASSUME NEW s \in States, NEW t \in States, Later(s, t), NEW key
      PROVE  s \in Works(key) <=> t \in Works(key)
  BY <1>3 DEF Works, Later
<1>4. ASSUME NEW keys PROVE AllWork(keys) \in Facts /\ OneFails(keys) \in Facts
  <2>1. AllWork(keys) \subseteq States /\ OneFails(keys) \subseteq States
    BY DEF AllWork, OneFails
  <2>2. \A s \in AllWork(keys), t \in States : Later(s, t) => t \in AllWork(keys)
    BY <1>3 DEF AllWork
  <2>3. \A s \in OneFails(keys), t \in States : Later(s, t) => t \in OneFails(keys)
    BY <1>3 DEF OneFails
  <2> QED
    BY <2>1, <2>2, <2>3 DEF Facts, Lasting
<1>5. ASSUME NEW objective PROVE Scored(objective) \in Facts
  <2>1. \A s \in Scored(objective), t \in States : Later(s, t) => t \in Scored(objective)
    BY DEF Scored, Later
  <2>2. Scored(objective) \subseteq States
    BY DEF Scored
  <2> QED
    BY <2>1, <2>2 DEF Facts, Lasting
<1>6. ASSUME NEW mission \in Missions PROVE Told(mission) \in Facts
  <2>1. \A s \in Told(mission), t \in States : Later(s, t) => t \in Told(mission)
    BY DEF Told, Later
  <2>2. Told(mission) \subseteq States
    BY DEF Told
  <2> QED
    BY <2>1, <2>2 DEF Facts, Lasting
<1>7. ASSUME NEW plan PROVE Flies(plan) \in Facts
  <2>1. \A s \in Flies(plan), t \in States : Later(s, t) => t \in Flies(plan)
    BY DEF Flies, Later
  <2>2. Flies(plan) \subseteq States
    BY DEF Flies
  <2> QED
    BY <2>1, <2>2 DEF Facts, Lasting
<1> QED
  BY <1>1, <1>2, <1>4, <1>5, <1>6, <1>7

\* Facts may be joined.
LEMMA Joined ==
  ASSUME NEW I, NEW P, \A i \in I : P[i] \in Facts
  PROVE  {s \in States : \A i \in I : s \in P[i]} \in Facts
<1> DEFINE J == {s \in States : \A i \in I : s \in P[i]}
<1>1. \A s \in J, t \in States : Later(s, t) => t \in J
  BY DEF Facts, Lasting
<1> QED
  BY <1>1 DEF Facts, Lasting

LEMMA FlightFacts ==
  /\ \A mission \in Missions : MissionFacts(mission) \in Facts
  /\ LandingFacts \in Facts
  /\ EndFacts \in Facts
<1>1. ASSUME NEW mission \in Missions PROVE MissionFacts(mission) \in Facts
  <2>1. Told(mission) \in Facts
    BY SimpleFacts
  <2>2. \A s \in MissionFacts(mission), t \in States : Later(s, t) => t \in MissionFacts(mission)
    BY <2>1 DEF MissionFacts, Facts, Lasting
  <2>3. MissionFacts(mission) \subseteq States
    BY DEF MissionFacts
  <2> QED
    BY <2>2, <2>3 DEF Facts, Lasting
<1>2. LandingFacts \in Facts
  <2> DEFINE A == Scored("landing.moving")
             B == Scored("landing.static")
             C == OneFails(MovingSteps)
             D == OneFails(StaticSteps)
  <2>1. A \in Facts /\ B \in Facts /\ C \in Facts /\ D \in Facts
    BY SimpleFacts
  <2>2. LandingFacts = {s \in States : s \in A \/ (s \in C /\ s \in B) \/ (s \in C /\ s \in D)}
    BY DEF LandingFacts
  <2> HIDE DEF A, B, C, D
  <2>3. \A s \in LandingFacts, t \in States : Later(s, t) => t \in LandingFacts
    BY <2>1, <2>2 DEF Facts, Lasting
  <2>4. LandingFacts \subseteq States
    BY <2>2
  <2> QED
    BY <2>3, <2>4 DEF Facts, Lasting
<1>3. EndFacts \in Facts
  <2> DEFINE A == Flies("flight_a")
             B == Flies("flight_b")
             M(m) == MissionFacts(m)
  <2>1. A \in Facts /\ B \in Facts
    BY SimpleFacts
  <2>2. M("mission1") \in Facts /\ M("mission2") \in Facts /\ M("mission3") \in Facts
        /\ M("mission4") \in Facts
    BY <1>1 DEF Missions
  <2>3. EndFacts = {s \in States :
          \/ s \in A /\ s \in LandingFacts /\ s \in M("mission1") /\ s \in M("mission2")
             /\ s \in M("mission3")
          \/ s \in B /\ s \in M("mission4")}
    BY DEF EndFacts
  <2> HIDE DEF A, B, M
  <2>4. \A s \in EndFacts, t \in States : Later(s, t) => t \in EndFacts
    BY <1>2, <2>1, <2>2, <2>3 DEF Facts, Lasting
  <2>5. EndFacts \subseteq States
    BY <2>3
  <2> QED
    BY <2>4, <2>5 DEF Facts, Lasting
<1> QED
  BY <1>1, <1>2, <1>3

\* Kinds of facts of which FactsOf makes its sequences.
Kinds(C) ==
  /\ States \in C /\ {} \in C
  /\ \A key : Works(key) \in C
  /\ \A keys : OneFails(keys) \in C
  /\ \A objective : Scored(objective) \in C
  /\ \A mission \in Missions : MissionFacts(mission) \in C
  /\ LandingFacts \in C

LEMMA FactsOfAre ==
  ASSUME NEW C, Kinds(C)
  PROVE  \A name : FactsOf(name) \in Seq(C)
<1>1. \A o, d, t : GateFacts(o, d, t) \in Seq(C)
  BY DEF GateFacts, Kinds
<1>2. \A o, f, t, d, c : ApproachFacts(o, f, t, d, c) \in Seq(C)
  BY DEF ApproachFacts, Kinds
<1>3. \A k : <<OneFails(k), States, {}>> \in Seq(C) /\ <<OneFails(k), States>> \in Seq(C)
  BY DEF Kinds
<1>4. \A j, k : <<OneFails(j), OneFails(k), {}>> \in Seq(C)
  BY DEF Kinds
<1>5. <<Works("ApproachRoom"), States, Works("Illuminate"), Works("SweepAndCount"),
        States, States, Works("PublishCount")>> \in Seq(C)
  BY DEF Kinds
<1>6. <<Works("ApproachBoxArea"), Works("ScanBoxes"), Works("SelectHotBox"), Works("HoverOverBox"),
        Works("BlinkHotspotLed"), Scored("m3.hotbox_detected"), Works("DropCone"), States>>
        \in Seq(C)
  BY DEF Kinds
<1>7. <<Works("ApproachRingSupport"), Works("VisualServoToRing"), Works("GrabRing"),
        Works("VerifyGrab"), States, Works("ApproachBlade"), Works("TouchCopperDisc"), States,
        Works("RetreatFromBlade")>> \in Seq(C)
  BY DEF Kinds
<1>8. <<States, MissionFacts("mission1"), MissionFacts("mission2"), MissionFacts("mission3"),
        LandingFacts, {}>> \in Seq(C)
      /\ <<States, MissionFacts("mission4"), States, {}>> \in Seq(C)
  BY DEF Missions, Kinds
<1>9. << >> \in Seq(C) /\ <<States, {}>> \in Seq(C)
  BY DEF Kinds
<1> QED
  BY <1>1, <1>2, <1>3, <1>4, <1>5, <1>6, <1>7, <1>8, <1>9 DEF FactsOf

LEMMA FactsOfLast == \A name : FactsOf(name) \in Seq(Facts)
<1>1. Kinds(Facts)
  BY SimpleFacts, FlightFacts DEF Kinds
<1> QED
  BY <1>1, FactsOfAre

LEMMA PastLasts == \A id : \A j \in 1..Len(Past(id)) : Past(id)[j] \in Facts
<1> TAKE id
<1>1. Past(id) \in Seq(Facts)
  BY FactsOfLast DEF Past
<1> QED
  BY <1>1

LEMMA ReasonLasts == \A objective : Reason(objective) \in Facts
  BY SimpleFacts DEF Reason

-----------------------------------------------------------------------------
(* Steps of a tree *)

\* Only nodes of X are told apart by what they remember in s and in t.
Outside(X, s, t) == {m \in s.mem : m.id \notin X} = {m \in t.mem : m.id \notin X}

\* What the nodes of X may do in a tick: a flight ends only with the facts E.
Moves(X, E, s, t) ==
  /\ t \in Good
  /\ Later(s, t)
  /\ Outside(X, s, t)
  /\ ~t.board.running => ~s.board.running \/ t \in E

LEMMA GoodIsState == \A s \in Good : s \in States
  BY DEF Good

LEMMA StateParts ==
  ASSUME NEW s \in States
  PROVE  /\ s.mem \subseteq [id : Ids, number : Nat]
         /\ s.board \in Boards
         /\ s.config \in Configs
         /\ s = [mem |-> s.mem, board |-> s.board, config |-> s.config]
  BY DEF States

LEMMA LaterRefl == \A s \in States : Later(s, s)
  BY DEF Later

LEMMA LaterTrans ==
  ASSUME NEW s, NEW t, NEW u, Later(s, t), Later(t, u)
  PROVE  Later(s, u)
  BY DEF Later

\* Facts hold on along a step.
LEMMA FactsStay ==
  ASSUME NEW P, Lasting(P), NEW X, NEW E, NEW s \in P, NEW t, Moves(X, E, s, t)
  PROVE  t \in P
<1>1. t \in States
  BY GoodIsState DEF Moves
<1> QED
  BY <1>1 DEF Moves, Lasting

LEMMA StandsStill ==
  ASSUME NEW X, NEW E, NEW s \in Good
  PROVE  Moves(X, E, s, s)
<1>1. s \in States
  BY GoodIsState
<1>2. Later(s, s)
  BY <1>1, LaterRefl
<1> QED
  BY <1>1, <1>2 DEF Moves, Outside

\* A step of some nodes is a step of more nodes.
LEMMA MovesMore ==
  ASSUME NEW X, NEW Y, X \subseteq Y, NEW E, NEW D, E \subseteq D, NEW s, NEW t, Moves(X, E, s, t)
  PROVE  Moves(Y, D, s, t)
<1>1. Outside(X, s, t)
  BY DEF Moves
<1>2. Outside(Y, s, t)
  <2>1. \A m : (m \in s.mem /\ m.id \notin X) <=> (m \in t.mem /\ m.id \notin X)
    BY <1>1 DEF Outside
  <2>2. \A m : (m \in s.mem /\ m.id \notin Y) <=> (m \in t.mem /\ m.id \notin Y)
    BY <2>1
  <2> QED
    BY <2>2 DEF Outside
<1> QED
  BY <1>2 DEF Moves

LEMMA MovesChain ==
  ASSUME NEW X, NEW E, Lasting(E), NEW s, NEW t, NEW u, Moves(X, E, s, t), Moves(X, E, t, u)
  PROVE  Moves(X, E, s, u)
<1>1. Later(s, u)
  BY LaterTrans DEF Moves
<1>2. Outside(X, s, u)
  BY DEF Moves, Outside
<1>3. ASSUME t \in E PROVE u \in E
  BY <1>3, FactsStay
<1> QED
  BY <1>1, <1>2, <1>3 DEF Moves

\* A state stays good when what is new in it is sound.
LEMMA StaysGood ==
  ASSUME NEW s \in Good, NEW t \in States, Later(s, t),
         \A m, n \in t.mem : m.id = n.id => m = n,
         \A m \in t.mem : m \in s.mem \/ Sound(m.id, m.number, t),
         \A o \in t.board.objectives :
           o \in s.board.objectives \/ (o \in Objectives /\ t \in Reason(o)),
         \A m \in Missions : t.board.mission_outcomes[m] = "success" =>
           s.board.mission_outcomes[m] = "success" \/ t \in AllWork(Needed[m])
  PROVE  t \in Good
<1>1. s \in States
  BY GoodIsState
<1>2. \A P \in Facts : s \in P => t \in P
  BY DEF Facts, Lasting
<1>3. ASSUME NEW m \in t.mem PROVE Sound(m.id, m.number, t)
  <2>1. CASE m \in s.mem
    <3>1. Sound(m.id, m.number, s)
      BY <2>1 DEF Good
    <3> QED
      BY <1>2, <3>1, PastLasts DEF Sound
  <2> QED
    BY <2>1
<1>4. ASSUME NEW o \in t.board.objectives PROVE o \in Objectives /\ t \in Reason(o)
  <2>1. CASE o \in s.board.objectives
    <3>1. o \in Objectives /\ s \in Reason(o)
      BY <2>1 DEF Good
    <3> QED
      BY <1>2, <3>1, ReasonLasts
  <2> QED
    BY <2>1
<1>5. ASSUME NEW m \in Missions, t.board.mission_outcomes[m] = "success"
      PROVE  t \in AllWork(Needed[m])
  <2>1. CASE s.board.mission_outcomes[m] = "success"
    <3>1. s \in AllWork(Needed[m])
      BY <2>1 DEF Good
    <3> QED
      BY <1>2, <3>1, SimpleFacts
  <2> QED
    BY <1>5, <2>1
<1> QED
  BY <1>3, <1>4, <1>5 DEF Good

-----------------------------------------------------------------------------
(* What the nodes are made of keeps the state good *)

\* Forgetting what some nodes of X remember, and nothing else.
Forgets(X, s, t) ==
  /\ t = [mem |-> t.mem, board |-> s.board, config |-> s.config]
  /\ t.mem \subseteq s.mem
  /\ \A m \in s.mem : m.id \in X \/ m \in t.mem

LEMMA Forgetting ==
  ASSUME NEW X, NEW E, NEW s \in Good, NEW t, Forgets(X, s, t)
  PROVE  /\ Moves(X, E, s, t)
         /\ t.board = s.board /\ t.config = s.config
         /\ Later(t, s)
<1>1. s \in States
  BY GoodIsState
<1>2. t.mem \subseteq s.mem /\ t.board = s.board /\ t.config = s.config
      /\ t = [mem |-> t.mem, board |-> s.board, config |-> s.config]
  BY DEF Forgets
<1>3. t \in States
  BY <1>1, <1>2, StateParts DEF States
<1>4. Later(s, t) /\ Later(t, s)
  BY <1>1, <1>2 DEF Later
<1>5. t \in Good
  <2>1. \A m, n \in t.mem : m.id = n.id => m = n
    BY <1>2 DEF Good
  <2> QED
    BY <1>2, <1>3, <1>4, <2>1, StaysGood
<1>6. Outside(X, s, t)
  BY DEF Outside, Forgets
<1> QED
  BY <1>2, <1>4, <1>5, <1>6 DEF Moves

LEMMA ForgetMoves ==
  ASSUME NEW X, NEW E, NEW s \in Good
  PROVE  /\ Moves(X, E, s, Forget(X, s))
         /\ Forget(X, s).board = s.board /\ Forget(X, s).config = s.config
         /\ Forget(X, s).mem = {m \in s.mem : m.id \notin X}
         /\ Later(Forget(X, s), s)
<1> DEFINE t == Forget(X, s)
<1>1. t.mem = {m \in s.mem : m.id \notin X}
      /\ t = [mem |-> t.mem, board |-> s.board, config |-> s.config]
  <2>1. s \in States
    BY GoodIsState
  <2>2. s = [mem |-> s.mem, board |-> s.board, config |-> s.config]
    BY <2>1, StateParts
  <2> QED
    BY <2>2 DEF Forget
<1>2. Forgets(X, s, t)
  <2> HIDE DEF t
  <2> QED
    BY <1>1 DEF Forgets
<1> HIDE DEF t
<1>3. Moves(X, E, s, t) /\ t.board = s.board /\ t.config = s.config /\ Later(t, s)
  BY <1>2, Forgetting
<1> QED
  BY <1>1, <1>3 DEF t

\* The children from the i-th on are in X.
Within(kids, i, X) == \A j \in i..Len(kids) : kids[j].below \subseteq X

LEMMA ForgetFromMoves ==
  ASSUME NEW X, NEW E, NEW s \in Good, NEW kids, NEW i \in Nat, Within(kids, i, X)
  PROVE  /\ Moves(X, E, s, ForgetFrom(kids, i, s))
         /\ ForgetFrom(kids, i, s).board = s.board
<1> DEFINE t == ForgetFrom(kids, i, s)
<1>1. t.mem = {m \in s.mem : \A j \in i..Len(kids) : m.id \notin kids[j].below}
      /\ t = [mem |-> t.mem, board |-> s.board, config |-> s.config]
  <2>1. s \in States
    BY GoodIsState
  <2>2. s = [mem |-> s.mem, board |-> s.board, config |-> s.config]
    BY <2>1, StateParts
  <2> DEFINE Y == {m \in s.mem : \A j \in i..Len(kids) : m.id \notin kids[j].below}
  <2>3. t = [s EXCEPT !.mem = Y]
    BY DEF ForgetFrom
  <2> HIDE DEF Y, t
  <2>4. t.mem = Y /\ t = [mem |-> Y, board |-> s.board, config |-> s.config]
    BY <2>2, <2>3
  <2> QED
    BY <2>4 DEF Y
<1>2. Forgets(X, s, t)
  <2> HIDE DEF t
  <2> QED
    BY <1>1 DEF Forgets, Within
<1> HIDE DEF t
<1>3. Moves(X, E, s, t) /\ t.board = s.board /\ t.config = s.config /\ Later(t, s)
  BY <1>2, Forgetting
<1> QED
  BY <1>1, <1>3 DEF t

\* A result that is as good as the state, as far as the blackboard goes.
Leaves(X, E, s, r) ==
  /\ Moves(X, E, s, r.s)
  /\ r.s.board = s.board /\ r.s.config = s.config
  /\ Later(r.s, s)

LEMMA DoneMoves ==
  ASSUME NEW X, NEW E, NEW s \in Good, NEW id \in X, NEW status
  PROVE  /\ Done(id, status, s).status = status
         /\ Leaves(X, E, s, Done(id, status, s))
<1>1. Done(id, status, s).status = status /\ Done(id, status, s).s = Forget({id}, s)
  BY DEF Done
<1>2. Moves({id}, E, s, Forget({id}, s))
  BY ForgetMoves
<1>3. Moves(X, E, s, Forget({id}, s))
  BY <1>2, MovesMore
<1>4. Forget({id}, s).board = s.board /\ Forget({id}, s).config = s.config
      /\ Later(Forget({id}, s), s)
  BY ForgetMoves
<1> QED
  BY <1>1, <1>3, <1>4 DEF Leaves

LEMMA DoneForgets ==
  ASSUME NEW s \in Good, NEW id, NEW status
  PROVE  Done(id, status, s).s.mem = {m \in s.mem : m.id # id}
<1>1. Done(id, status, s).s = Forget({id}, s)
  BY DEF Done
<1>2. Forget({id}, s).mem = {m \in s.mem : m.id \notin {id}}
  BY ForgetMoves
<1> QED
  BY <1>1, <1>2

LEMMA GoesMoves ==
  ASSUME NEW X, NEW E, NEW s \in Good, NEW id \in X, id \in Ids, NEW number \in Nat,
         Sound(id, number, s)
  PROVE  /\ Goes(id, number, s).status = "RUNNING"
         /\ Leaves(X, E, s, Goes(id, number, s))
<1> DEFINE new == [id |-> id, number |-> number]
           Y == {m \in s.mem : m.id # id} \cup {new}
           t == Goes(id, number, s).s
<1>1. s \in States
  BY GoodIsState
<1>2. t = [s EXCEPT !.mem = Y] /\ Goes(id, number, s).status = "RUNNING"
  BY <1>1 DEF Goes, States
<1>3. new \in [id : Ids, number : Nat] /\ new.id = id /\ new.number = number
  OBVIOUS
<1>4. Y \subseteq [id : Ids, number : Nat]
  <2>1. s.mem \subseteq [id : Ids, number : Nat]
    BY <1>1, StateParts
  <2> QED
    BY <1>3, <2>1
<1> HIDE DEF new
<1>5. \A m \in Y : m = new \/ (m \in s.mem /\ m.id # id)
  BY Zenon
<1>6. {m \in Y : m.id \notin X} = {m \in s.mem : m.id \notin X}
  BY <1>3
<1> HIDE DEF Y, t
<1>7. t.mem = Y /\ t.board = s.board /\ t.config = s.config
      /\ t = [mem |-> Y, board |-> s.board, config |-> s.config]
  BY <1>1, <1>2, StateParts DEF States
<1>8. t \in States
  BY <1>1, <1>4, <1>7, StateParts DEF States
<1>9. Later(s, t) /\ Later(t, s)
  BY <1>1, <1>7 DEF Later
<1>10. \A m, n \in t.mem : m.id = n.id => m = n
  BY <1>3, <1>5, <1>7 DEF Good
<1>11. Sound(id, number, t)
  BY <1>8, <1>9, PastLasts DEF Sound, Facts, Lasting
<1>12. \A m \in t.mem : m \in s.mem \/ Sound(m.id, m.number, t)
  BY <1>3, <1>5, <1>7, <1>11
<1>13. t \in Good
  BY <1>7, <1>8, <1>9, <1>10, <1>12, StaysGood
<1>14. Outside(X, s, t)
  BY <1>6, <1>7 DEF Outside
<1>15. Moves(X, E, s, t)
  BY <1>7, <1>9, <1>13, <1>14 DEF Moves
<1> QED
  BY <1>2, <1>7, <1>9, <1>15 DEF Y, t, new, Leaves

LEMMA GoesRemembers ==
  ASSUME NEW s \in Good, NEW id, NEW number
  PROVE  Goes(id, number, s).s.mem =
           {m \in s.mem : m.id # id} \cup {[id |-> id, number |-> number]}
  BY GoodIsState DEF Goes, States

\* The number of a node.
LEMMA NumberIs ==
  ASSUME NEW s \in Good, NEW id
  PROVE  /\ Number(id, s) \in Nat
         /\ Running(id, s) => Sound(id, Number(id, s), s)
         /\ \A m \in s.mem : m.id = id => Running(id, s) /\ Number(id, s) = m.number
<1>1. s \in States
  BY GoodIsState
<1>2. CASE Running(id, s)
  <2>1. PICK m \in s.mem : m.id = id
    BY <1>2 DEF Running
  <2>2. \A n \in s.mem : n.id = id => n = m
    BY <2>1 DEF Good
  <2>3. (CHOOSE n \in s.mem : n.id = id) = m
    BY <2>1, <2>2
  <2>4. Number(id, s) = m.number
    BY <1>2, <2>3 DEF Number
  <2>5. m.number \in Nat
    BY <1>1, StateParts
  <2> QED
    BY <1>2, <2>1, <2>2, <2>4, <2>5 DEF Good
<1>3. CASE ~Running(id, s)
  BY <1>3 DEF Number, Running
<1> QED
  BY <1>2, <1>3

-----------------------------------------------------------------------------
(* What a node promises *)

\* Ticked in a good state where P holds, a node keeps to itself and its children and leaves a
\* good state, where S holds when it succeeds and F when it fails; it ends a flight only with E.
Fulfils(n, S, F, E, s, r) ==
  /\ r.status \in Statuses
  /\ Moves(n.below, E, s, r.s)
  /\ r.status = "SUCCESS" => r.s \in S
  /\ r.status = "FAILURE" => r.s \in F

\* It does so if the nodes have names, of which none is in Z.
Contract(n, Z, P, S, F, E) ==
  /\ n.id \in n.below
  /\ \A id \in Z : id \notin n.below
  /\ n.below \subseteq Ids => \A s \in Good : s \in P => Fulfils(n, S, F, E, s, n.tick[s])

\* A node that promises more promises less.
LEMMA Weaker ==
  ASSUME NEW n, NEW Z, NEW P, NEW S, NEW F, NEW E, Contract(n, Z, P, S, F, E),
         NEW A, A \subseteq Z, NEW Q, Q \subseteq P, NEW T, S \subseteq T, NEW G, F \subseteq G
  PROVE  Contract(n, A, Q, T, G, E)
<1>1. ASSUME NEW s \in Good, s \in Q, n.below \subseteq Ids
      PROVE  Fulfils(n, T, G, E, s, n.tick[s])
  <2>1. Fulfils(n, S, F, E, s, n.tick[s])
    BY <1>1 DEF Contract
  <2> QED
    BY <2>1 DEF Fulfils
<1> QED
  BY <1>1 DEF Contract

\* Nodes whose number says nothing.
Plain(id) == \A s \in States : \A k \in Nat : Sound(id, k, s)

LEMMA LongIdsArePlain == \A id : Len(id) # 1 => Plain(id)
<1> SUFFICES ASSUME NEW id, Len(id) # 1, NEW s \in States, NEW k \in Nat PROVE Sound(id, k, s)
  BY DEF Plain
<1>1. Past(id) = << >>
  BY DEF Past
<1> QED
  BY <1>1 DEF Sound

LEMMA StubTicks ==
  ASSUME NEW id \in Ids, Plain(id), NEW E, NEW s \in Good,
         NEW does, does.outcome \in Outcomes, does.ticks \in Nat \ {0}
  PROVE  LET r == TickStub(id, does, s) IN
           /\ r.status \in Statuses
           /\ Leaves({id}, E, s, r)
           /\ r.status = "SUCCESS" => does.outcome = "success"
           /\ r.status = "FAILURE" => does.outcome = "failure"
<1> DEFINE r == TickStub(id, does, s)
           elapsed == Number(id, s) + 1
<1>1. elapsed \in Nat /\ does.ticks \in Nat /\ does.outcome \in Outcomes
  BY NumberIs
<1>2. id \in {id} /\ Sound(id, 0, s) /\ Sound(id, elapsed, s)
  BY <1>1, GoodIsState DEF Plain
<1>3. CASE does.outcome = "running"
  <2>1. r = Goes(id, 0, s)
    BY <1>3 DEF TickStub
  <2> DEFINE g == Goes(id, 0, s)
  <2>2. g.status = "RUNNING" /\ Leaves({id}, E, s, g)
    BY <1>2, GoesMoves
  <2> HIDE DEF g
  <2> QED
    BY <2>1, <2>2 DEF Statuses, g
<1>4. CASE does.outcome # "running" /\ elapsed < does.ticks
  <2>1. r = Goes(id, elapsed, s)
    <3>1. ~(elapsed >= does.ticks)
      BY <1>1, <1>4
    <3> QED
      BY <1>4, <3>1 DEF TickStub
  <2> HIDE DEF elapsed
  <2> DEFINE g == Goes(id, elapsed, s)
  <2>2. g.status = "RUNNING" /\ Leaves({id}, E, s, g)
    BY <1>1, <1>2, GoesMoves
  <2> HIDE DEF g
  <2> QED
    BY <2>1, <2>2 DEF Statuses, g
<1>5. CASE does.outcome # "running" /\ ~(elapsed < does.ticks)
  <2> DEFINE status == IF does.outcome = "success" THEN "SUCCESS" ELSE "FAILURE"
  <2>1. elapsed >= does.ticks
    BY <1>1, <1>5
  <2>2. r = Done(id, status, s)
    BY <1>5, <2>1 DEF TickStub
  <2>3. status \in {"SUCCESS", "FAILURE"}
        /\ (status = "SUCCESS" => does.outcome = "success")
        /\ (status = "FAILURE" => does.outcome = "failure")
    BY <1>1, <1>5 DEF Outcomes
  <2> HIDE DEF elapsed, status
  <2> DEFINE d == Done(id, status, s)
  <2>4. d.status = status /\ Leaves({id}, E, s, d)
    <3>1. id \in {id}
      OBVIOUS
    <3> QED
      BY <3>1, DoneMoves, Zenon
  <2> HIDE DEF d
  <2> QED
    BY <2>2, <2>3, <2>4 DEF Statuses, d
<1> QED
  BY <1>3, <1>4, <1>5

LEMMA StubContract ==
  ASSUME NEW Z, NEW id, id \notin Z, Plain(id), NEW outcome \in {"success", "running"},
         NEW ticks \in Nat \ {0}, NEW E
  PROVE  Contract(Stub(id, outcome, ticks), Z, States, States, {}, E)
<1> DEFINE n == Stub(id, outcome, ticks)
           does == [outcome |-> outcome, ticks |-> ticks]
<1>1. n.id = id /\ n.below = {id} /\ n.tick = [s \in States |-> TickStub(id, does, s)]
  BY DEF Stub, Leaf
<1>2. does.outcome \in Outcomes /\ does.ticks \in Nat \ {0} /\ does.outcome # "failure"
  BY DEF Outcomes
<1> HIDE DEF n, does
<1>3. ASSUME NEW s \in Good PROVE id \in Ids => Fulfils(n, States, {}, E, s, n.tick[s])
  <2> HAVE id \in Ids
  <2>1. n.tick[s] = TickStub(id, does, s)
    BY <1>1, GoodIsState
  <2> DEFINE r == TickStub(id, does, s)
  <2>2. r.status \in Statuses /\ Moves({id}, E, s, r.s) /\ r.status # "FAILURE"
    BY <1>2, StubTicks DEF Leaves
  <2>3. r.s \in States
    BY <2>2, GoodIsState DEF Moves
  <2> QED
    BY <1>1, <2>1, <2>2, <2>3 DEF Fulfils
<1>4. n.id \in n.below /\ (\A z \in Z : z \notin n.below) /\ (n.below \subseteq Ids => id \in Ids)
  BY <1>1
<1> QED
  BY <1>3, <1>4 DEF Contract, n

LEMMA StepContract ==
  ASSUME NEW Z, NEW id, id \notin Z, Plain(id), NEW key, NEW E
  PROVE  Contract(Step(id, key), Z, States, Works(key), OneFails({key}), E)
<1> DEFINE n == Step(id, key)
<1>1. n.id = id /\ n.below = {id}
      /\ n.tick = [s \in States |-> TickStub(id, Configured(key, s.config), s)]
  BY DEF Step, Leaf
<1> HIDE DEF n
<1>2. ASSUME NEW s \in Good PROVE id \in Ids => Fulfils(n, Works(key), OneFails({key}), E, s,
      n.tick[s])
  <2> HAVE id \in Ids
  <2> DEFINE does == Configured(key, s.config)
             r == TickStub(id, does, s)
  <2>1. n.tick[s] = r
    BY <1>1, GoodIsState
  <2>2. s \in States /\ s.config \in Configs
    BY GoodIsState, StateParts
  <2>3. does.outcome \in Outcomes /\ does.ticks \in Nat \ {0}
    <3>1. CASE key \in DOMAIN s.config
      BY <2>2, <3>1, TreeAssumption DEF Configured
    <3>2. CASE key \notin DOMAIN s.config
      BY <3>2 DEF Configured, Outcomes
    <3> QED
      BY <3>1, <3>2
  <2>4. /\ r.status \in Statuses
        /\ Moves({id}, E, s, r.s)
        /\ r.status = "SUCCESS" => does.outcome = "success"
        /\ r.status = "FAILURE" => does.outcome = "failure"
    <3> HIDE DEF does
    <3> QED
      BY <2>3, StubTicks DEF Leaves
  <2>5. does.outcome = "success" => s \in Works(key)
    BY <2>2 DEF Configured, Works
  <2>6. does.outcome = "failure" => s \in OneFails({key})
    BY <2>2 DEF Configured, Works, OneFails
  <2> HIDE DEF does, r
  <2>7. Lasting(Works(key)) /\ Lasting(OneFails({key}))
    BY SimpleFacts, FactsLast
  <2>8. r.status = "SUCCESS" => r.s \in Works(key)
    BY <2>4, <2>5, <2>7, FactsStay
  <2>9. r.status = "FAILURE" => r.s \in OneFails({key})
    BY <2>4, <2>6, <2>7, FactsStay
  <2> QED
    BY <1>1, <2>1, <2>4, <2>8, <2>9 DEF Fulfils
<1>3. n.id \in n.below /\ (\A z \in Z : z \notin n.below) /\ (n.below \subseteq Ids => id \in Ids)
  BY <1>1
<1> QED
  BY <1>2, <1>3 DEF Contract, n

\* A leaf that answers at once, after a step of the blackboard.
LEMMA LeafContract ==
  ASSUME NEW Z, NEW id, id \notin Z, NEW E, Lasting(E), NEW tick,
         NEW P, NEW S, Lasting(S), NEW F, Lasting(F),
         id \in Ids => \A s \in Good : s \in P => \E t : \E status \in {"SUCCESS", "FAILURE"} :
           /\ tick[s] = Done(id, status, t)
           /\ Moves({id}, E, s, t)
           /\ status = "SUCCESS" => t \in S
           /\ status = "FAILURE" => t \in F
  PROVE  Contract(Leaf(id, tick), Z, P, S, F, E)
<1> DEFINE n == Leaf(id, tick)
<1>1. n.id = id /\ n.below = {id} /\ n.tick = tick
  BY DEF Leaf
<1> HIDE DEF n
<1>2. ASSUME NEW s \in Good, s \in P, id \in Ids PROVE Fulfils(n, S, F, E, s, n.tick[s])
  <2>0. PICK t : \E status \in {"SUCCESS", "FAILURE"} :
          /\ tick[s] = Done(id, status, t)
          /\ Moves({id}, E, s, t)
          /\ status = "SUCCESS" => t \in S
          /\ status = "FAILURE" => t \in F
    BY <1>2
  <2>1. PICK status \in {"SUCCESS", "FAILURE"} :
          /\ tick[s] = Done(id, status, t)
          /\ Moves({id}, E, s, t)
          /\ status = "SUCCESS" => t \in S
          /\ status = "FAILURE" => t \in F
    BY <2>0
  <2> DEFINE r == Done(id, status, t)
  <2>2. t \in Good
    BY <2>1 DEF Moves
  <2>3. r.status = status /\ Leaves({id}, E, t, r)
    <3>1. id \in {id}
      OBVIOUS
    <3> QED
      BY <2>2, <3>1, DoneMoves, Zenon
  <2> HIDE DEF r
  <2>4. Moves({id}, E, t, r.s)
    BY <2>3 DEF Leaves
  <2>5. Moves({id}, E, s, r.s)
    BY <2>1, <2>4, MovesChain
  <2>6. \A Q : Lasting(Q) /\ t \in Q => r.s \in Q
    BY <2>4, FactsStay
  <2>7. n.tick[s] = r
    BY <1>1, <2>1 DEF r
  <2>8. r.status \in Statuses
    BY <2>3 DEF Statuses
  <2>9. (r.status = "SUCCESS" => r.s \in S) /\ (r.status = "FAILURE" => r.s \in F)
    BY <2>1, <2>3, <2>6
  <2> QED
    BY <1>1, <2>5, <2>7, <2>8, <2>9 DEF Fulfils
<1>3. n.id \in n.below /\ (\A z \in Z : z \notin n.below) /\ (n.below \subseteq Ids => id \in Ids)
  BY <1>1
<1> QED
  BY <1>2, <1>3 DEF Contract, n

\* A step of the blackboard alone.
LEMMA Writes ==
  ASSUME NEW s \in Good, NEW t, NEW b \in Boards, t = [mem |-> s.mem, board |-> b,
        config |-> s.config],
         Later(s, t),
         \A o \in b.objectives :
           o \in s.board.objectives \/ (o \in Objectives /\ (t \in States => t \in Reason(o))),
         \A m \in Missions : b.mission_outcomes[m] = "success" =>
           s.board.mission_outcomes[m] = "success" \/ (t \in States => t \in AllWork(Needed[m])),
         NEW X, NEW E, ~b.running => ~s.board.running \/ (t \in States => t \in E)
  PROVE  t \in States /\ Moves(X, E, s, t)
<1>1. s \in States
  BY GoodIsState
<1>2. t.mem = s.mem /\ t.board = b /\ t.config = s.config
  OBVIOUS
<1>3. t \in States
  BY <1>1, StateParts DEF States
<1>4. t \in Good
  <2>1. \A m, n \in t.mem : m.id = n.id => m = n
    BY <1>2 DEF Good
  <2> QED
    BY <1>2, <1>3, <2>1, StaysGood
<1>5. Outside(X, s, t)
  BY <1>2 DEF Outside
<1> QED
  BY <1>2, <1>3, <1>4, <1>5 DEF Moves

LEMMA MarkContract ==
  ASSUME NEW Z, NEW objective \in Objectives, <<"Mark", objective>> \notin Z,
         NEW P, Lasting(P), P \subseteq Reason(objective), NEW E, Lasting(E)
  PROVE  Contract(MarkObjective(objective), Z, P, Scored(objective), {}, E)
<1> DEFINE id == <<"Mark", objective>>
           Mark(s) == [s EXCEPT !.board.objectives = @ \cup {objective}]
           tick == [s \in States |-> Done(id, "SUCCESS", Mark(s))]
<1>1. MarkObjective(objective) = Leaf(id, tick)
  BY DEF MarkObjective
<1>2. ASSUME NEW s \in Good, s \in P
      PROVE  /\ tick[s] = Done(id, "SUCCESS", Mark(s))
             /\ Moves({id}, E, s, Mark(s))
             /\ Mark(s) \in Scored(objective)
  <2> DEFINE t == Mark(s)
             b == [s.board EXCEPT !.objectives = @ \cup {objective}]
  <2>1. s \in States /\ s.board \in Boards
        /\ s = [mem |-> s.mem, board |-> s.board, config |-> s.config]
    BY GoodIsState, StateParts
  <2>2. t = [mem |-> s.mem, board |-> b, config |-> s.config]
    BY <2>1
  <2>4. b \in Boards /\ b.objectives = s.board.objectives \cup {objective}
        /\ b.mission_outcomes = s.board.mission_outcomes /\ b.running = s.board.running
        /\ b.flight_plan = s.board.flight_plan
    BY <2>1 DEF Boards
  <2> HIDE DEF t, b
  <2>5. t.mem = s.mem /\ t.board = b /\ t.config = s.config
    BY <2>2
  <2>6. Later(s, t)
    BY <2>4, <2>5 DEF Later
  <2>7. t \in States => t \in Reason(objective)
    BY <1>2, <2>1, <2>6 DEF Lasting
  <2>8. \A o \in b.objectives :
          o \in s.board.objectives \/ (o \in Objectives /\ (t \in States => t \in Reason(o)))
    BY <2>4, <2>7
  <2>9. t \in States /\ Moves({id}, E, s, t)
    <3> HIDE DEF id
    <3> QED
      BY <2>2, <2>4, <2>6, <2>8, Writes
  <2>10. t \in Scored(objective)
    BY <2>4, <2>5, <2>9 DEF Scored
  <2>11. tick[s] = Done(id, "SUCCESS", Mark(s))
    BY <2>1
  <2> QED
    BY <2>9, <2>10, <2>11 DEF t
<1> HIDE DEF tick, Mark, id
<1>3. \A s \in Good : s \in P => \E t : \E status \in {"SUCCESS", "FAILURE"} :
           /\ tick[s] = Done(id, status, t)
           /\ Moves({id}, E, s, t)
           /\ status = "SUCCESS" => t \in Scored(objective)
           /\ status = "FAILURE" => t \in {}
  <2> SUFFICES ASSUME NEW s \in Good, s \in P
               PROVE  \E t : \E status \in {"SUCCESS", "FAILURE"} :
                 /\ tick[s] = Done(id, status, t)
                 /\ Moves({id}, E, s, t)
                 /\ status = "SUCCESS" => t \in Scored(objective)
                 /\ status = "FAILURE" => t \in {}
    OBVIOUS
  <2>1. tick[s] = Done(id, "SUCCESS", Mark(s)) /\ Moves({id}, E, s, Mark(s))
        /\ Mark(s) \in Scored(objective)
    BY <1>2
  <2>2. "SUCCESS" \in {"SUCCESS", "FAILURE"} /\ "SUCCESS" # "FAILURE"
    OBVIOUS
  <2> QED
    BY <2>1, <2>2, Zenon
<1>4. Lasting(Scored(objective)) /\ Lasting({})
  BY SimpleFacts, FactsLast
<1>5. id \notin Z
  BY DEF id
<1>6. Contract(Leaf(id, tick), Z, P, Scored(objective), {}, E)
  BY <1>3, <1>4, <1>5, LeafContract
<1> QED
  BY <1>1, <1>6

\* A step of the blackboard that touches neither the score sheet nor the outcomes.
LEMMA WritesElsewhere ==
  ASSUME NEW s \in Good, NEW t, NEW b \in Boards, t = [mem |-> s.mem, board |-> b,
        config |-> s.config],
         b.objectives = s.board.objectives, b.mission_outcomes = s.board.mission_outcomes,
         b.flight_plan = s.board.flight_plan, b.running => s.board.running,
         NEW X, NEW E, ~b.running => ~s.board.running \/ (t \in States => t \in E)
  PROVE  t \in States /\ Moves(X, E, s, t)
<1>1. Later(s, t)
  BY DEF Later
<1> QED
  BY <1>1, Writes

\* A flight that is over.
Over == {s \in States : ~s.board.running}

LEMMA OverLasts == Lasting(Over)
  BY DEF Lasting, Over, Later

LEMMA StopRunningContract ==
  ASSUME NEW Z, <<"StopRunning">> \notin Z, NEW E, Lasting(E)
  PROVE  Contract(StopRunning, Z, E, Over, {}, E)
<1> DEFINE id == <<"StopRunning">>
           Stopped(s) == [s EXCEPT !.board.running = FALSE]
           tick == [s \in States |-> Done(id, "SUCCESS", Stopped(s))]
<1>1. StopRunning = Leaf(id, tick)
  BY DEF StopRunning
<1>2. ASSUME NEW s \in Good, s \in E
      PROVE  tick[s] = Done(id, "SUCCESS", Stopped(s)) /\ Moves({id}, E, s, Stopped(s))
             /\ Stopped(s) \in Over
  <2> DEFINE t == Stopped(s)
             b == [s.board EXCEPT !.running = FALSE]
  <2>1. s \in States /\ s.board \in Boards
        /\ s = [mem |-> s.mem, board |-> s.board, config |-> s.config]
    BY GoodIsState, StateParts
  <2>2. t = [mem |-> s.mem, board |-> b, config |-> s.config]
    <3>1. t = [s EXCEPT !.board = b]
      BY Zenon
    <3> HIDE DEF b, t
    <3> QED
      BY <2>1, <3>1
  <2>3. b \in Boards /\ b.objectives = s.board.objectives
        /\ b.mission_outcomes = s.board.mission_outcomes /\ b.running = FALSE
        /\ b.flight_plan = s.board.flight_plan
    BY <2>1 DEF Boards
  <2> HIDE DEF t, b
  <2>4. Later(s, t)
    BY <2>2, <2>3 DEF Later
  <2>5. t \in States => t \in E
    BY <1>2, <2>4 DEF Lasting
  <2>6. t \in States /\ Moves({id}, E, s, t)
    <3> HIDE DEF id
    <3> QED
      BY <2>2, <2>3, <2>5, WritesElsewhere
  <2>7. tick[s] = Done(id, "SUCCESS", Stopped(s))
    BY <2>1
  <2>8. t \in Over
    BY <2>2, <2>3, <2>6 DEF Over
  <2> QED
    BY <2>6, <2>7, <2>8 DEF t
<1> HIDE DEF tick, Stopped, id
<1>3. \A s \in Good : s \in E => \E t : \E status \in {"SUCCESS", "FAILURE"} :
           /\ tick[s] = Done(id, status, t)
           /\ Moves({id}, E, s, t)
           /\ status = "SUCCESS" => t \in Over
           /\ status = "FAILURE" => t \in {}
  <2> SUFFICES ASSUME NEW s \in Good, s \in E
               PROVE  \E t : \E status \in {"SUCCESS", "FAILURE"} :
                 /\ tick[s] = Done(id, status, t)
                 /\ Moves({id}, E, s, t)
                 /\ status = "SUCCESS" => t \in Over
                 /\ status = "FAILURE" => t \in {}
    OBVIOUS
  <2>1. tick[s] = Done(id, "SUCCESS", Stopped(s)) /\ Moves({id}, E, s, Stopped(s))
        /\ Stopped(s) \in Over
    BY <1>2
  <2>2. "SUCCESS" \in {"SUCCESS", "FAILURE"} /\ "SUCCESS" # "FAILURE"
    OBVIOUS
  <2> QED
    BY <2>1, <2>2, Zenon
<1>4. Lasting(Over) /\ Lasting({})
  BY SimpleFacts, FactsLast, OverLasts
<1>5. id \notin Z
  BY DEF id
<1>6. Contract(Leaf(id, tick), Z, E, Over, {}, E)
  BY <1>3, <1>4, <1>5, LeafContract
<1> QED
  BY <1>1, <1>6

LEMMA FlightPlanIsContract ==
  ASSUME NEW Z, NEW plan, <<"Plan is", plan>> \notin Z, NEW E, Lasting(E)
  PROVE  Contract(FlightPlanIs(plan), Z, States, Flies(plan), States, E)
<1> DEFINE id == <<"Plan is", plan>>
           Is(s) == s.board.running /\ s.board.flight_plan = plan
           tick == [s \in States |-> Done(id, IF Is(s) THEN "SUCCESS" ELSE "FAILURE", s)]
<1>1. FlightPlanIs(plan) = Leaf(id, tick)
  BY DEF FlightPlanIs
<1>2. ASSUME NEW s \in Good
      PROVE  tick[s] = Done(id, IF Is(s) THEN "SUCCESS" ELSE "FAILURE", s) /\ Moves({id}, E, s, s)
             /\ s \in States /\ (Is(s) => s \in Flies(plan))
  <2>1. s \in States
    BY GoodIsState
  <2>2. Moves({id}, E, s, s)
    BY StandsStill
  <2>3. tick[s] = Done(id, IF Is(s) THEN "SUCCESS" ELSE "FAILURE", s)
    BY <2>1
  <2>4. Is(s) => s \in Flies(plan)
    BY <2>1 DEF Flies
  <2> QED
    BY <2>1, <2>2, <2>3, <2>4
<1> HIDE DEF tick, Is, id
<1>3. \A s \in Good : s \in States => \E t : \E status \in {"SUCCESS", "FAILURE"} :
           /\ tick[s] = Done(id, status, t)
           /\ Moves({id}, E, s, t)
           /\ status = "SUCCESS" => t \in Flies(plan)
           /\ status = "FAILURE" => t \in States
  <2> TAKE s \in Good
  <2> DEFINE status == IF Is(s) THEN "SUCCESS" ELSE "FAILURE"
  <2>1. tick[s] = Done(id, status, s) /\ Moves({id}, E, s, s) /\ s \in States
    BY <1>2
  <2>2. status \in {"SUCCESS", "FAILURE"} /\ (status = "SUCCESS" => s \in Flies(plan))
    BY <1>2
  <2> HIDE DEF status
  <2> QED
    BY <2>1, <2>2, Zenon
<1>4. Lasting(States) /\ Lasting(Flies(plan))
  BY SimpleFacts, FactsLast
<1>5. id \notin Z
  BY DEF id
<1>6. Contract(Leaf(id, tick), Z, States, Flies(plan), States, E)
  BY <1>3, <1>4, <1>5, LeafContract
<1> QED
  BY <1>1, <1>6

\* What SafetyTripped makes of the blackboard.
Judged(s) ==
  LET problem == IF s.board.running THEN FirstProblem(s.board) ELSE "" IN
    [s EXCEPT !.board.safety_reason = problem]
Trips(s) == s.board.running /\ FirstProblem(s.board) # ""

LEMMA SafetyTrippedTicks ==
  ASSUME NEW s \in Good, NEW E
  PROVE  /\ SafetyTripped.tick[s] =
              Done(<<"Emergency?">>, IF Trips(s) THEN "SUCCESS" ELSE "FAILURE", Judged(s))
         /\ Moves({<<"Emergency?">>}, E, s, Judged(s))
         /\ Judged(s) \in States
         /\ Judged(s).board.running = s.board.running
         /\ s.board.running => Judged(s).board.safety_reason = FirstProblem(s.board)
<1> DEFINE id == <<"Emergency?">>
           problem == IF s.board.running THEN FirstProblem(s.board) ELSE ""
           t == Judged(s)
           b == [s.board EXCEPT !.safety_reason = problem]
<1>1. s \in States /\ s.board \in Boards
      /\ s = [mem |-> s.mem, board |-> s.board, config |-> s.config]
  BY GoodIsState, StateParts
<1>2. problem \in Problems \cup {""}
  <2>1. FirstProblem(s.board) \in Problems \cup {""}
    <3>1. s.board.abort_requested \in BOOLEAN /\ s.board.battery \in {"none", "ok", "low"}
          /\ s.board.odom \in {"none", "stale", "inside", "outside"}
      BY <1>1 DEF Boards
    <3> QED
      BY <3>1 DEF FirstProblem, Problems
  <2> QED
    BY <2>1
<1>3. t = [mem |-> s.mem, board |-> b, config |-> s.config]
  <2> HIDE DEF problem
  <2>1. t = [s EXCEPT !.board.safety_reason = problem]
    BY DEF Judged, problem
  <2> QED
    BY <1>1, <2>1
<1>4. SafetyTripped.tick[s] = Done(id, IF Trips(s) THEN "SUCCESS" ELSE "FAILURE", t)
  BY <1>1 DEF SafetyTripped, Leaf, Judged, Trips
<1>5. s.board.running => problem = FirstProblem(s.board)
  OBVIOUS
<1> HIDE DEF problem
<1>6. b \in Boards /\ b.objectives = s.board.objectives
      /\ b.mission_outcomes = s.board.mission_outcomes /\ b.running = s.board.running
      /\ b.flight_plan = s.board.flight_plan /\ b.safety_reason = problem
      /\ b.running \in BOOLEAN
  BY <1>1, <1>2 DEF Boards
<1> HIDE DEF t, b, id
<1>7. t \in States /\ Moves({id}, E, s, t)
  BY <1>3, <1>6, WritesElsewhere
<1> QED
  BY <1>3, <1>4, <1>5, <1>6, <1>7 DEF t, id

LEMMA SafetyTrippedContract ==
  ASSUME NEW Z, <<"Emergency?">> \notin Z, NEW E, Lasting(E)
  PROVE  Contract(SafetyTripped, Z, States, States, States, E)
<1> DEFINE id == <<"Emergency?">>
           tick == SafetyTripped.tick
<1>1. SafetyTripped = Leaf(id, tick)
  BY DEF SafetyTripped, Leaf
<1> HIDE DEF tick
<1>3. \A s \in Good : s \in States => \E t : \E status \in {"SUCCESS", "FAILURE"} :
           /\ tick[s] = Done(id, status, t)
           /\ Moves({id}, E, s, t)
           /\ status = "SUCCESS" => t \in States
           /\ status = "FAILURE" => t \in States
  <2> TAKE s \in Good
  <2> DEFINE status == IF Trips(s) THEN "SUCCESS" ELSE "FAILURE"
  <2>1. tick[s] = Done(id, status, Judged(s)) /\ Moves({id}, E, s, Judged(s)) /\ Judged(s) \in States
    BY SafetyTrippedTicks DEF tick
  <2>2. status \in {"SUCCESS", "FAILURE"}
    OBVIOUS
  <2> HIDE DEF status, id
  <2> QED
    BY <2>1, <2>2, Zenon
<1> HIDE DEF id
<1>4. Lasting(States)
  BY SimpleFacts, FactsLast
<1>5. id \notin Z
  BY DEF id
<1>6. Contract(Leaf(id, tick), Z, States, States, States, E)
  BY <1>3, <1>4, <1>5, LeafContract
<1> QED
  BY <1>1, <1>6

-----------------------------------------------------------------------------
(* Composites *)

\* A contract, told by the status with which the walk goes on.
Meets(n, Z, P, goesOn, On, Off, E) ==
  IF goesOn = "SUCCESS" THEN Contract(n, Z, P, On, Off, E) ELSE Contract(n, Z, P, Off, On, E)

\* Where the i-th child is ticked.
Up(P, on, i) == {s \in P : \A j \in Nat : 1 <= j /\ j < i => s \in on[j]}

\* Children that build on each other: each finds what those before it leave, and leaves on[i]
\* when the walk goes on and Off when it does not.
BuildOn(kids, Z, P, goesOn, on, Off, E) ==
  /\ Len(kids) \in Nat /\ DOMAIN kids = 1..Len(kids)
  /\ Lasting(P) /\ Lasting(Off) /\ Lasting(E)
  /\ \A i \in 1..Len(kids) :
       Lasting(on[i]) /\ Meets(kids[i], Z, Up(P, on, i), goesOn, on[i], Off, E)

\* The number of the composite tells that much: a walk that starts later may rely on it, and one
\* that stops has it.
Remembers(id, memory, N, on) ==
  /\ \A j \in 1..Len(Past(id)) : j <= N /\ (j < N => on[j] \subseteq Past(id)[j])
  /\ memory => \A j \in 1..N :
       on[j] = States \/ (j <= Len(Past(id)) /\ Past(id)[j] \subseteq on[j])

Answers(n, goesOn, On, Off, E, s, r) ==
  /\ r.status \in Statuses
  /\ Moves(n.below, E, s, r.s)
  /\ r.status = goesOn => r.s \in On
  /\ r.status \notin {goesOn, "RUNNING"} => r.s \in Off

LEMMA MeetsTicks ==
  ASSUME NEW n, NEW Z, NEW P, NEW goesOn \in {"SUCCESS", "FAILURE"}, NEW On, NEW Off, NEW E,
         Meets(n, Z, P, goesOn, On, Off, E), n.below \subseteq Ids, NEW s \in Good, s \in P
  PROVE  Answers(n, goesOn, On, Off, E, s, n.tick[s])
<1> DEFINE r == n.tick[s]
<1>1. CASE goesOn = "SUCCESS"
  <2>1. Fulfils(n, On, Off, E, s, r)
    BY <1>1 DEF Meets, Contract
  <2> HIDE DEF r
  <2> QED
    BY <1>1, <2>1 DEF Fulfils, Answers, Statuses, r
<1>2. CASE goesOn = "FAILURE"
  <2>1. Fulfils(n, Off, On, E, s, r)
    BY <1>2 DEF Meets, Contract
  <2> HIDE DEF r
  <2> QED
    BY <1>2, <2>1 DEF Fulfils, Answers, Statuses, r
<1> QED
  BY <1>1, <1>2

Visits == [at : Nat, status : Statuses, s : States]

\* What a walk from s has made after the i-th child.
Visited(kids, X, P, goesOn, on, Off, E, s, i) ==
  {v \in Visits :
     /\ v.at <= Len(kids)
     /\ v.s \in P
     /\ Moves(X, E, s, v.s)
     /\ v.status = goesOn => v.s \in Up(P, on, i + 1)
     /\ v.status # goesOn => v.s \in Up(P, on, v.at)
     /\ v.status \notin {goesOn, "RUNNING"} => v.s \in Off}

LEMMA UpLasts ==
  ASSUME NEW P, Lasting(P), NEW on, NEW N \in Nat, \A i \in 1..N : Lasting(on[i]),
         NEW i \in Nat, i <= N + 1
  PROVE  Lasting(Up(P, on, i))
<1>1. Up(P, on, i) \subseteq States
  BY DEF Lasting, Up
<1>2. ASSUME NEW s \in Up(P, on, i), NEW t \in States, Later(s, t) PROVE t \in Up(P, on, i)
  <2>1. t \in P
    BY <1>2 DEF Up, Lasting
  <2>2. ASSUME NEW j \in Nat, 1 <= j, j < i PROVE t \in on[j]
    <3>1. j \in 1..N /\ s \in on[j]
      BY <2>2 DEF Up
    <3>2. Lasting(on[j])
      BY <3>1
    <3> QED
      BY <1>2, <3>1, <3>2 DEF Lasting
  <2> QED
    BY <2>1, <2>2 DEF Up
<1> QED
  BY <1>1, <1>2 DEF Lasting

\* One more child.
LEMMA VisitMeets ==
  ASSUME NEW kids, NEW Z, NEW P, NEW goesOn \in {"SUCCESS", "FAILURE"}, NEW on, NEW Off, NEW E,
         BuildOn(kids, Z, P, goesOn, on, Off, E), NEW X, X \subseteq Ids, NEW s \in Good,
         \A i \in 1..Len(kids) : kids[i].below \subseteq X,
         NEW first, first \in Nat, \A j \in 1..Len(kids) : j < first => s \in on[j],
         NEW i \in 1..Len(kids),
         NEW v \in Visited(kids, X, P, goesOn, on, Off, E, s, i - 1)
  PROVE  Visit(kids[i], i, first, goesOn, v) \in Visited(kids, X, P, goesOn, on, Off, E, s, i)
<1> DEFINE W == Visited(kids, X, P, goesOn, on, Off, E, s, i)
<1>1. /\ Len(kids) \in Nat /\ Lasting(P) /\ Lasting(Off) /\ Lasting(E)
      /\ Lasting(on[i]) /\ Meets(kids[i], Z, Up(P, on, i), goesOn, on[i], Off, E)
      /\ i \in Nat /\ 1 <= i /\ i <= Len(kids)
  BY DEF BuildOn
<1>2. /\ v \in Visits /\ v.at <= Len(kids) /\ v.s \in P /\ Moves(X, E, s, v.s)
      /\ v.status = goesOn => v.s \in Up(P, on, i)
      /\ v.status # goesOn => v.s \in Up(P, on, v.at)
      /\ v.status \notin {goesOn, "RUNNING"} => v.s \in Off
  BY <1>1 DEF Visited
<1>3. CASE v.status # goesOn
  <2>1. Visit(kids[i], i, first, goesOn, v) = v
    BY <1>3 DEF Visit
  <2> QED
    BY <1>2, <1>3, <2>1 DEF Visited
<1>4. CASE v.status = goesOn /\ i < first
  <2>1. Visit(kids[i], i, first, goesOn, v) = v
    BY <1>4 DEF Visit
  <2>2. s \in on[i]
    BY <1>4
  <2>3. v.s \in on[i]
    BY <1>1, <1>2, <2>2, FactsStay
  <2>4. v.s \in Up(P, on, i + 1)
    BY <1>1, <1>2, <1>4, <2>3 DEF Up
  <2> QED
    BY <1>2, <1>4, <2>1, <2>4 DEF Visited
<1>5. CASE v.status = goesOn /\ ~(i < first)
  <2> DEFINE r == kids[i].tick[v.s]
             w == [at |-> i, status |-> r.status, s |-> r.s]
  <2>1. Visit(kids[i], i, first, goesOn, v) = w
    BY <1>5 DEF Visit
  <2>2. v.s \in Good /\ v.s \in Up(P, on, i) /\ kids[i].below \subseteq Ids
    BY <1>2, <1>5 DEF Moves
  <2>3. /\ r.status \in Statuses
        /\ Moves(kids[i].below, E, v.s, r.s)
        /\ r.status = goesOn => r.s \in on[i]
        /\ r.status \notin {goesOn, "RUNNING"} => r.s \in Off
    <3>1. Answers(kids[i], goesOn, on[i], Off, E, v.s, r)
      BY <1>1, <2>2, MeetsTicks
    <3> QED
      BY <3>1 DEF Answers
  <2> HIDE DEF r
  <2>4. Moves(X, E, v.s, r.s)
    <3>1. kids[i].below \subseteq X
      OBVIOUS
    <3> QED
      BY <2>3, <3>1, MovesMore
  <2>5. Moves(X, E, s, r.s)
    BY <1>1, <1>2, <2>4, MovesChain
  <2>6. Lasting(Up(P, on, i))
    <3>1. \A j \in 1..Len(kids) : Lasting(on[j])
      BY DEF BuildOn
    <3>2. i <= Len(kids) + 1
      BY <1>1
    <3> QED
      BY <1>1, <3>1, <3>2, UpLasts
  <2>7. r.s \in Up(P, on, i)
    BY <2>2, <2>4, <2>6, FactsStay
  <2>8. r.s \in P /\ r.s \in States
    BY <2>7, <2>5, GoodIsState DEF Up, Moves
  <2>9. r.status = goesOn => r.s \in Up(P, on, i + 1)
    BY <1>1, <2>3, <2>7 DEF Up
  <2>10. w.at = i /\ w.status = r.status /\ w.s = r.s /\ w \in Visits
    BY <1>1, <2>3, <2>8 DEF Visits
  <2> HIDE DEF w
  <2>11. w \in W
    BY <1>1, <2>3, <2>5, <2>7, <2>8, <2>9, <2>10 DEF Visited
  <2> QED
    BY <2>1, <2>11
<1> QED
  BY <1>3, <1>4, <1>5

\* The walk, child by child.
WalksOn(kids, first, goesOn, s, visit) ==
  /\ visit[0] = [at |-> 0, status |-> goesOn, s |-> s]
  /\ \A i \in 1..Len(kids) : visit[i] = Visit(kids[i], i, first, goesOn, visit[i - 1])
  /\ Walk(kids, first, goesOn, s) = visit[Len(kids)]

LEMMA WalkMeets ==
  ASSUME NEW kids, NEW Z, NEW P, NEW goesOn \in {"SUCCESS", "FAILURE"}, NEW on, NEW Off, NEW E,
         BuildOn(kids, Z, P, goesOn, on, Off, E), NEW X, X \subseteq Ids, NEW s \in Good, s \in P,
         \A i \in 1..Len(kids) : kids[i].below \subseteq X,
         NEW first, first \in Nat, \A j \in 1..Len(kids) : j < first => s \in on[j]
  PROVE  \E visit : /\ WalksOn(kids, first, goesOn, s, visit)
                    /\ \A i \in 0..Len(kids) :
                         visit[i] \in Visited(kids, X, P, goesOn, on, Off, E, s, i)
<1> DEFINE N == Len(kids)
           start == [at |-> 0, status |-> goesOn, s |-> s]
           step == [i \in 1..N |-> [v \in Visits |-> Visit(kids[i], i, first, goesOn, v)]]
           inv == [i \in 0..N |-> Visited(kids, X, P, goesOn, on, Off, E, s, i)]
           Def(visit) == visit = [i \in 0..N |-> IF i = 0 THEN start
                                    ELSE Visit(kids[i], i, first, goesOn, visit[i - 1])]
           visit == CHOOSE visit : Def(visit)
<1>1. N \in Nat /\ Lasting(E)
  BY DEF BuildOn
<1>2. inv \in [0..N -> SUBSET Visits] /\ \A i \in 0..N : inv[i] \subseteq Visits
  BY DEF Visited
<1>3. start \in inv[0]
  <2>1. s \in States /\ Moves(X, E, s, s)
    BY GoodIsState, StandsStill
  <2>2. start \in Visits /\ start.at = 0 /\ start.status = goesOn /\ start.s = s
    BY <2>1 DEF Visits, Statuses
  <2>3. s \in Up(P, on, 0 + 1)
    BY DEF Up
  <2> HIDE DEF start
  <2>4. start \in Visited(kids, X, P, goesOn, on, Off, E, s, 0)
    BY <1>1, <2>1, <2>2, <2>3 DEF Visited
  <2> QED
    BY <1>1, <2>4
<1>4. ASSUME NEW i \in 1..N, NEW v \in inv[i - 1]
      PROVE  /\ step[i][v] = Visit(kids[i], i, first, goesOn, v)
             /\ Visit(kids[i], i, first, goesOn, v) \in inv[i]
  <2>1. i - 1 \in 0..N /\ i \in 0..N
    BY <1>1
  <2>2. v \in Visited(kids, X, P, goesOn, on, Off, E, s, i - 1) /\ v \in Visits
    BY <1>2, <2>1
  <2>3. Visit(kids[i], i, first, goesOn, v) \in Visited(kids, X, P, goesOn, on, Off, E, s, i)
    BY <2>2, VisitMeets
  <2> QED
    BY <2>1, <2>2, <2>3
<1> HIDE DEF start, inv
<1>5. Keeps(Visits, start, step, inv, N)
  <2> HIDE DEF step
  <2> QED
    BY <1>1, <1>2, <1>3, <1>4, RecursionKeeps
<1>6. PICK f \in [0..N -> Visits] :
        /\ f = [k \in 0..N |-> IF k = 0 THEN start ELSE step[k][f[k - 1]]]
        /\ \A k \in 0..N : f[k] \in inv[k]
  BY <1>5 DEF Keeps
<1>7. Def(f)
  <2>1. \A k \in 0..N : k # 0 => k \in 1..N /\ k - 1 \in 0..N
    BY <1>1
  <2> HIDE DEF step
  <2>2. \A k \in 0..N : k # 0 => step[k][f[k - 1]] = Visit(kids[k], k, first, goesOn, f[k - 1])
    BY <1>4, <1>6, <2>1
  <2>3. \A k \in 0..N : f[k] = IF k = 0 THEN start ELSE Visit(kids[k], k, first, goesOn, f[k - 1])
    BY <1>6, <2>2
  <2> QED
    BY <1>6, <2>3
<1>8. Def(visit)
  <2> HIDE DEF Def
  <2> QED
    BY <1>7
<1>9. Walk(kids, first, goesOn, s) = visit[N]
  BY DEF Walk, start
<1> HIDE DEF visit, step
<1>10. visit[0] = start
  BY <1>1, <1>8
<1>11. \A i \in 1..N : visit[i] = Visit(kids[i], i, first, goesOn, visit[i - 1])
  BY <1>1, <1>8
<1>12. \A i \in 0..N : visit[i] \in inv[i]
  <2>1. visit[0] \in inv[0]
    BY <1>3, <1>10
  <2>2. \A i \in 1..N : visit[i - 1] \in inv[i - 1] => visit[i] \in inv[i]
    BY <1>4, <1>11
  <2> QED
    BY <1>1, <2>1, <2>2, StepByStep
<1>13. WalksOn(kids, first, goesOn, s, visit)
  BY <1>9, <1>10, <1>11 DEF WalksOn, start
<1> QED
  BY <1>12, <1>13 DEF inv

\* What a composite works on: the children, in their order, from a state it has entered.
LEMMA EnterMoves ==
  ASSUME NEW X, NEW E, NEW s \in Good, NEW kids, Len(kids) \in Nat, NEW id,
         \A i \in 1..Len(kids) : kids[i].below \subseteq X
  PROVE  /\ Moves(X, E, s, Enter(id, kids, s))
         /\ Running(id, s) => Enter(id, kids, s) = s
<1>1. CASE Running(id, s)
  BY <1>1, StandsStill DEF Enter
<1>2. CASE ~Running(id, s)
  <2>1. Moves(X, E, s, ForgetFrom(kids, 1, s))
    BY ForgetFromMoves DEF Within
  <2> QED
    BY <1>2, <2>1 DEF Enter
<1> QED
  BY <1>1, <1>2

\* The children of a composite have names if it has.
LEMMA KidsBelow ==
  ASSUME NEW id, NEW memory, NEW kids, NEW goesOn, NEW stopsRest, DOMAIN kids = 1..Len(kids)
  PROVE  LET n == Composite(id, memory, kids, goesOn, stopsRest) IN
           /\ id \in n.below
           /\ \A i \in 1..Len(kids) : kids[i].below \subseteq n.below
           /\ \A m \in n.below : m = id \/ \E i \in 1..Len(kids) : m \in kids[i].below
  BY DEF Composite

\* What a composite makes of its walk.
Ends(id, kids, stopsRest, at, status, s) ==
  LET rest == IF stopsRest THEN ForgetFrom(kids, at + 1, s) ELSE s
  IN IF status = "RUNNING" THEN Goes(id, at, rest) ELSE Done(id, status, rest)

\* The number is sound and stays so.
StaysSound(id, number, s) == \A t \in States : Later(s, t) => Sound(id, number, t)

LEMMA RestMoves ==
  ASSUME NEW X, NEW E, NEW s \in Good, NEW kids, Len(kids) \in Nat, NEW at \in Nat,
         Within(kids, 1, X)
  PROVE  /\ Moves(X, E, s, ForgetFrom(kids, at + 1, s))
         /\ ForgetFrom(kids, at + 1, s).board = s.board
<1> DEFINE i == at + 1
<1>1. i \in Nat /\ Within(kids, i, X)
  BY DEF Within
<1> HIDE DEF i
<1>2. Moves(X, E, s, ForgetFrom(kids, i, s)) /\ ForgetFrom(kids, i, s).board = s.board
  BY <1>1, ForgetFromMoves
<1> QED
  BY <1>2 DEF i

LEMMA EndsWell ==
  ASSUME NEW X, NEW E, Lasting(E), NEW kids, Len(kids) \in Nat, NEW id \in X, id \in Ids,
         Within(kids, 1, X), NEW stopsRest \in BOOLEAN,
         NEW at \in Nat, NEW status, NEW s \in Good, StaysSound(id, at, s)
  PROVE  LET r == Ends(id, kids, stopsRest, at, status, s) IN
           /\ r.status = status
           /\ Moves(X, E, s, r.s)
           /\ r.s.board = s.board
<1> DEFINE rest == IF stopsRest THEN ForgetFrom(kids, at + 1, s) ELSE s
<1>1. Moves(X, E, s, rest) /\ rest.board = s.board
  <2>1. Moves(X, E, s, ForgetFrom(kids, at + 1, s)) /\ ForgetFrom(kids, at + 1, s).board = s.board
    BY RestMoves
  <2>2. Moves(X, E, s, s)
    BY StandsStill
  <2> QED
    BY <2>1, <2>2
<1> HIDE DEF rest
<1>2. rest \in Good /\ Later(s, rest) /\ rest \in States
  BY <1>1, GoodIsState DEF Moves
<1>3. CASE status = "RUNNING"
  <2>1. Sound(id, at, rest)
    BY <1>2 DEF StaysSound
  <2> DEFINE g == Goes(id, at, rest)
  <2>2. g.status = "RUNNING" /\ Leaves(X, E, rest, g)
    BY <1>2, <2>1, GoesMoves
  <2>3. Ends(id, kids, stopsRest, at, status, s) = g
    BY <1>3 DEF Ends, rest
  <2> HIDE DEF g
  <2>4. Moves(X, E, s, g.s) /\ g.s.board = s.board
    BY <1>1, <2>2, MovesChain DEF Leaves
  <2> QED
    BY <1>3, <2>2, <2>3, <2>4
<1>4. CASE status # "RUNNING"
  <2> DEFINE d == Done(id, status, rest)
  <2>1. d.status = status /\ Leaves(X, E, rest, d)
    BY <1>2, DoneMoves
  <2>2. Ends(id, kids, stopsRest, at, status, s) = d
    BY <1>4 DEF Ends, rest
  <2> HIDE DEF d
  <2>3. Moves(X, E, s, d.s) /\ d.s.board = s.board
    BY <1>1, <2>1, MovesChain DEF Leaves
  <2> QED
    BY <2>1, <2>2, <2>3
<1> QED
  BY <1>3, <1>4

\* A composite leaves what all its children leave, or what one of them left when it stopped.
LEMMA CompositeMeets ==
  ASSUME NEW kids, NEW Z, NEW P, NEW goesOn \in {"SUCCESS", "FAILURE"}, NEW on, NEW Off, NEW E,
         BuildOn(kids, Z, P, goesOn, on, Off, E),
         NEW id, id \notin Z, NEW memory \in BOOLEAN, Remembers(id, memory, Len(kids), on),
         NEW stopsRest \in BOOLEAN
  PROVE  Meets(Composite(id, memory, kids, goesOn, stopsRest), Z, P, goesOn,
               Up(P, on, Len(kids) + 1), Off, E)
<1> DEFINE n == Composite(id, memory, kids, goesOn, stopsRest)
           X == n.below
           N == Len(kids)
<1>1. N \in Nat /\ DOMAIN kids = 1..N /\ Lasting(P) /\ Lasting(Off) /\ Lasting(E)
      /\ \A i \in 1..N : Lasting(on[i])
  BY DEF BuildOn
<1>2. id \in X /\ (\A i \in 1..N : kids[i].below \subseteq X)
      /\ \A m \in X : m = id \/ \E i \in 1..N : m \in kids[i].below
  BY <1>1, KidsBelow
<1>3. n.id = id /\ n.tick = [s \in States |-> TickComposite(id, memory, kids, goesOn, stopsRest, s)]
  BY DEF Composite
<1> HIDE DEF n
<1>4. ASSUME NEW s \in Good, s \in P, X \subseteq Ids
      PROVE  Answers(n, goesOn, Up(P, on, N + 1), Off, E, s, n.tick[s])
  <2> DEFINE t == Enter(id, kids, s)
             first == First(id, memory, s)
             v == Walk(kids, first, goesOn, t)
             r == Ends(id, kids, stopsRest, v.at, v.status, v.s)
  <2>1. Moves(X, E, s, t) /\ t \in Good /\ t \in P
    <3>1. Moves(X, E, s, t)
      BY <1>1, <1>2, EnterMoves
    <3> QED
      BY <1>1, <1>4, <3>1, FactsStay DEF Moves
  <2>2. first \in Nat
    BY NumberIs DEF First
  <2>3. \A j \in 1..N : j < first => t \in on[j]
    <3>1. CASE memory /\ Running(id, s)
      <4>1. t = s /\ first = Number(id, s) /\ first \in Nat /\ Sound(id, first, s) /\ s \in States
        BY <1>1, <1>2, <3>1, EnterMoves, NumberIs, GoodIsState DEF First
      <4> HIDE DEF t, first
      <4> QED
        BY <1>1, <3>1, <4>1 DEF Sound, Remembers
    <3>2. CASE ~(memory /\ Running(id, s))
      <4>1. first = 1
        BY <3>2 DEF First
      <4> QED
        BY <4>1
    <3> QED
      BY <3>1, <3>2
  <2> HIDE DEF t, first
  <2>4. v \in Visited(kids, X, P, goesOn, on, Off, E, t, N)
    <3>1. PICK visit : /\ WalksOn(kids, first, goesOn, t, visit)
                       /\ \A i \in 0..N : visit[i] \in Visited(kids, X, P, goesOn, on, Off, E, t, i)
      BY <1>2, <1>4, <2>1, <2>2, <2>3, WalkMeets
    <3>2. v = visit[N] /\ N \in 0..N
      BY <1>1, <3>1 DEF WalksOn
    <3> QED
      BY <3>1, <3>2
  <2> HIDE DEF v
  <2>5. /\ v \in Visits /\ v.at <= N /\ Moves(X, E, t, v.s) /\ v.s \in P
        /\ v.status = goesOn => v.s \in Up(P, on, N + 1)
        /\ v.status # goesOn => v.s \in Up(P, on, v.at)
        /\ v.status \notin {goesOn, "RUNNING"} => v.s \in Off
    BY <2>4 DEF Visited
  <2>6. v.s \in Good /\ v.at \in Nat /\ v.status \in Statuses
    BY <2>5 DEF Moves, Visits
  <2>7. StaysSound(id, v.at, v.s)
    <3> SUFFICES ASSUME NEW u \in States, Later(v.s, u), NEW j \in 1..Len(Past(id)), j < v.at
                 PROVE  u \in Past(id)[j]
      BY DEF Sound, StaysSound
    <3>1. Len(Past(id)) \in Nat
      BY FactsOfLast DEF Past
    <3>2. j \in 1..N /\ j \in Nat /\ 1 <= j /\ j < N /\ j < N + 1
      BY <1>1, <2>5, <2>6, <3>1 DEF Remembers
    <3>3. v.s \in on[j] /\ on[j] \subseteq Past(id)[j]
      BY <2>5, <3>2 DEF Up, Remembers
    <3> QED
      BY <1>1, <3>2, <3>3 DEF Lasting
  <2>8. r.status = v.status /\ Moves(X, E, v.s, r.s)
    <3>1. id \in X /\ id \in Ids /\ Within(kids, 1, X)
      BY <1>2, <1>4 DEF Within
    <3> QED
      BY <1>1, <2>6, <2>7, <3>1, EndsWell
  <2> HIDE DEF r
  <2>9. Moves(X, E, s, r.s)
    BY <1>1, <2>1, <2>5, <2>8, MovesChain
  <2>10. Lasting(Up(P, on, N + 1))
    <3>1. N + 1 \in Nat /\ N + 1 <= N + 1
      BY <1>1
    <3> QED
      BY <1>1, <3>1, UpLasts
  <2>11. r.status = goesOn => r.s \in Up(P, on, N + 1)
    BY <2>5, <2>8, <2>10, FactsStay
  <2>12. r.status \notin {goesOn, "RUNNING"} => r.s \in Off
    BY <1>1, <2>5, <2>8, FactsStay
  <2>13. n.tick[s] = r
    BY <1>3, GoodIsState DEF TickComposite, Ends, t, first, v, r
  <2> QED
    BY <2>6, <2>8, <2>9, <2>11, <2>12, <2>13 DEF Answers
<1>5. \A z \in Z : z \notin X
  <2>1. \A i \in 1..N : \A z \in Z : z \notin kids[i].below
    BY DEF BuildOn, Meets, Contract
  <2> QED
    BY <1>2, <2>1
<1>6. n.id \in X
  BY <1>2, <1>3
<1> DEFINE All == Up(P, on, N + 1)
<1> HIDE DEF All
<1>7. CASE goesOn = "SUCCESS"
  <2>1. \A s \in Good : s \in P /\ X \subseteq Ids => Fulfils(n, All, Off, E, s, n.tick[s])
    BY <1>4, <1>7 DEF Answers, Fulfils, All
  <2> QED
    BY <1>5, <1>6, <1>7, <2>1 DEF Meets, Contract, All, n
<1>8. CASE goesOn = "FAILURE"
  <2>1. \A s \in Good : s \in P /\ X \subseteq Ids => Fulfils(n, Off, All, E, s, n.tick[s])
    BY <1>4, <1>8 DEF Answers, Fulfils, All
  <2> QED
    BY <1>5, <1>6, <1>8, <2>1 DEF Meets, Contract, All, n
<1> QED
  BY <1>7, <1>8

LEMMA SequenceContract ==
  ASSUME NEW kids, NEW Z, NEW P, NEW on, NEW Off, NEW E, BuildOn(kids, Z, P, "SUCCESS", on, Off, E),
         NEW id, id \notin Z, NEW memory \in BOOLEAN, Remembers(id, memory, Len(kids), on),
         NEW S, Up(P, on, Len(kids) + 1) \subseteq S
  PROVE  Contract(Sequence(id, memory, kids), Z, P, S, Off, E)
<1>1. Meets(Composite(id, memory, kids, "SUCCESS", ~memory), Z, P, "SUCCESS",
            Up(P, on, Len(kids) + 1), Off, E)
  BY CompositeMeets
<1>2. Contract(Sequence(id, memory, kids), Z, P, Up(P, on, Len(kids) + 1), Off, E)
  BY <1>1 DEF Meets, Sequence
<1>3. Z \subseteq Z /\ P \subseteq P /\ Off \subseteq Off
  OBVIOUS
<1> QED
  BY <1>2, <1>3, Weaker

LEMMA SelectorContract ==
  ASSUME NEW kids, NEW Z, NEW P, NEW on, NEW Off, NEW E, BuildOn(kids, Z, P, "FAILURE", on, Off, E),
         NEW id, id \notin Z, NEW memory \in BOOLEAN, Remembers(id, memory, Len(kids), on),
         NEW F, Up(P, on, Len(kids) + 1) \subseteq F
  PROVE  Contract(Selector(id, memory, kids), Z, P, Off, F, E)
<1>1. Meets(Composite(id, memory, kids, "FAILURE", TRUE), Z, P, "FAILURE",
            Up(P, on, Len(kids) + 1), Off, E)
  BY CompositeMeets
<1>2. Contract(Selector(id, memory, kids), Z, P, Off, Up(P, on, Len(kids) + 1), E)
  BY <1>1 DEF Meets, Selector
<1>3. Z \subseteq Z /\ P \subseteq P /\ Off \subseteq Off
  OBVIOUS
<1> QED
  BY <1>2, <1>3, Weaker

-----------------------------------------------------------------------------
(* Decorators *)

LEMMA DecoratorContract ==
  ASSUME NEW child, NEW Z, NEW P, NEW S, NEW F, NEW E, Contract(child, Z, P, S, F, E),
         NEW id, id \notin Z, NEW tick, NEW T, NEW G,
         \A s \in Good : id \in Ids /\ s \in P /\ Fulfils(child, S, F, E, s, child.tick[s]) =>
           Fulfils(Decorator(id, child, tick), T, G, E, s, tick[s])
  PROVE  Contract(Decorator(id, child, tick), Z, P, T, G, E)
<1> DEFINE n == Decorator(id, child, tick)
<1>1. n.id = id /\ n.below = {id} \cup child.below /\ n.tick = tick
  BY DEF Decorator
<1> HIDE DEF n
<1>2. n.id \in n.below /\ (\A z \in Z : z \notin n.below)
      /\ (n.below \subseteq Ids => id \in Ids /\ child.below \subseteq Ids)
  BY <1>1 DEF Contract
<1>3. ASSUME NEW s \in Good, s \in P, n.below \subseteq Ids
      PROVE  Fulfils(n, T, G, E, s, n.tick[s])
  <2>1. Fulfils(child, S, F, E, s, child.tick[s])
    BY <1>2, <1>3 DEF Contract
  <2> QED
    BY <1>1, <1>2, <1>3, <2>1 DEF n
<1> QED
  BY <1>2, <1>3 DEF Contract, n

\* Where a decorator takes over, after its child.
LEMMA AfterChild ==
  ASSUME NEW child, NEW S, NEW F, NEW E, NEW s, NEW r, Fulfils(child, S, F, E, s, r), NEW id, NEW tick
  PROVE  LET X == Decorator(id, child, tick).below IN
           /\ X = {id} \cup child.below
           /\ Moves(X, E, s, r.s)
           /\ r.s \in Good
<1> DEFINE X == Decorator(id, child, tick).below
<1>1. X = {id} \cup child.below
  BY DEF Decorator
<1>2. Moves(child.below, E, s, r.s) /\ child.below \subseteq X
  BY <1>1 DEF Fulfils
<1> HIDE DEF X
<1>3. Moves(X, E, s, r.s)
  BY <1>2, MovesMore
<1> QED
  BY <1>1, <1>2, <1>3 DEF Moves, X

LEMMA PairsArePlain == \A mission, what : Plain(<<mission, what>>)
  BY LongIdsArePlain

LEMMA DeadlineContract ==
  ASSUME NEW child, NEW Z, NEW P, NEW S, Lasting(S), NEW F, NEW E, Lasting(E),
         Contract(child, Z, P, S, F, E), NEW mission, <<mission, "Deadline">> \notin Z
  PROVE  Contract(Deadline(mission, child), Z, P, S, States, E)
<1> DEFINE id == <<mission, "Deadline">>
           tick == [s \in States |-> TickDeadline(id, child, s)]
           n == Decorator(id, child, tick)
           X == n.below
<1>1. Deadline(mission, child) = n
  BY DEF Deadline
<1>2. Plain(id)
  BY PairsArePlain
<1>3. \A s \in Good : tick[s] = TickDeadline(id, child, s)
  BY GoodIsState
<1> HIDE DEF tick, id
<1>4. ASSUME NEW s \in Good, id \in Ids, s \in P, Fulfils(child, S, F, E, s, child.tick[s])
      PROVE  Fulfils(n, S, States, E, s, tick[s])
  <2> DEFINE kid == child.tick[s]
             number == Number(id, s)
  <2>1. X = {id} \cup child.below /\ Moves(X, E, s, kid.s) /\ kid.s \in Good
    BY <1>4, AfterChild
  <2>2. kid.status \in Statuses /\ (kid.status = "SUCCESS" => kid.s \in S)
    BY <1>4 DEF Fulfils
  <2>3. number \in Nat /\ DeadlineTicks \in Nat
    BY NumberIs, TreeAssumption
  <2>4. TickDeadline(id, child, s) =
          CASE kid.status # "RUNNING" -> Done(id, kid.status, kid.s)
            [] kid.status = "RUNNING" /\ number >= DeadlineTicks ->
                 Done(id, "FAILURE", Forget(child.below, kid.s))
            [] kid.status = "RUNNING" /\ number < DeadlineTicks ->
                 Goes(id, number + 1, kid.s)
    BY DEF TickDeadline
  <2> HIDE DEF kid, number, n
  <2>5. CASE kid.status # "RUNNING"
    <3> DEFINE d == Done(id, kid.status, kid.s)
    <3>1. TickDeadline(id, child, s) = d
      BY <2>4, <2>5
    <3>2. d.status = kid.status /\ Leaves(X, E, kid.s, d)
      BY <2>1, DoneMoves
    <3> HIDE DEF d
    <3>3. Moves(X, E, kid.s, d.s)
      BY <3>2 DEF Leaves
    <3>4. Moves(X, E, s, d.s)
      BY <2>1, <3>3, MovesChain
    <3>5. d.status = "SUCCESS" => d.s \in S
      BY <2>2, <3>2, <3>3, FactsStay
    <3>6. d.s \in States
      BY <3>3, GoodIsState DEF Moves
    <3> QED
      BY <1>3, <2>2, <3>1, <3>2, <3>4, <3>5, <3>6 DEF Fulfils
  <2>6. CASE kid.status = "RUNNING" /\ number >= DeadlineTicks
    <3> DEFINE u == Forget(child.below, kid.s)
               d == Done(id, "FAILURE", u)
    <3>1. TickDeadline(id, child, s) = d
      BY <2>3, <2>4, <2>6
    <3>2. Moves(child.below, E, kid.s, u) /\ child.below \subseteq X
      BY <2>1, ForgetMoves
    <3> HIDE DEF u
    <3>3. Moves(X, E, kid.s, u) /\ u \in Good
      BY <3>2, MovesMore DEF Moves
    <3>4. d.status = "FAILURE" /\ Leaves(X, E, u, d)
      BY <2>1, <3>3, DoneMoves
    <3> HIDE DEF d
    <3>5. Moves(X, E, u, d.s)
      BY <3>4 DEF Leaves
    <3>6. Moves(X, E, kid.s, d.s)
      BY <3>3, <3>5, MovesChain
    <3>7. Moves(X, E, s, d.s)
      BY <2>1, <3>6, MovesChain
    <3>8. d.s \in States
      BY <3>7, GoodIsState DEF Moves
    <3> QED
      BY <1>3, <3>1, <3>4, <3>7, <3>8 DEF Fulfils, Statuses
  <2>7. CASE kid.status = "RUNNING" /\ ~(number >= DeadlineTicks)
    <3> DEFINE k == number + 1
               g == Goes(id, k, kid.s)
    <3>1. TickDeadline(id, child, s) = g
      BY <2>3, <2>4, <2>7
    <3>2. k \in Nat /\ Sound(id, k, kid.s) /\ kid.s \in States
      BY <1>2, <2>1, <2>3, GoodIsState DEF Plain
    <3> HIDE DEF k
    <3>3. g.status = "RUNNING" /\ Leaves(X, E, kid.s, g)
      BY <1>4, <2>1, <3>2, GoesMoves
    <3> HIDE DEF g
    <3>4. Moves(X, E, kid.s, g.s)
      BY <3>3 DEF Leaves
    <3>5. Moves(X, E, s, g.s)
      BY <2>1, <3>4, MovesChain
    <3> QED
      BY <1>3, <3>1, <3>3, <3>5 DEF Fulfils, Statuses
  <2> QED
    BY <2>5, <2>6, <2>7
<1>5. id \notin Z
  BY DEF id
<1>6. Contract(n, Z, P, S, States, E)
  BY <1>4, <1>5, DecoratorContract
<1> QED
  BY <1>1, <1>6

LEMMA RetryContract ==
  ASSUME NEW child, NEW Z, NEW P, NEW S, Lasting(S), NEW F, NEW E, Lasting(E),
         Contract(child, Z, P, S, F, E), NEW mission, <<mission, "Attempts">> \notin Z,
         NEW attempts \in Nat
  PROVE  Contract(AttemptBudget(mission, child, attempts), Z, P, S, States, E)
<1> DEFINE id == <<mission, "Attempts">>
           tick == [s \in States |-> TickRetry(id, child, attempts, s)]
           n == Decorator(id, child, tick)
           X == n.below
<1>1. AttemptBudget(mission, child, attempts) = n
  BY DEF AttemptBudget
<1>2. Plain(id)
  BY PairsArePlain
<1>3. \A s \in Good : tick[s] = TickRetry(id, child, attempts, s)
  BY GoodIsState
<1> HIDE DEF tick, id
<1>4. ASSUME NEW s \in Good, id \in Ids, s \in P, Fulfils(child, S, F, E, s, child.tick[s])
      PROVE  Fulfils(n, S, States, E, s, tick[s])
  <2> DEFINE kid == child.tick[s]
             failures == Number(id, s) + (IF kid.status = "FAILURE" THEN 1 ELSE 0)
  <2>1. X = {id} \cup child.below /\ Moves(X, E, s, kid.s) /\ kid.s \in Good
    BY <1>4, AfterChild
  <2>2. kid.status \in Statuses /\ (kid.status = "SUCCESS" => kid.s \in S)
    BY <1>4 DEF Fulfils
  <2>3. failures \in Nat
    BY NumberIs
  <2>4. TickRetry(id, child, attempts, s) =
          CASE kid.status = "SUCCESS" -> Done(id, "SUCCESS", kid.s)
            [] kid.status # "SUCCESS" /\ failures < attempts -> Goes(id, failures, kid.s)
            [] kid.status # "SUCCESS" /\ failures >= attempts -> Done(id, "FAILURE", kid.s)
    BY DEF TickRetry
  <2> HIDE DEF kid, failures, n
  <2>5. CASE kid.status = "SUCCESS" \/ failures >= attempts
    <3> DEFINE status == IF kid.status = "SUCCESS" THEN "SUCCESS" ELSE "FAILURE"
               d == Done(id, status, kid.s)
    <3>1. TickRetry(id, child, attempts, s) = d
      BY <2>3, <2>4, <2>5
    <3>2. status \in Statuses /\ (status = "SUCCESS" => kid.s \in S)
      BY <2>2 DEF Statuses
    <3> HIDE DEF status
    <3>3. d.status = status /\ Leaves(X, E, kid.s, d)
      BY <2>1, DoneMoves
    <3> HIDE DEF d
    <3>4. Moves(X, E, kid.s, d.s)
      BY <3>3 DEF Leaves
    <3>5. Moves(X, E, s, d.s)
      BY <2>1, <3>4, MovesChain
    <3>6. d.status = "SUCCESS" => d.s \in S
      BY <3>2, <3>3, <3>4, FactsStay
    <3>7. d.s \in States
      BY <3>4, GoodIsState DEF Moves
    <3> QED
      BY <1>3, <3>1, <3>2, <3>3, <3>5, <3>6, <3>7 DEF Fulfils
  <2>6. CASE kid.status # "SUCCESS" /\ failures < attempts
    <3> DEFINE g == Goes(id, failures, kid.s)
    <3>1. TickRetry(id, child, attempts, s) = g
      BY <2>3, <2>4, <2>6
    <3>2. Sound(id, failures, kid.s) /\ kid.s \in States
      BY <1>2, <2>1, <2>3, GoodIsState DEF Plain
    <3>3. g.status = "RUNNING" /\ Leaves(X, E, kid.s, g)
      BY <1>4, <2>1, <2>3, <3>2, GoesMoves
    <3> HIDE DEF g
    <3>4. Moves(X, E, kid.s, g.s)
      BY <3>3 DEF Leaves
    <3>5. Moves(X, E, s, g.s)
      BY <2>1, <3>4, MovesChain
    <3> QED
      BY <1>3, <3>1, <3>3, <3>5 DEF Fulfils, Statuses
  <2> QED
    BY <2>3, <2>5, <2>6
<1>5. id \notin Z
  BY DEF id
<1>6. Contract(n, Z, P, S, States, E)
  BY <1>4, <1>5, DecoratorContract
<1> QED
  BY <1>1, <1>6

\* The outcome of a mission is written; "success" needs all that the mission needs.
Outcome(mission, outcome, s) == [s EXCEPT !.board.mission_outcomes[mission] = outcome]

LEMMA OutcomeMoves ==
  ASSUME NEW s \in Good, NEW mission \in Missions, NEW outcome \in {"success", "skipped"},
         outcome = "success" => s \in AllWork(Needed[mission]), NEW X, NEW E
  PROVE  Moves(X, E, s, Outcome(mission, outcome, s)) /\ Outcome(mission, outcome, s) \in Told(mission)
<1> DEFINE t == Outcome(mission, outcome, s)
           b == [s.board EXCEPT !.mission_outcomes[mission] = outcome]
<1>1. s \in States /\ s.board \in Boards
      /\ s = [mem |-> s.mem, board |-> s.board, config |-> s.config]
  BY GoodIsState, StateParts
<1>2. t = [mem |-> s.mem, board |-> b, config |-> s.config]
  <2>1. t = [s EXCEPT !.board = b]
    BY Zenon DEF Outcome
  <2> HIDE DEF b, t
  <2> QED
    BY <1>1, <2>1
<1>3. s.board.mission_outcomes \in [Missions -> {"none", "success", "skipped"}]
  BY <1>1 DEF Boards
<1>4. b \in Boards /\ b.objectives = s.board.objectives /\ b.running = s.board.running
      /\ b.flight_plan = s.board.flight_plan
      /\ b.mission_outcomes = [s.board.mission_outcomes EXCEPT ![mission] = outcome]
  BY <1>1, <1>3 DEF Boards
<1> HIDE DEF b, t
<1>5. b.mission_outcomes[mission] = outcome
      /\ \A m \in Missions : m # mission => b.mission_outcomes[m] = s.board.mission_outcomes[m]
  BY <1>3, <1>4
<1>6. t.mem = s.mem /\ t.board = b /\ t.config = s.config
  BY <1>2
<1>7. Later(s, t)
  BY <1>4, <1>5, <1>6 DEF Later
<1>8. t \in States /\ s \in AllWork(Needed[mission]) => t \in AllWork(Needed[mission])
  BY <1>7, SimpleFacts, FactsLast DEF Lasting
<1>9. ASSUME NEW m \in Missions, b.mission_outcomes[m] = "success"
      PROVE  s.board.mission_outcomes[m] = "success" \/ (t \in States => t \in AllWork(Needed[m]))
  BY <1>5, <1>8, <1>9
<1>10. t \in States /\ Moves(X, E, s, t)
  BY <1>2, <1>4, <1>7, <1>9, Writes
<1>11. t \in Told(mission)
  BY <1>5, <1>6, <1>10 DEF Told
<1> QED
  BY <1>10, <1>11 DEF t

LEMMA SkipContract ==
  ASSUME NEW child, NEW Z, NEW P, NEW S, NEW F, NEW E, Lasting(E),
         Contract(child, Z, P, S, F, E), NEW mission \in Missions, <<mission, "Skip">> \notin Z,
         S \subseteq AllWork(Needed[mission])
  PROVE  Contract(SkipOnFailure(mission, child), Z, P, Told(mission), {}, E)
<1> DEFINE id == <<mission, "Skip">>
           tick == [s \in States |-> TickSkip(id, child, mission, s)]
           n == Decorator(id, child, tick)
           X == n.below
<1>1. SkipOnFailure(mission, child) = n
  BY DEF SkipOnFailure
<1>2. Plain(id)
  BY PairsArePlain
<1>3. \A s \in Good : tick[s] = TickSkip(id, child, mission, s)
  BY GoodIsState
<1>4. Lasting(Told(mission))
  BY SimpleFacts, FactsLast
<1> HIDE DEF tick, id
<1>5. ASSUME NEW s \in Good, id \in Ids, s \in P, Fulfils(child, S, F, E, s, child.tick[s])
      PROVE  Fulfils(n, Told(mission), {}, E, s, tick[s])
  <2> DEFINE kid == child.tick[s]
             outcome == IF kid.status = "FAILURE" THEN "skipped" ELSE "success"
             u == Outcome(mission, outcome, kid.s)
  <2>1. X = {id} \cup child.below /\ Moves(X, E, s, kid.s) /\ kid.s \in Good
    BY <1>5, AfterChild
  <2>2. kid.status \in Statuses /\ (kid.status = "SUCCESS" => kid.s \in S)
    BY <1>5 DEF Fulfils
  <2>3. TickSkip(id, child, mission, s) =
          IF kid.status = "RUNNING" THEN Goes(id, 0, kid.s) ELSE Done(id, "SUCCESS", u)
    BY DEF TickSkip, Outcome
  <2> HIDE DEF kid, n, u
  <2>4. CASE kid.status # "RUNNING"
    <3> DEFINE d == Done(id, "SUCCESS", u)
    <3>1. TickSkip(id, child, mission, s) = d
      BY <2>3, <2>4
    <3>2. outcome \in {"success", "skipped"}
          /\ (outcome = "success" => kid.s \in AllWork(Needed[mission]))
      BY <2>2, <2>4 DEF Statuses
    <3> HIDE DEF outcome
    <3>3. Moves(X, E, kid.s, u) /\ u \in Told(mission)
      BY <2>1, <3>2, OutcomeMoves DEF u
    <3>4. d.status = "SUCCESS" /\ Leaves(X, E, u, d)
      BY <2>1, <3>3, DoneMoves DEF Moves
    <3> HIDE DEF d
    <3>5. Moves(X, E, u, d.s)
      BY <3>4 DEF Leaves
    <3>6. Moves(X, E, s, d.s)
      <4>1. Moves(X, E, s, u)
        BY <2>1, <3>3, MovesChain
      <4> QED
        BY <3>5, <4>1, MovesChain
    <3>7. d.s \in Told(mission)
      BY <1>4, <3>3, <3>5, FactsStay
    <3> QED
      BY <1>3, <3>1, <3>4, <3>6, <3>7 DEF Fulfils, Statuses
  <2>5. CASE kid.status = "RUNNING"
    <3> DEFINE g == Goes(id, 0, kid.s)
    <3>1. TickSkip(id, child, mission, s) = g
      BY <2>3, <2>5
    <3>2. Sound(id, 0, kid.s) /\ kid.s \in States /\ 0 \in Nat
      BY <1>2, <2>1, GoodIsState DEF Plain
    <3>3. g.status = "RUNNING" /\ Leaves(X, E, kid.s, g)
      BY <1>5, <2>1, <3>2, GoesMoves
    <3> HIDE DEF g
    <3>4. Moves(X, E, kid.s, g.s)
      BY <3>3 DEF Leaves
    <3>5. Moves(X, E, s, g.s)
      BY <2>1, <3>4, MovesChain
    <3> QED
      BY <1>3, <3>1, <3>3, <3>5 DEF Fulfils, Statuses
  <2> QED
    BY <2>4, <2>5
<1>6. id \notin Z
  BY DEF id
<1>7. Contract(n, Z, P, Told(mission), {}, E)
  BY <1>5, <1>6, DecoratorContract
<1> QED
  BY <1>1, <1>7

\* A mission slot never fails, and the mission has an outcome after it.
LEMMA SlotContract ==
  ASSUME NEW tree, NEW Z, NEW S, Lasting(S), NEW F, NEW E, Lasting(E),
         Contract(tree, Z, States, S, F, E), NEW mission \in Missions,
         \A what \in {"Deadline", "Attempts", "Skip", "disabled"} : <<mission, what>> \notin Z,
         S \subseteq AllWork(Needed[mission])
  PROVE  Contract(MissionSlot(mission, tree), Z, States, MissionFacts(mission), {}, E)
<1> DEFINE timed == Deadline(mission, tree)
           attempts == Attempts[mission]
           budget == AttemptBudget(mission, timed, attempts)
<1>1. attempts \in Nat \ {0}
  BY MissionsAssumption
<1>2. Contract(timed, Z, States, S, States, E)
  BY DeadlineContract
<1> HIDE DEF timed, attempts
<1>3. Contract(budget, Z, States, S, States, E)
  BY <1>1, <1>2, RetryContract
<1> HIDE DEF budget
<1>4. Contract(guarded(mission, tree, attempts), Z, States, Told(mission), {}, E)
  <2>1. Contract(SkipOnFailure(mission, timed), Z, States, Told(mission), {}, E)
    BY <1>2, SkipContract
  <2>2. Contract(SkipOnFailure(mission, budget), Z, States, Told(mission), {}, E)
    BY <1>3, SkipContract
  <2>3. guarded(mission, tree, attempts) =
          SkipOnFailure(mission, IF attempts > 1 THEN budget ELSE timed)
    BY DEF guarded, budget, timed
  <2>4. CASE attempts > 1
    <3>1. guarded(mission, tree, attempts) = SkipOnFailure(mission, budget)
      BY <2>3, <2>4
    <3> QED
      BY <2>2, <3>1
  <2>5. CASE ~(attempts > 1)
    <3>1. guarded(mission, tree, attempts) = SkipOnFailure(mission, timed)
      BY <2>3, <2>5
    <3> QED
      BY <2>1, <3>1
  <2> QED
    BY <2>4, <2>5
<1>5. CASE mission \in Enabled
  <2>1. MissionSlot(mission, tree) = guarded(mission, tree, attempts)
    BY <1>5 DEF MissionSlot, attempts
  <2>2. Told(mission) \subseteq MissionFacts(mission)
    BY DEF Told, MissionFacts
  <2>3. {} \subseteq {} /\ Z \subseteq Z /\ States \subseteq States
    OBVIOUS
  <2> QED
    BY <1>4, <2>1, <2>2, <2>3, Weaker
<1>6. CASE mission \notin Enabled
  <2> DEFINE stub == Stub(<<mission, "disabled">>, "success", 1)
  <2>1. MissionSlot(mission, tree) = stub
    BY <1>6 DEF MissionSlot
  <2>2. Contract(stub, Z, States, States, {}, E)
    <3>1. Plain(<<mission, "disabled">>)
      BY PairsArePlain
    <3> QED
      BY <3>1, StubContract
  <2> HIDE DEF stub
  <2>3. States \subseteq MissionFacts(mission)
    BY <1>6 DEF MissionFacts
  <2>4. {} \subseteq {} /\ Z \subseteq Z /\ States \subseteq States
    OBVIOUS
  <2> QED
    BY <2>1, <2>2, <2>3, <2>4, Weaker
<1> QED
  BY <1>5, <1>6

-----------------------------------------------------------------------------
(* The parts of a mission *)

\* The nodes above the missions.
Spine == {
  <<"Root">>, <<"SafetyOverride">>, <<"Emergency?">>, <<"EmergencyLand">>, <<"Idle">>,
  <<"FlightPlanRunner">>, <<"Run FlightA">>, <<"Run FlightB">>, <<"Plan is", "flight_a">>,
  <<"Plan is", "flight_b">>, <<"FlightA">>, <<"FlightB">>, <<"FlightA", "ArmAndTakeoff">>,
  <<"FlightB", "ArmAndTakeoff">>}
SpineNames == {
  "Root", "SafetyOverride", "Emergency?", "EmergencyLand", "Idle", "FlightPlanRunner",
  "Run FlightA", "Run FlightB", "Plan is", "FlightA", "FlightB"}

LEMMA OffSpine ==
  ASSUME NEW name, name \notin SpineNames
  PROVE  <<name>> \notin Spine /\ \A what : <<name, what>> \notin Spine
  BY DEF Spine, SpineNames

\* The composites whose number says something.
FactNames == {
  "Window A red", "Window A blue", "Red bar high", "Red bar middle", "Blue bars low",
  "Blue bars middle", "Tubes", "Window B red", "Window B blue", "Enter room via red",
  "Enter room via blue", "Exit room via red", "Exit room via blue", "Land on Moving platform",
  "Land on Static platform", "Window A", "Red bar", "Blue bars", "Window B", "Enter room",
  "Exit room", "Tube passage", "Precision Landing", "Mission 2", "Mission 3", "Mission 4",
        "FlightA", "FlightB"}

LEMMA NoFacts ==
  ASSUME NEW name, name \notin FactNames
  PROVE  Past(<<name>>) = << >> /\ Plain(<<name>>)
<1>1. FactsOf(name) = << >>
  BY DEF FactsOf, FactNames
<1>2. Past(<<name>>) = << >>
  BY <1>1 DEF Past
<1> QED
  BY <1>2 DEF Plain, Sound

LEMMA ContractMeets ==
  ASSUME NEW n, NEW Z, NEW P, NEW S, NEW F, NEW E, Contract(n, Z, P, S, F, E),
         NEW Q, Q \subseteq P, NEW On, NEW Off
  PROVE  /\ S \subseteq On /\ F \subseteq Off => Meets(n, Z, Q, "SUCCESS", On, Off, E)
         /\ F \subseteq On /\ S \subseteq Off => Meets(n, Z, Q, "FAILURE", On, Off, E)
<1>0. Z \subseteq Z
  OBVIOUS
<1>1. S \subseteq On /\ F \subseteq Off => Contract(n, Z, Q, On, Off, E)
  BY <1>0, Weaker
<1>2. F \subseteq On /\ S \subseteq Off => Contract(n, Z, Q, Off, On, E)
  BY <1>0, Weaker
<1> QED
  BY <1>1, <1>2 DEF Meets

LEMMA StepMeets ==
  ASSUME NEW Z, NEW id, id \notin Z, Plain(id), NEW key, NEW Q, Q \subseteq States,
         NEW On, Works(key) \subseteq On, NEW Off, OneFails({key}) \subseteq Off, NEW E
  PROVE  Meets(Step(id, key), Z, Q, "SUCCESS", On, Off, E)
  BY StepContract, ContractMeets

LEMMA MarkMeets ==
  ASSUME NEW Z, NEW objective \in Objectives, <<"Mark", objective>> \notin Z,
         NEW P, Lasting(P), P \subseteq Reason(objective), NEW Q, Q \subseteq P,
         NEW On, Scored(objective) \subseteq On, NEW Off, NEW E, Lasting(E)
  PROVE  Meets(MarkObjective(objective), Z, Q, "SUCCESS", On, Off, E)
<1>1. Contract(MarkObjective(objective), Z, P, Scored(objective), {}, E)
  BY MarkContract
<1>2. {} \subseteq Off
  OBVIOUS
<1> QED
  BY <1>1, <1>2, ContractMeets

\* A composite whose number says what its children left.
LEMMA RemembersPast ==
  ASSUME NEW id, NEW memory, NEW N \in Nat, Len(Past(id)) = N
  PROVE  Remembers(id, memory, N, Past(id))
  BY DEF Remembers

\* A composite whose number says nothing, of children that need nothing from each other.
LEMMA RemembersNothing ==
  ASSUME NEW id, Past(id) = << >>, NEW memory, NEW N \in Nat, NEW on,
         memory => \A j \in 1..N : on[j] = States
  PROVE  Remembers(id, memory, N, on)
  BY DEF Remembers

LEMMA UpStates == \A P, on, i : P \subseteq States => Up(P, on, i) \subseteq States
  BY DEF Up

\* Detect, traverse, mark: the objective is scored where P and both steps explain it.
LEMMA GateContract ==
  ASSUME NEW Z, NEW label, NEW objective \in Objectives, NEW detect, NEW traverse,
         <<label>> \notin Z, <<label, detect>> \notin Z, <<label, traverse>> \notin Z,
         <<"Mark", objective>> \notin Z,
         FactsOf(label) = GateFacts(objective, detect, traverse),
         NEW P, Lasting(P),
         \A s \in P : s \in Works(detect) /\ s \in Works(traverse) => s \in Reason(objective),
         NEW E, Lasting(E)
  PROVE  Contract(GateOption(label, objective, detect, traverse), Z, P, States,
                  OneFails({detect, traverse}), E)
<1> DEFINE a == Step(<<label, detect>>, detect)
           b == Step(<<label, traverse>>, traverse)
           c == MarkObjective(objective)
           kids == <<a, b, c>>
           on == GateFacts(objective, detect, traverse)
           Off == OneFails({detect, traverse})
           id == <<label>>
<1>1. Lasting(Off) /\ Lasting(Works(detect)) /\ Lasting(Works(traverse)) /\ Lasting(Scored(objective))
  BY SimpleFacts, FactsLast
<1>2. on[1] = Works(detect) /\ on[2] = Works(traverse) /\ on[3] = Scored(objective) /\ Len(on) = 3
  BY DEF GateFacts
<1>3. Past(id) = on
  BY DEF Past
<1>4. OneFails({detect}) \subseteq Off /\ OneFails({traverse}) \subseteq Off
  BY DEF OneFails
<1>5. P \subseteq States
  BY DEF Lasting
<1>6. Plain(<<label, detect>>) /\ Plain(<<label, traverse>>)
  BY PairsArePlain
<1> HIDE DEF on, Off
<1>7. Meets(a, Z, Up(P, on, 1), "SUCCESS", on[1], Off, E)
  <2>1. Up(P, on, 1) \subseteq States
    BY <1>5, UpStates
  <2> QED
    BY <1>2, <1>4, <1>6, <2>1, StepMeets
<1>8. Meets(b, Z, Up(P, on, 2), "SUCCESS", on[2], Off, E)
  <2>1. Up(P, on, 2) \subseteq States
    BY <1>5, UpStates
  <2> QED
    BY <1>2, <1>4, <1>6, <2>1, StepMeets
<1>9. Meets(c, Z, Up(P, on, 3), "SUCCESS", on[3], Off, E)
  <2> DEFINE Q == {s \in P : s \in Works(detect) /\ s \in Works(traverse)}
  <2>1. Lasting(Q)
    BY <1>1 DEF Lasting
  <2>2. Q \subseteq Reason(objective)
    OBVIOUS
  <2>3. Up(P, on, 3) \subseteq Q
    BY <1>2 DEF Up
  <2> HIDE DEF Q
  <2> QED
    BY <1>2, <2>1, <2>2, <2>3, MarkMeets
<1> HIDE DEF a, b, c
<1>10. BuildOn(kids, Z, P, "SUCCESS", on, Off, E)
  <2>1. Len(kids) = 3 /\ DOMAIN kids = 1..3 /\ kids[1] = a /\ kids[2] = b /\ kids[3] = c
    OBVIOUS
  <2> HIDE DEF kids
  <2>2. \A i \in 1..3 : i = 1 \/ i = 2 \/ i = 3
    OBVIOUS
  <2>3. \A i \in 1..Len(kids) :
          Lasting(on[i]) /\ Meets(kids[i], Z, Up(P, on, i), "SUCCESS", on[i], Off, E)
    BY <1>1, <1>2, <1>7, <1>8, <1>9, <2>1, <2>2
  <2> QED
    BY <1>1, <2>1, <2>3 DEF BuildOn
<1>11. Remembers(id, TRUE, Len(kids), on)
  <2>1. Len(kids) = 3
    OBVIOUS
  <2> HIDE DEF id, kids
  <2> QED
    BY <1>2, <1>3, <2>1, RemembersPast
<1>12. Up(P, on, Len(kids) + 1) \subseteq States /\ id \notin Z
  BY <1>5, UpStates
<1>13. GateOption(label, objective, detect, traverse) = Sequence(id, TRUE, kids)
  BY DEF GateOption, a, b, c
<1> HIDE DEF id, kids
<1> QED
  BY <1>10, <1>11, <1>12, <1>13, SequenceContract DEF Off

LEMMA AppendTo ==
  ASSUME NEW a, NEW b, NEW c
  PROVE  Append(<<a>>, c) = <<a, c>> /\ Append(<<a, b>>, c) = <<a, b, c>>
<1> DEFINE T == {a, b, c}
           p == <<a>>
           q == <<a, b>>
<1>1. p \in Seq(T) /\ q \in Seq(T) /\ c \in T /\ <<a, c>> \in Seq(T) /\ <<a, b, c>> \in Seq(T)
  OBVIOUS
<1>2. Len(p) = 1 /\ p[1] = a /\ Len(q) = 2 /\ q[1] = a /\ q[2] = b
  OBVIOUS
<1>3. Len(<<a, c>>) = 2 /\ <<a, c>>[1] = a /\ <<a, c>>[2] = c
      /\ Len(<<a, b, c>>) = 3 /\ <<a, b, c>>[1] = a /\ <<a, b, c>>[2] = b /\ <<a, b, c>>[3] = c
  OBVIOUS
<1> HIDE DEF T, p, q
<1>4. Append(p, c) \in Seq(T) /\ Len(Append(p, c)) = 2
      /\ Append(p, c)[1] = a /\ Append(p, c)[2] = c
  BY <1>1, <1>2, AppendProperties
<1>5. Append(q, c) \in Seq(T) /\ Len(Append(q, c)) = 3
      /\ Append(q, c)[1] = a /\ Append(q, c)[2] = b /\ Append(q, c)[3] = c
  <2>1. Append(q, c) \in Seq(T) /\ Len(Append(q, c)) = Len(q) + 1 /\ Append(q, c)[Len(q) + 1] = c
        /\ \A i \in 1..Len(q) : Append(q, c)[i] = q[i]
    BY <1>1, AppendProperties
  <2>2. 1 \in 1..Len(q) /\ 2 \in 1..Len(q) /\ Len(q) + 1 = 3
    BY <1>2
  <2> QED
    BY <1>2, <2>1, <2>2
<1>6. Append(p, c) = <<a, c>>
  <2>1. \A i \in 1..2 : i = 1 \/ i = 2
    OBVIOUS
  <2> QED
    BY <1>1, <1>3, <1>4, <2>1, SeqEqual
<1>7. Append(q, c) = <<a, b, c>>
  <2>1. \A i \in 1..3 : i = 1 \/ i = 2 \/ i = 3
    OBVIOUS
  <2> QED
    BY <1>1, <1>3, <1>5, <2>1, SeqEqual
<1> QED
  BY <1>6, <1>7 DEF p, q

\* Three options, of which the last cannot fail.
LEMMA LadderContract ==
  ASSUME NEW Z, NEW name, <<name>> \notin Z, <<name, "skip">> \notin Z, NEW red, NEW blue, NEW K,
         FactsOf(name) = <<OneFails(K), States, {}>>, NEW E, Lasting(E),
         Contract(red, Z, States, States, OneFails(K), E),
         Contract(blue, Z, OneFails(K), States, States, E)
  PROVE  Contract(Ladder(name, <<red, blue>>), Z, States, States, {}, E)
<1> DEFINE skip == Stub(<<name, "skip">>, "success", 1)
           kids == <<red, blue, skip>>
           on == <<OneFails(K), States, {}>>
           id == <<name>>
<1>1. Lasting(OneFails(K)) /\ Lasting(States) /\ Lasting({})
  BY SimpleFacts, FactsLast
<1>2. Past(id) = on
  BY DEF Past
<1>3. Contract(skip, Z, States, States, {}, E)
  BY PairsArePlain, StubContract
<1>4. Ladder(name, <<red, blue>>) = Selector(id, TRUE, kids)
  BY AppendTo, Zenon DEF Ladder
<1> HIDE DEF skip
<1>5. Up(States, on, 1) \subseteq States /\ Up(States, on, 2) \subseteq OneFails(K)
      /\ Up(States, on, 3) \subseteq States /\ Up(States, on, 4) \subseteq {}
  BY DEF Up
<1>6. on[1] = OneFails(K) /\ on[2] = States /\ on[3] = {} /\ Len(on) = 3
  OBVIOUS
<1>7. OneFails(K) \subseteq OneFails(K) /\ States \subseteq States /\ {} \subseteq {}
  OBVIOUS
<1> HIDE DEF on
<1>8. Meets(red, Z, Up(States, on, 1), "FAILURE", on[1], States, E)
  BY <1>5, <1>6, <1>7, ContractMeets
<1>9. Meets(blue, Z, Up(States, on, 2), "FAILURE", on[2], States, E)
  BY <1>5, <1>6, <1>7, ContractMeets
<1>10. Meets(skip, Z, Up(States, on, 3), "FAILURE", on[3], States, E)
  BY <1>3, <1>5, <1>6, <1>7, ContractMeets
<1>11. Len(kids) = 3 /\ DOMAIN kids = 1..3 /\ kids[1] = red /\ kids[2] = blue /\ kids[3] = skip
  OBVIOUS
<1> HIDE DEF kids, id
<1>12. BuildOn(kids, Z, States, "FAILURE", on, States, E)
  <2>1. \A i \in 1..3 : i = 1 \/ i = 2 \/ i = 3
    OBVIOUS
  <2>2. \A i \in 1..Len(kids) :
          Lasting(on[i]) /\ Meets(kids[i], Z, Up(States, on, i), "FAILURE", on[i], States, E)
    BY <1>1, <1>6, <1>8, <1>9, <1>10, <1>11, <2>1
  <2> QED
    BY <1>1, <1>11, <2>2 DEF BuildOn
<1>13. Remembers(id, TRUE, Len(kids), on)
  BY <1>2, <1>6, <1>11, RemembersPast
<1>14. id \notin Z /\ Up(States, on, Len(kids) + 1) \subseteq {}
  BY <1>5, <1>11 DEF id
<1>15. Contract(Selector(id, TRUE, kids), Z, States, States, {}, E)
  BY <1>12, <1>13, <1>14, SelectorContract
<1> QED
  BY <1>4, <1>15

\* Two options, and a failure when neither works out.
LEMMA WindowLadderContract ==
  ASSUME NEW Z, NEW name, <<name>> \notin Z, NEW red, NEW blue, NEW K,
         FactsOf(name) = <<OneFails(K), States>>, NEW E, Lasting(E),
         Contract(red, Z, States, States, OneFails(K), E),
         Contract(blue, Z, OneFails(K), States, States, E)
  PROVE  Contract(WindowLadder(name, red, blue), Z, States, States, States, E)
<1> DEFINE kids == <<red, blue>>
           on == <<OneFails(K), States>>
           id == <<name>>
<1>1. Lasting(OneFails(K)) /\ Lasting(States)
  BY SimpleFacts, FactsLast
<1>2. Past(id) = on
  BY DEF Past
<1>4. WindowLadder(name, red, blue) = Selector(id, TRUE, kids)
  BY DEF WindowLadder
<1>5. Up(States, on, 1) \subseteq States /\ Up(States, on, 2) \subseteq OneFails(K)
      /\ Up(States, on, 3) \subseteq States
  BY DEF Up
<1>6. on[1] = OneFails(K) /\ on[2] = States /\ Len(on) = 2
  OBVIOUS
<1>7. OneFails(K) \subseteq OneFails(K) /\ States \subseteq States
  OBVIOUS
<1> HIDE DEF on
<1>8. Meets(red, Z, Up(States, on, 1), "FAILURE", on[1], States, E)
  BY <1>5, <1>6, <1>7, ContractMeets
<1>9. Meets(blue, Z, Up(States, on, 2), "FAILURE", on[2], States, E)
  BY <1>5, <1>6, <1>7, ContractMeets
<1>11. Len(kids) = 2 /\ DOMAIN kids = 1..2 /\ kids[1] = red /\ kids[2] = blue
  OBVIOUS
<1> HIDE DEF kids, id
<1>12. BuildOn(kids, Z, States, "FAILURE", on, States, E)
  <2>1. \A i \in 1..2 : i = 1 \/ i = 2
    OBVIOUS
  <2>2. \A i \in 1..Len(kids) :
          Lasting(on[i]) /\ Meets(kids[i], Z, Up(States, on, i), "FAILURE", on[i], States, E)
    BY <1>1, <1>6, <1>8, <1>9, <1>11, <2>1
  <2> QED
    BY <1>1, <1>11, <2>2 DEF BuildOn
<1>13. Remembers(id, TRUE, Len(kids), on)
  BY <1>2, <1>6, <1>11, RemembersPast
<1>14. id \notin Z /\ Up(States, on, Len(kids) + 1) \subseteq States
  BY <1>5, <1>11 DEF id
<1>15. Contract(Selector(id, TRUE, kids), Z, States, States, States, E)
  BY <1>12, <1>13, <1>14, SelectorContract
<1> QED
  BY <1>4, <1>15

\* One option, and a last that cannot fail.
LEMMA ShortLadderContract ==
  ASSUME NEW Z, NEW name, <<name>> \notin Z, <<name, "skip">> \notin Z, NEW option,
         FactsOf(name) = <<States, {}>>, NEW E, Lasting(E),
         Contract(option, Z, States, States, States, E)
  PROVE  Contract(Ladder(name, <<option>>), Z, States, States, {}, E)
<1> DEFINE skip == Stub(<<name, "skip">>, "success", 1)
           kids == <<option, skip>>
           on == <<States, {}>>
           id == <<name>>
<1>1. Lasting(States) /\ Lasting({})
  BY SimpleFacts, FactsLast
<1>2. Past(id) = on
  BY DEF Past
<1>3. Contract(skip, Z, States, States, {}, E)
  BY PairsArePlain, StubContract
<1>4. Ladder(name, <<option>>) = Selector(id, TRUE, kids)
  BY AppendTo, Zenon DEF Ladder
<1> HIDE DEF skip
<1>5. Up(States, on, 1) \subseteq States /\ Up(States, on, 2) \subseteq States
      /\ Up(States, on, 3) \subseteq {}
  BY DEF Up
<1>6. on[1] = States /\ on[2] = {} /\ Len(on) = 2
  OBVIOUS
<1>7. {} \subseteq {} /\ States \subseteq States
  OBVIOUS
<1> HIDE DEF on
<1>8. Meets(option, Z, Up(States, on, 1), "FAILURE", on[1], States, E)
  BY <1>5, <1>6, <1>7, ContractMeets
<1>9. Meets(skip, Z, Up(States, on, 2), "FAILURE", on[2], States, E)
  BY <1>3, <1>5, <1>6, <1>7, ContractMeets
<1>11. Len(kids) = 2 /\ DOMAIN kids = 1..2 /\ kids[1] = option /\ kids[2] = skip
  OBVIOUS
<1> HIDE DEF kids, id
<1>12. BuildOn(kids, Z, States, "FAILURE", on, States, E)
  <2>1. \A i \in 1..2 : i = 1 \/ i = 2
    OBVIOUS
  <2>2. \A i \in 1..Len(kids) :
          Lasting(on[i]) /\ Meets(kids[i], Z, Up(States, on, i), "FAILURE", on[i], States, E)
    BY <1>1, <1>6, <1>8, <1>9, <1>11, <2>1
  <2> QED
    BY <1>1, <1>11, <2>2 DEF BuildOn
<1>13. Remembers(id, TRUE, Len(kids), on)
  BY <1>2, <1>6, <1>11, RemembersPast
<1>14. id \notin Z /\ Up(States, on, Len(kids) + 1) \subseteq {}
  BY <1>5, <1>11 DEF id
<1>15. Contract(Selector(id, TRUE, kids), Z, States, States, {}, E)
  BY <1>12, <1>13, <1>14, SelectorContract
<1> QED
  BY <1>4, <1>15

-----------------------------------------------------------------------------
(* Mission 1 *)

\* Two ways past an obstacle: the better one is scored when its steps work, the other when one
\* of them failed.
Paired(red, redGoal, d, t, blue, blueGoal, u, v) ==
  /\ red \notin SpineNames /\ blue \notin SpineNames
  /\ redGoal \in Objectives /\ blueGoal \in Objectives
  /\ FactsOf(red) = GateFacts(redGoal, d, t) /\ FactsOf(blue) = GateFacts(blueGoal, u, v)
  /\ Reason(redGoal) = AllWork({d, t}) /\ Reason(blueGoal) = OneFails({d, t})

LEMMA OptionContracts ==
  ASSUME NEW red, NEW redGoal, NEW d, NEW t, NEW blue, NEW blueGoal, NEW u, NEW v,
         Paired(red, redGoal, d, t, blue, blueGoal, u, v), NEW E, Lasting(E)
  PROVE  /\ Contract(GateOption(red, redGoal, d, t), Spine, States, States, OneFails({d, t}), E)
         /\ Contract(GateOption(blue, blueGoal, u, v), Spine, OneFails({d, t}), States, States, E)
<1>0. /\ red \notin SpineNames /\ blue \notin SpineNames
      /\ redGoal \in Objectives /\ blueGoal \in Objectives
      /\ FactsOf(red) = GateFacts(redGoal, d, t) /\ FactsOf(blue) = GateFacts(blueGoal, u, v)
      /\ Reason(redGoal) = AllWork({d, t}) /\ Reason(blueGoal) = OneFails({d, t})
  BY DEF Paired
<1>1. Lasting(States) /\ Lasting(OneFails({d, t}))
  BY SimpleFacts, FactsLast
<1>2. "Mark" \notin SpineNames
  BY DEF SpineNames
<1>3. <<red>> \notin Spine /\ <<red, d>> \notin Spine /\ <<red, t>> \notin Spine
      /\ <<blue>> \notin Spine /\ <<blue, u>> \notin Spine /\ <<blue, v>> \notin Spine
      /\ <<"Mark", redGoal>> \notin Spine /\ <<"Mark", blueGoal>> \notin Spine
  BY <1>0, <1>2, OffSpine
<1>4. \A s \in States : s \in Works(d) /\ s \in Works(t) => s \in Reason(redGoal)
  BY <1>0 DEF AllWork
<1>5. \A s \in OneFails({d, t}) : s \in Works(u) /\ s \in Works(v) => s \in Reason(blueGoal)
  BY <1>0
<1>6. Contract(GateOption(red, redGoal, d, t), Spine, States, States, OneFails({d, t}), E)
  BY <1>0, <1>1, <1>3, <1>4, GateContract
<1>7. Contract(GateOption(blue, blueGoal, u, v), Spine, OneFails({d, t}), States, OneFails({u, v}), E)
  BY <1>0, <1>1, <1>3, <1>5, GateContract
<1>8. OneFails({u, v}) \subseteq States
  BY DEF OneFails
<1>9. Spine \subseteq Spine /\ OneFails({d, t}) \subseteq OneFails({d, t}) /\ States \subseteq States
  OBVIOUS
<1>10. Contract(GateOption(blue, blueGoal, u, v), Spine, OneFails({d, t}), States, States, E)
  BY <1>7, <1>8, <1>9, Weaker
<1> QED
  BY <1>6, <1>10

LEMMA PanelContract ==
  ASSUME NEW red, NEW redGoal, NEW d, NEW t, NEW blue, NEW blueGoal, NEW u, NEW v,
         Paired(red, redGoal, d, t, blue, blueGoal, u, v), NEW E, Lasting(E),
         NEW name, name \notin SpineNames, FactsOf(name) = <<OneFails({d, t}), States, {}>>
  PROVE  Contract(Ladder(name, <<GateOption(red, redGoal, d, t), GateOption(blue, blueGoal, u, v)>>),
                  Spine, States, States, {}, E)
  BY OptionContracts, OffSpine, LadderContract

LEMMA RoomContract ==
  ASSUME NEW red, NEW redGoal, NEW d, NEW t, NEW blue, NEW blueGoal, NEW u, NEW v,
         Paired(red, redGoal, d, t, blue, blueGoal, u, v), NEW E, Lasting(E),
         NEW name, name \notin SpineNames, FactsOf(name) = <<OneFails({d, t}), States>>
  PROVE  Contract(WindowLadder(name, GateOption(red, redGoal, d, t), GateOption(blue, blueGoal, u, v)),
                  Spine, States, States, States, E)
  BY OptionContracts, OffSpine, WindowLadderContract

LEMMA WindowAContract ==
  ASSUME NEW E, Lasting(E)
  PROVE  Contract(WindowPanel("Window A",
    GateOption("Window A red", "m1.window_a_red", "DetectWindowARed", "TraverseWindowARed"),
    GateOption("Window A blue", "m1.window_a_blue", "DetectWindowABlue", "TraverseWindowABlue")),
          Spine, States, States, {}, E)
<1> DEFINE name == "Window A"
           red == "Window A red"
           redGoal == "m1.window_a_red"
           d == "DetectWindowARed"
           t == "TraverseWindowARed"
           blue == "Window A blue"
           blueGoal == "m1.window_a_blue"
           u == "DetectWindowABlue"
           v == "TraverseWindowABlue"
<1>1. red \notin SpineNames /\ blue \notin SpineNames /\ name \notin SpineNames
      /\ redGoal \in Objectives /\ blueGoal \in Objectives
  BY DEF SpineNames, Objectives
<1>2. FactsOf(red) = GateFacts(redGoal, d, t) /\ FactsOf(blue) = GateFacts(blueGoal, u, v)
      /\ FactsOf(name) = <<OneFails({d, t}), States, {}>>
  BY DEF FactsOf, WindowARed
<1>3. Reason(redGoal) = AllWork({d, t}) /\ Reason(blueGoal) = OneFails({d, t})
  BY DEF Reason, WindowARed
<1> HIDE DEF name, red, redGoal, d, t, blue, blueGoal, u, v
<1>4. Paired(red, redGoal, d, t, blue, blueGoal, u, v)
  BY <1>1, <1>2, <1>3 DEF Paired
<1> QED
  BY <1>1, <1>2, <1>4, PanelContract DEF WindowPanel, name, red, redGoal, d, t, blue, blueGoal, u, v

LEMMA RedBarContract ==
  ASSUME NEW E, Lasting(E)
  PROVE  Contract(Ladder("Red bar", <<
    GateOption("Red bar high", "m1.bar_red_high", "DetectRedBar", "CrossRedBarHigh"),
    GateOption("Red bar middle", "m1.bar_red_middle", "DetectRedBar", "CrossRedBarMiddle")>>),
          Spine, States, States, {}, E)
<1> DEFINE name == "Red bar"
           red == "Red bar high"
           redGoal == "m1.bar_red_high"
           d == "DetectRedBar"
           t == "CrossRedBarHigh"
           blue == "Red bar middle"
           blueGoal == "m1.bar_red_middle"
           u == "DetectRedBar"
           v == "CrossRedBarMiddle"
<1>1. red \notin SpineNames /\ blue \notin SpineNames /\ name \notin SpineNames
      /\ redGoal \in Objectives /\ blueGoal \in Objectives
  BY DEF SpineNames, Objectives
<1>2. FactsOf(red) = GateFacts(redGoal, d, t) /\ FactsOf(blue) = GateFacts(blueGoal, u, v)
      /\ FactsOf(name) = <<OneFails({d, t}), States, {}>>
  BY DEF FactsOf, RedBarHigh
<1>3. Reason(redGoal) = AllWork({d, t}) /\ Reason(blueGoal) = OneFails({d, t})
  BY DEF Reason, RedBarHigh
<1> HIDE DEF name, red, redGoal, d, t, blue, blueGoal, u, v
<1>4. Paired(red, redGoal, d, t, blue, blueGoal, u, v)
  BY <1>1, <1>2, <1>3 DEF Paired
<1> QED
  BY <1>1, <1>2, <1>4, PanelContract DEF name, red, redGoal, d, t, blue, blueGoal, u, v

LEMMA BlueBarsContract ==
  ASSUME NEW E, Lasting(E)
  PROVE  Contract(Ladder("Blue bars", <<
    GateOption("Blue bars low", "m1.bar_blue_low", "DetectBlueBars", "CrossBlueBarsLow"),
    GateOption("Blue bars middle", "m1.bar_blue_middle", "DetectBlueBars",
          "CrossBlueBarsMiddle")>>), Spine, States, States, {}, E)
<1> DEFINE name == "Blue bars"
           red == "Blue bars low"
           redGoal == "m1.bar_blue_low"
           d == "DetectBlueBars"
           t == "CrossBlueBarsLow"
           blue == "Blue bars middle"
           blueGoal == "m1.bar_blue_middle"
           u == "DetectBlueBars"
           v == "CrossBlueBarsMiddle"
<1>1. red \notin SpineNames /\ blue \notin SpineNames /\ name \notin SpineNames
      /\ redGoal \in Objectives /\ blueGoal \in Objectives
  BY DEF SpineNames, Objectives
<1>2. FactsOf(red) = GateFacts(redGoal, d, t) /\ FactsOf(blue) = GateFacts(blueGoal, u, v)
      /\ FactsOf(name) = <<OneFails({d, t}), States, {}>>
  BY DEF FactsOf, BlueBarsLow
<1>3. Reason(redGoal) = AllWork({d, t}) /\ Reason(blueGoal) = OneFails({d, t})
  BY DEF Reason, BlueBarsLow
<1> HIDE DEF name, red, redGoal, d, t, blue, blueGoal, u, v
<1>4. Paired(red, redGoal, d, t, blue, blueGoal, u, v)
  BY <1>1, <1>2, <1>3 DEF Paired
<1> QED
  BY <1>1, <1>2, <1>4, PanelContract DEF name, red, redGoal, d, t, blue, blueGoal, u, v

LEMMA WindowBContract ==
  ASSUME NEW E, Lasting(E)
  PROVE  Contract(WindowPanel("Window B",
    GateOption("Window B red", "m1.window_b_red", "DetectWindowBRed", "TraverseWindowBRed"),
    GateOption("Window B blue", "m1.window_b_blue", "DetectWindowBBlue", "TraverseWindowBBlue")),
          Spine, States, States, {}, E)
<1> DEFINE name == "Window B"
           red == "Window B red"
           redGoal == "m1.window_b_red"
           d == "DetectWindowBRed"
           t == "TraverseWindowBRed"
           blue == "Window B blue"
           blueGoal == "m1.window_b_blue"
           u == "DetectWindowBBlue"
           v == "TraverseWindowBBlue"
<1>1. red \notin SpineNames /\ blue \notin SpineNames /\ name \notin SpineNames
      /\ redGoal \in Objectives /\ blueGoal \in Objectives
  BY DEF SpineNames, Objectives
<1>2. FactsOf(red) = GateFacts(redGoal, d, t) /\ FactsOf(blue) = GateFacts(blueGoal, u, v)
      /\ FactsOf(name) = <<OneFails({d, t}), States, {}>>
  BY DEF FactsOf, WindowBRed
<1>3. Reason(redGoal) = AllWork({d, t}) /\ Reason(blueGoal) = OneFails({d, t})
  BY DEF Reason, WindowBRed
<1> HIDE DEF name, red, redGoal, d, t, blue, blueGoal, u, v
<1>4. Paired(red, redGoal, d, t, blue, blueGoal, u, v)
  BY <1>1, <1>2, <1>3 DEF Paired
<1> QED
  BY <1>1, <1>2, <1>4, PanelContract DEF WindowPanel, name, red, redGoal, d, t, blue, blueGoal, u, v

LEMMA TubeContract ==
  ASSUME NEW E, Lasting(E)
  PROVE  Contract(Ladder("Tube passage",
                         <<GateOption("Tubes", "m1.tubes", "DetectTubes", "CrossTubes")>>),
                  Spine, States, States, {}, E)
<1> DEFINE name == "Tube passage"
           label == "Tubes"
           goal == "m1.tubes"
           d == "DetectTubes"
           t == "CrossTubes"
<1>1. label \notin SpineNames /\ name \notin SpineNames /\ "Mark" \notin SpineNames
      /\ goal \in Objectives
  BY DEF SpineNames, Objectives
<1>2. FactsOf(label) = GateFacts(goal, d, t) /\ FactsOf(name) = <<States, {}>>
  BY DEF FactsOf
<1>3. Reason(goal) = States
  BY DEF Reason
<1> HIDE DEF name, label, goal, d, t
<1>4. <<label>> \notin Spine /\ <<label, d>> \notin Spine /\ <<label, t>> \notin Spine
      /\ <<"Mark", goal>> \notin Spine /\ <<name>> \notin Spine /\ <<name, "skip">> \notin Spine
  BY <1>1, OffSpine
<1>5. Lasting(States) /\ OneFails({d, t}) \subseteq States
  BY SimpleFacts, FactsLast DEF OneFails
<1>6. Contract(GateOption(label, goal, d, t), Spine, States, States, OneFails({d, t}), E)
  BY <1>1, <1>2, <1>3, <1>4, <1>5, GateContract
<1>7. Spine \subseteq Spine /\ States \subseteq States
  OBVIOUS
<1>8. Contract(GateOption(label, goal, d, t), Spine, States, States, States, E)
  BY <1>5, <1>6, <1>7, Weaker
<1>9. Contract(Ladder(name, <<GateOption(label, goal, d, t)>>), Spine, States, States, {}, E)
  BY <1>2, <1>4, <1>8, ShortLadderContract
<1> QED
  BY <1>9 DEF name, label, goal, d, t

\* The number of mission 1 says nothing: its ladders cannot fail.
LEMMA Mission1Contract ==
  ASSUME NEW E, Lasting(E)
  PROVE  Contract(Mission1, Spine, States, States, {}, E)
<1> DEFINE a == WindowPanel("Window A",
             GateOption("Window A red", "m1.window_a_red", "DetectWindowARed", "TraverseWindowARed"),
             GateOption("Window A blue", "m1.window_a_blue", "DetectWindowABlue",
                   "TraverseWindowABlue"))
           b == Ladder("Red bar", <<
             GateOption("Red bar high", "m1.bar_red_high", "DetectRedBar", "CrossRedBarHigh"),
             GateOption("Red bar middle", "m1.bar_red_middle", "DetectRedBar", "CrossRedBarMiddle")>>)
           c == Ladder("Blue bars", <<
             GateOption("Blue bars low", "m1.bar_blue_low", "DetectBlueBars", "CrossBlueBarsLow"),
             GateOption("Blue bars middle", "m1.bar_blue_middle", "DetectBlueBars",
                        "CrossBlueBarsMiddle")>>)
           d == Ladder("Tube passage",
                       <<GateOption("Tubes", "m1.tubes", "DetectTubes", "CrossTubes")>>)
           e == WindowPanel("Window B",
             GateOption("Window B red", "m1.window_b_red", "DetectWindowBRed", "TraverseWindowBRed"),
             GateOption("Window B blue", "m1.window_b_blue", "DetectWindowBBlue",
                        "TraverseWindowBBlue"))
           kids == <<a, b, c, d, e>>
           on == [i \in 1..5 |-> States]
           id == <<"Mission 1">>
<1>1. \A n \in {a, b, c, d, e} : Contract(n, Spine, States, States, {}, E)
  <2>1. Contract(a, Spine, States, States, {}, E)
    BY WindowAContract
  <2>2. Contract(b, Spine, States, States, {}, E)
    BY RedBarContract
  <2>3. Contract(c, Spine, States, States, {}, E)
    BY BlueBarsContract
  <2>4. Contract(d, Spine, States, States, {}, E)
    BY TubeContract
  <2>5. Contract(e, Spine, States, States, {}, E)
    BY WindowBContract
  <2> HIDE DEF a, b, c, d, e
  <2> QED
    BY <2>1, <2>2, <2>3, <2>4, <2>5
<1>2. Mission1 = Sequence(id, TRUE, kids)
  BY DEF Mission1
<1>3. Past(id) = << >> /\ id \notin Spine
  <2>1. "Mission 1" \notin FactNames /\ "Mission 1" \notin SpineNames
    BY DEF FactNames, SpineNames
  <2> QED
    BY <2>1, NoFacts, OffSpine
<1> HIDE DEF a, b, c, d, e, id
<1>4. Len(kids) = 5 /\ DOMAIN kids = 1..5 /\ \A i \in 1..5 : kids[i] \in {a, b, c, d, e}
  OBVIOUS
<1>5. \A i \in 1..5 : on[i] = States
  OBVIOUS
<1> HIDE DEF kids, on
<1>6. Lasting(States) /\ Lasting({})
  BY SimpleFacts, FactsLast
<1>7. ASSUME NEW i \in 1..Len(kids)
      PROVE  Lasting(on[i]) /\ Meets(kids[i], Spine, Up(States, on, i), "SUCCESS", on[i], {}, E)
  <2>1. Up(States, on, i) \subseteq States /\ States \subseteq on[i] /\ {} \subseteq {}
    BY <1>4, <1>5, UpStates
  <2>2. Contract(kids[i], Spine, States, States, {}, E)
    BY <1>1, <1>4
  <2> QED
    BY <1>4, <1>5, <1>6, <2>1, <2>2, ContractMeets
<1>8. BuildOn(kids, Spine, States, "SUCCESS", on, {}, E)
  BY <1>4, <1>6, <1>7 DEF BuildOn
<1>9. Remembers(id, TRUE, Len(kids), on)
  BY <1>3, <1>4, <1>5, RemembersNothing
<1>10. Up(States, on, Len(kids) + 1) \subseteq States
  BY UpStates
<1> QED
  BY <1>2, <1>3, <1>8, <1>9, <1>10, SequenceContract

-----------------------------------------------------------------------------
(* Mission 2 *)

LEMMA EnterRoomContract ==
  ASSUME NEW E, Lasting(E)
  PROVE  Contract(WindowLadder("Enter room",
    GateOption("Enter room via red", "m2.enter_red", "AlignEnterRed", "FlyEnterRed"),
    GateOption("Enter room via blue", "m2.enter_blue", "AlignEnterBlue", "FlyEnterBlue")), Spine,
          States, States, States, E)
<1> DEFINE name == "Enter room"
           red == "Enter room via red"
           redGoal == "m2.enter_red"
           d == "AlignEnterRed"
           t == "FlyEnterRed"
           blue == "Enter room via blue"
           blueGoal == "m2.enter_blue"
           u == "AlignEnterBlue"
           v == "FlyEnterBlue"
<1>1. red \notin SpineNames /\ blue \notin SpineNames /\ name \notin SpineNames
      /\ redGoal \in Objectives /\ blueGoal \in Objectives
  BY DEF SpineNames, Objectives
<1>2. FactsOf(red) = GateFacts(redGoal, d, t) /\ FactsOf(blue) = GateFacts(blueGoal, u, v)
      /\ FactsOf(name) = <<OneFails({d, t}), States>>
  BY DEF FactsOf, EnterRed
<1>3. Reason(redGoal) = AllWork({d, t}) /\ Reason(blueGoal) = OneFails({d, t})
  BY DEF Reason, EnterRed
<1> HIDE DEF name, red, redGoal, d, t, blue, blueGoal, u, v
<1>4. Paired(red, redGoal, d, t, blue, blueGoal, u, v)
  BY <1>1, <1>2, <1>3 DEF Paired
<1> QED
  BY <1>1, <1>2, <1>4, RoomContract DEF name, red, redGoal, d, t, blue, blueGoal, u, v

LEMMA ExitRoomContract ==
  ASSUME NEW E, Lasting(E)
  PROVE  Contract(WindowLadder("Exit room",
    GateOption("Exit room via red", "m2.exit_red", "AlignExitRed", "FlyExitRed"),
    GateOption("Exit room via blue", "m2.exit_blue", "AlignExitBlue", "FlyExitBlue")), Spine,
          States, States, States, E)
<1> DEFINE name == "Exit room"
           red == "Exit room via red"
           redGoal == "m2.exit_red"
           d == "AlignExitRed"
           t == "FlyExitRed"
           blue == "Exit room via blue"
           blueGoal == "m2.exit_blue"
           u == "AlignExitBlue"
           v == "FlyExitBlue"
<1>1. red \notin SpineNames /\ blue \notin SpineNames /\ name \notin SpineNames
      /\ redGoal \in Objectives /\ blueGoal \in Objectives
  BY DEF SpineNames, Objectives
<1>2. FactsOf(red) = GateFacts(redGoal, d, t) /\ FactsOf(blue) = GateFacts(blueGoal, u, v)
      /\ FactsOf(name) = <<OneFails({d, t}), States>>
  BY DEF FactsOf, ExitRed
<1>3. Reason(redGoal) = AllWork({d, t}) /\ Reason(blueGoal) = OneFails({d, t})
  BY DEF Reason, ExitRed
<1> HIDE DEF name, red, redGoal, d, t, blue, blueGoal, u, v
<1>4. Paired(red, redGoal, d, t, blue, blueGoal, u, v)
  BY <1>1, <1>2, <1>3 DEF Paired
<1> QED
  BY <1>1, <1>2, <1>4, RoomContract DEF name, red, redGoal, d, t, blue, blueGoal, u, v

\* Children one after the other, each where those before it succeeded.
Chain(kids, Z, P, on, Off, E) ==
  /\ Len(kids) \in Nat /\ DOMAIN kids = 1..Len(kids) /\ Len(on) = Len(kids)
  /\ Lasting(P) /\ Lasting(Off) /\ Lasting(E)
  /\ \A i \in 1..Len(kids) : Meets(kids[i], Z, Up(P, on, i), "SUCCESS", on[i], Off, E)

\* A sequence with memory whose number says what its earlier children left.
LEMMA ChainContract ==
  ASSUME NEW kids, NEW Z, NEW P, NEW on, NEW Off, NEW E, Chain(kids, Z, P, on, Off, E),
         NEW name, <<name>> \notin Z, FactsOf(name) = on,
         NEW S, Up(P, on, Len(kids) + 1) \subseteq S
  PROVE  Contract(Sequence(<<name>>, TRUE, kids), Z, P, S, Off, E)
<1> DEFINE id == <<name>>
<1>1. Past(id) = on /\ id \notin Z
  BY DEF Past
<1> HIDE DEF id
<1>2. Len(kids) \in Nat /\ Len(on) = Len(kids)
  BY DEF Chain
<1>3. \A i \in 1..Len(kids) : Lasting(on[i])
  BY <1>1, <1>2, PastLasts, FactsLast
<1>4. BuildOn(kids, Z, P, "SUCCESS", on, Off, E)
  BY <1>3 DEF BuildOn, Chain
<1>5. Remembers(id, TRUE, Len(kids), on)
  BY <1>1, <1>2, RemembersPast
<1>6. TRUE \in BOOLEAN
  OBVIOUS
<1> QED
  BY <1>1, <1>4, <1>5, <1>6, SequenceContract DEF id

LEMMA NamedStepMeets ==
  ASSUME NEW key, key \notin SpineNames, key \notin FactNames, NEW Q, Q \subseteq States,
         NEW Off, OneFails({key}) \subseteq Off, NEW E
  PROVE  Meets(Step(<<key>>, key), Spine, Q, "SUCCESS", Works(key), Off, E)
<1>1. <<key>> \notin Spine /\ Plain(<<key>>) /\ Works(key) \subseteq Works(key)
  BY OffSpine, NoFacts
<1> QED
  BY <1>1, StepMeets

LEMMA MissionMarkMeets ==
  ASSUME NEW objective \in Objectives, NEW P, Lasting(P), P \subseteq Reason(objective),
         NEW Q, Q \subseteq P, NEW On, Scored(objective) \subseteq On, NEW Off, NEW E, Lasting(E)
  PROVE  Meets(MarkObjective(objective), Spine, Q, "SUCCESS", On, Off, E)
<1>1. <<"Mark", objective>> \notin Spine
  BY OffSpine DEF SpineNames
<1> QED
  BY <1>1, MarkMeets

LEMMA Mission2Contract ==
  ASSUME NEW E, Lasting(E)
  PROVE  Contract(Mission2, Spine, States, AllWork(Needed["mission2"]), States, E)
<1> DEFINE a == Step(<<"ApproachRoom">>, "ApproachRoom")
           b == WindowLadder("Enter room",
             GateOption("Enter room via red", "m2.enter_red", "AlignEnterRed", "FlyEnterRed"),
             GateOption("Enter room via blue", "m2.enter_blue", "AlignEnterBlue", "FlyEnterBlue"))
           c == Step(<<"Illuminate">>, "Illuminate")
           d == Step(<<"SweepAndCount">>, "SweepAndCount")
           e == MarkObjective("m2.counted")
           f == WindowLadder("Exit room",
             GateOption("Exit room via red", "m2.exit_red", "AlignExitRed", "FlyExitRed"),
             GateOption("Exit room via blue", "m2.exit_blue", "AlignExitBlue", "FlyExitBlue"))
           g == Step(<<"PublishCount">>, "PublishCount")
           kids == <<a, b, c, d, e, f, g>>
           name == "Mission 2"
           on == <<Works("ApproachRoom"), States, Works("Illuminate"), Works("SweepAndCount"),
                   States, States, Works("PublishCount")>>
           W == AllWork(Needed["mission2"])
<1>1. Mission2 = Sequence(<<name>>, TRUE, kids)
  BY DEF Mission2
<1>2. Len(kids) = 7 /\ DOMAIN kids = 1..7 /\ kids[1] = a /\ kids[2] = b /\ kids[3] = c /\ kids[4] = d
      /\ kids[5] = e /\ kids[6] = f /\ kids[7] = g
  OBVIOUS
<1>3. FactsOf(name) = on
  BY DEF FactsOf
<1>4. /\ on[1] = Works("ApproachRoom")
      /\ on[2] = States
      /\ on[3] = Works("Illuminate")
      /\ on[4] = Works("SweepAndCount")
      /\ on[5] = States
      /\ on[6] = States
      /\ on[7] = Works("PublishCount")
      /\ Len(on) = 7
  OBVIOUS
<1> HIDE DEF on
<1>5. Lasting(States) /\ \A key : OneFails({key}) \subseteq States
  BY SimpleFacts, FactsLast DEF OneFails
<1>6. \A i : Up(States, on, i) \subseteq States
  BY UpStates
<1>7. Meets(a, Spine, Up(States, on, 1), "SUCCESS", on[1], States, E)
  <2>1. "ApproachRoom" \notin SpineNames /\ "ApproachRoom" \notin FactNames
    BY DEF SpineNames, FactNames
  <2> QED
    BY <1>4, <1>5, <1>6, <2>1, NamedStepMeets
<1>8. Meets(b, Spine, Up(States, on, 2), "SUCCESS", on[2], States, E)
  <2>1. Contract(b, Spine, States, States, States, E)
    BY EnterRoomContract
  <2> QED
    BY <1>4, <1>6, <2>1, ContractMeets
<1>9. Meets(c, Spine, Up(States, on, 3), "SUCCESS", on[3], States, E)
  <2>1. "Illuminate" \notin SpineNames /\ "Illuminate" \notin FactNames
    BY DEF SpineNames, FactNames
  <2> QED
    BY <1>4, <1>5, <1>6, <2>1, NamedStepMeets
<1>10. Meets(d, Spine, Up(States, on, 4), "SUCCESS", on[4], States, E)
  <2>1. "SweepAndCount" \notin SpineNames /\ "SweepAndCount" \notin FactNames
    BY DEF SpineNames, FactNames
  <2> QED
    BY <1>4, <1>5, <1>6, <2>1, NamedStepMeets
<1>11. Meets(e, Spine, Up(States, on, 5), "SUCCESS", on[5], States, E)
  <2>1. "m2.counted" \in Objectives
    BY DEF Objectives
  <2>2. Reason("m2.counted") = States
    BY DEF Reason
  <2>3. Lasting(States) /\ Scored("m2.counted") \subseteq on[5]
    BY <1>4, SimpleFacts, FactsLast DEF Scored
  <2>4. Up(States, on, 5) \subseteq States
    BY <1>4 DEF Up
  <2> QED
    BY <2>1, <2>2, <2>3, <2>4, MissionMarkMeets
<1>12. Meets(f, Spine, Up(States, on, 6), "SUCCESS", on[6], States, E)
  <2>1. Contract(f, Spine, States, States, States, E)
    BY ExitRoomContract
  <2> QED
    BY <1>4, <1>6, <2>1, ContractMeets
<1>13. Meets(g, Spine, Up(States, on, 7), "SUCCESS", on[7], States, E)
  <2>1. "PublishCount" \notin SpineNames /\ "PublishCount" \notin FactNames
    BY DEF SpineNames, FactNames
  <2> QED
    BY <1>4, <1>5, <1>6, <2>1, NamedStepMeets
<1> HIDE DEF kids, a, b, c, d, e, f, g
<1>14. Chain(kids, Spine, States, on, States, E)
  <2>1. \A i \in 1..7 : i = 1 \/ i = 2 \/ i = 3 \/ i = 4 \/ i = 5 \/ i = 6 \/ i = 7
    OBVIOUS
  <2>2. \A i \in 1..Len(kids) :
          Meets(kids[i], Spine, Up(States, on, i), "SUCCESS", on[i], States, E)
    BY <1>2, <1>7, <1>8, <1>9, <1>10, <1>11, <1>12, <1>13, <2>1
  <2>3. Len(kids) \in Nat /\ Len(on) = Len(kids) /\ DOMAIN kids = 1..Len(kids)
    BY <1>2, <1>4
  <2> QED
    BY <1>5, <2>2, <2>3 DEF Chain
<1>15. Up(States, on, Len(kids) + 1) \subseteq W
  BY <1>2, <1>4 DEF Up, AllWork, Needed
<1>16. <<name>> \notin Spine
  <2>1. name \notin SpineNames
    BY DEF SpineNames
  <2> QED
    BY <2>1, OffSpine
<1> HIDE DEF name, W
<1>17. Contract(Sequence(<<name>>, TRUE, kids), Spine, States, W, States, E)
  BY <1>3, <1>14, <1>15, <1>16, ChainContract
<1> QED
  BY <1>1, <1>17 DEF W

-----------------------------------------------------------------------------
(* Missions 3 and 4 *)

LEMMA Mission3Contract ==
  ASSUME NEW E, Lasting(E)
  PROVE  Contract(Mission3, Spine, States, AllWork(Needed["mission3"]), States, E)
<1> DEFINE a == Step(<<"ApproachBoxArea">>, "ApproachBoxArea")
           b == Step(<<"ScanBoxes">>, "ScanBoxes")
           c == Step(<<"SelectHotBox">>, "SelectHotBox")
           d == Step(<<"HoverOverBox">>, "HoverOverBox")
           e == Step(<<"BlinkHotspotLed">>, "BlinkHotspotLed")
           f == MarkObjective("m3.hotbox_detected")
           g == Step(<<"DropCone">>, "DropCone")
           h == MarkObjective("m3.cone_dropped")
           kids == <<a, b, c, d, e, f, g, h>>
           name == "Mission 3"
           on == <<Works("ApproachBoxArea"), Works("ScanBoxes"), Works("SelectHotBox"),
                   Works("HoverOverBox"), Works("BlinkHotspotLed"), Scored("m3.hotbox_detected"),
                   Works("DropCone"), States>>
           W == AllWork(Needed["mission3"])
<1>1. Mission3 = Sequence(<<name>>, TRUE, kids)
  BY DEF Mission3
<1>2. Len(kids) = 8 /\ DOMAIN kids = 1..8 /\ kids[1] = a /\ kids[2] = b /\ kids[3] = c /\ kids[4] = d
      /\ kids[5] = e /\ kids[6] = f /\ kids[7] = g /\ kids[8] = h
  OBVIOUS
<1>3. FactsOf(name) = on
  BY DEF FactsOf
<1>4. /\ on[1] = Works("ApproachBoxArea")
      /\ on[2] = Works("ScanBoxes")
      /\ on[3] = Works("SelectHotBox")
      /\ on[4] = Works("HoverOverBox")
      /\ on[5] = Works("BlinkHotspotLed")
      /\ on[6] = Scored("m3.hotbox_detected")
      /\ on[7] = Works("DropCone")
      /\ on[8] = States
      /\ Len(on) = 8
  OBVIOUS
<1> HIDE DEF on
<1>5. Lasting(States) /\ \A key : OneFails({key}) \subseteq States
  BY SimpleFacts, FactsLast DEF OneFails
<1>6. \A i : Up(States, on, i) \subseteq States
  BY UpStates
<1>7. Meets(a, Spine, Up(States, on, 1), "SUCCESS", on[1], States, E)
  <2>1. "ApproachBoxArea" \notin SpineNames /\ "ApproachBoxArea" \notin FactNames
    BY DEF SpineNames, FactNames
  <2> QED
    BY <1>4, <1>5, <1>6, <2>1, NamedStepMeets
<1>8. Meets(b, Spine, Up(States, on, 2), "SUCCESS", on[2], States, E)
  <2>1. "ScanBoxes" \notin SpineNames /\ "ScanBoxes" \notin FactNames
    BY DEF SpineNames, FactNames
  <2> QED
    BY <1>4, <1>5, <1>6, <2>1, NamedStepMeets
<1>9. Meets(c, Spine, Up(States, on, 3), "SUCCESS", on[3], States, E)
  <2>1. "SelectHotBox" \notin SpineNames /\ "SelectHotBox" \notin FactNames
    BY DEF SpineNames, FactNames
  <2> QED
    BY <1>4, <1>5, <1>6, <2>1, NamedStepMeets
<1>10. Meets(d, Spine, Up(States, on, 4), "SUCCESS", on[4], States, E)
  <2>1. "HoverOverBox" \notin SpineNames /\ "HoverOverBox" \notin FactNames
    BY DEF SpineNames, FactNames
  <2> QED
    BY <1>4, <1>5, <1>6, <2>1, NamedStepMeets
<1>11. Meets(e, Spine, Up(States, on, 5), "SUCCESS", on[5], States, E)
  <2>1. "BlinkHotspotLed" \notin SpineNames /\ "BlinkHotspotLed" \notin FactNames
    BY DEF SpineNames, FactNames
  <2> QED
    BY <1>4, <1>5, <1>6, <2>1, NamedStepMeets
<1>12. Meets(f, Spine, Up(States, on, 6), "SUCCESS", on[6], States, E)
  <2>1. "m3.hotbox_detected" \in Objectives
    BY DEF Objectives
  <2>2. Reason("m3.hotbox_detected") = States
    BY DEF Reason
  <2>3. Lasting(States) /\ Scored("m3.hotbox_detected") \subseteq on[6]
    BY <1>4, SimpleFacts, FactsLast DEF Scored
  <2>4. Up(States, on, 6) \subseteq States
    BY <1>4 DEF Up
  <2> QED
    BY <2>1, <2>2, <2>3, <2>4, MissionMarkMeets
<1>13. Meets(g, Spine, Up(States, on, 7), "SUCCESS", on[7], States, E)
  <2>1. "DropCone" \notin SpineNames /\ "DropCone" \notin FactNames
    BY DEF SpineNames, FactNames
  <2> QED
    BY <1>4, <1>5, <1>6, <2>1, NamedStepMeets
<1>14. Meets(h, Spine, Up(States, on, 8), "SUCCESS", on[8], States, E)
  <2>1. "m3.cone_dropped" \in Objectives
    BY DEF Objectives
  <2>2. Reason("m3.cone_dropped") = Scored("m3.hotbox_detected")
    BY DEF Reason
  <2>3. Lasting(Scored("m3.hotbox_detected")) /\ Scored("m3.cone_dropped") \subseteq on[8]
    BY <1>4, SimpleFacts, FactsLast DEF Scored
  <2>4. Up(States, on, 8) \subseteq Scored("m3.hotbox_detected")
    BY <1>4 DEF Up
  <2> QED
    BY <2>1, <2>2, <2>3, <2>4, MissionMarkMeets
<1> HIDE DEF kids, a, b, c, d, e, f, g, h
<1>15. Chain(kids, Spine, States, on, States, E)
  <2>1. \A i \in 1..8 : i = 1 \/ i = 2 \/ i = 3 \/ i = 4 \/ i = 5 \/ i = 6 \/ i = 7 \/ i = 8
    OBVIOUS
  <2>2. \A i \in 1..Len(kids) :
          Meets(kids[i], Spine, Up(States, on, i), "SUCCESS", on[i], States, E)
    BY <1>2, <1>7, <1>8, <1>9, <1>10, <1>11, <1>12, <1>13, <1>14, <2>1
  <2>3. Len(kids) \in Nat /\ Len(on) = Len(kids) /\ DOMAIN kids = 1..Len(kids)
    BY <1>2, <1>4
  <2> QED
    BY <1>5, <2>2, <2>3 DEF Chain
<1>16. Up(States, on, Len(kids) + 1) \subseteq W
  BY <1>2, <1>4 DEF Up, AllWork, Needed
<1>17. <<name>> \notin Spine
  <2>1. name \notin SpineNames
    BY DEF SpineNames
  <2> QED
    BY <2>1, OffSpine
<1> HIDE DEF name, W
<1>18. Contract(Sequence(<<name>>, TRUE, kids), Spine, States, W, States, E)
  BY <1>3, <1>15, <1>16, <1>17, ChainContract
<1> QED
  BY <1>1, <1>18 DEF W

LEMMA Mission4Contract ==
  ASSUME NEW E, Lasting(E)
  PROVE  Contract(Mission4, Spine, States, AllWork(Needed["mission4"]), States, E)
<1> DEFINE a == Step(<<"ApproachRingSupport">>, "ApproachRingSupport")
           b == Step(<<"VisualServoToRing">>, "VisualServoToRing")
           c == Step(<<"GrabRing">>, "GrabRing")
           d == Step(<<"VerifyGrab">>, "VerifyGrab")
           e == MarkObjective("m4.ring_grabbed")
           f == Step(<<"ApproachBlade">>, "ApproachBlade")
           g == Step(<<"TouchCopperDisc">>, "TouchCopperDisc")
           h == MarkObjective("m4.disc_touched")
           k == Step(<<"RetreatFromBlade">>, "RetreatFromBlade")
           kids == <<a, b, c, d, e, f, g, h, k>>
           name == "Mission 4"
           on == <<Works("ApproachRingSupport"), Works("VisualServoToRing"), Works("GrabRing"),
                   Works("VerifyGrab"), States, Works("ApproachBlade"), Works("TouchCopperDisc"),
                   States, Works("RetreatFromBlade")>>
           W == AllWork(Needed["mission4"])
<1>1. Mission4 = Sequence(<<name>>, TRUE, kids)
  BY DEF Mission4
<1>2. Len(kids) = 9 /\ DOMAIN kids = 1..9 /\ kids[1] = a /\ kids[2] = b /\ kids[3] = c /\ kids[4] = d
      /\ kids[5] = e /\ kids[6] = f /\ kids[7] = g /\ kids[8] = h /\ kids[9] = k
  OBVIOUS
<1>3. FactsOf(name) = on
  BY DEF FactsOf
<1>4. /\ on[1] = Works("ApproachRingSupport")
      /\ on[2] = Works("VisualServoToRing")
      /\ on[3] = Works("GrabRing")
      /\ on[4] = Works("VerifyGrab")
      /\ on[5] = States
      /\ on[6] = Works("ApproachBlade")
      /\ on[7] = Works("TouchCopperDisc")
      /\ on[8] = States
      /\ on[9] = Works("RetreatFromBlade")
      /\ Len(on) = 9
  OBVIOUS
<1> HIDE DEF on
<1>5. Lasting(States) /\ \A key : OneFails({key}) \subseteq States
  BY SimpleFacts, FactsLast DEF OneFails
<1>6. \A i : Up(States, on, i) \subseteq States
  BY UpStates
<1>7. Meets(a, Spine, Up(States, on, 1), "SUCCESS", on[1], States, E)
  <2>1. "ApproachRingSupport" \notin SpineNames /\ "ApproachRingSupport" \notin FactNames
    BY DEF SpineNames, FactNames
  <2> QED
    BY <1>4, <1>5, <1>6, <2>1, NamedStepMeets
<1>8. Meets(b, Spine, Up(States, on, 2), "SUCCESS", on[2], States, E)
  <2>1. "VisualServoToRing" \notin SpineNames /\ "VisualServoToRing" \notin FactNames
    BY DEF SpineNames, FactNames
  <2> QED
    BY <1>4, <1>5, <1>6, <2>1, NamedStepMeets
<1>9. Meets(c, Spine, Up(States, on, 3), "SUCCESS", on[3], States, E)
  <2>1. "GrabRing" \notin SpineNames /\ "GrabRing" \notin FactNames
    BY DEF SpineNames, FactNames
  <2> QED
    BY <1>4, <1>5, <1>6, <2>1, NamedStepMeets
<1>10. Meets(d, Spine, Up(States, on, 4), "SUCCESS", on[4], States, E)
  <2>1. "VerifyGrab" \notin SpineNames /\ "VerifyGrab" \notin FactNames
    BY DEF SpineNames, FactNames
  <2> QED
    BY <1>4, <1>5, <1>6, <2>1, NamedStepMeets
<1>11. Meets(e, Spine, Up(States, on, 5), "SUCCESS", on[5], States, E)
  <2>1. "m4.ring_grabbed" \in Objectives
    BY DEF Objectives
  <2>2. Reason("m4.ring_grabbed") = States
    BY DEF Reason
  <2>3. Lasting(States) /\ Scored("m4.ring_grabbed") \subseteq on[5]
    BY <1>4, SimpleFacts, FactsLast DEF Scored
  <2>4. Up(States, on, 5) \subseteq States
    BY <1>4 DEF Up
  <2> QED
    BY <2>1, <2>2, <2>3, <2>4, MissionMarkMeets
<1>12. Meets(f, Spine, Up(States, on, 6), "SUCCESS", on[6], States, E)
  <2>1. "ApproachBlade" \notin SpineNames /\ "ApproachBlade" \notin FactNames
    BY DEF SpineNames, FactNames
  <2> QED
    BY <1>4, <1>5, <1>6, <2>1, NamedStepMeets
<1>13. Meets(g, Spine, Up(States, on, 7), "SUCCESS", on[7], States, E)
  <2>1. "TouchCopperDisc" \notin SpineNames /\ "TouchCopperDisc" \notin FactNames
    BY DEF SpineNames, FactNames
  <2> QED
    BY <1>4, <1>5, <1>6, <2>1, NamedStepMeets
<1>14. Meets(h, Spine, Up(States, on, 8), "SUCCESS", on[8], States, E)
  <2>1. "m4.disc_touched" \in Objectives
    BY DEF Objectives
  <2>2. Reason("m4.disc_touched") = States
    BY DEF Reason
  <2>3. Lasting(States) /\ Scored("m4.disc_touched") \subseteq on[8]
    BY <1>4, SimpleFacts, FactsLast DEF Scored
  <2>4. Up(States, on, 8) \subseteq States
    BY <1>4 DEF Up
  <2> QED
    BY <2>1, <2>2, <2>3, <2>4, MissionMarkMeets
<1>15. Meets(k, Spine, Up(States, on, 9), "SUCCESS", on[9], States, E)
  <2>1. "RetreatFromBlade" \notin SpineNames /\ "RetreatFromBlade" \notin FactNames
    BY DEF SpineNames, FactNames
  <2> QED
    BY <1>4, <1>5, <1>6, <2>1, NamedStepMeets
<1> HIDE DEF kids, a, b, c, d, e, f, g, h, k
<1>16. Chain(kids, Spine, States, on, States, E)
  <2>1. \A i \in 1..9 : i = 1 \/ i = 2 \/ i = 3 \/ i = 4 \/ i = 5 \/ i = 6 \/ i = 7 \/ i = 8 \/ i = 9
    OBVIOUS
  <2>2. \A i \in 1..Len(kids) :
          Meets(kids[i], Spine, Up(States, on, i), "SUCCESS", on[i], States, E)
    BY <1>2, <1>7, <1>8, <1>9, <1>10, <1>11, <1>12, <1>13, <1>14, <1>15, <2>1
  <2>3. Len(kids) \in Nat /\ Len(on) = Len(kids) /\ DOMAIN kids = 1..Len(kids)
    BY <1>2, <1>4
  <2> QED
    BY <1>5, <2>2, <2>3 DEF Chain
<1>17. Up(States, on, Len(kids) + 1) \subseteq W
  BY <1>2, <1>4 DEF Up, AllWork, Needed
<1>18. <<name>> \notin Spine
  <2>1. name \notin SpineNames
    BY DEF SpineNames
  <2> QED
    BY <2>1, OffSpine
<1> HIDE DEF name, W
<1>19. Contract(Sequence(<<name>>, TRUE, kids), Spine, States, W, States, E)
  BY <1>3, <1>16, <1>17, <1>18, ChainContract
<1> QED
  BY <1>1, <1>19 DEF W

-----------------------------------------------------------------------------
(* The landing *)

\* What holds and lasts when a node is ticked holds when it is done.
LEMMA AlsoKeeps ==
  ASSUME NEW n, NEW Z, NEW P, NEW S, NEW F, NEW E, Contract(n, Z, P, S, F, E),
         NEW Q, Lasting(Q), Q \subseteq P
  PROVE  Contract(n, Z, Q, Q, F, E)
<1>1. ASSUME NEW s \in Good, s \in Q, n.below \subseteq Ids PROVE Fulfils(n, Q, F, E, s, n.tick[s])
  <2> DEFINE r == n.tick[s]
  <2>1. Fulfils(n, S, F, E, s, r)
    BY <1>1 DEF Contract
  <2> HIDE DEF r
  <2>2. r.s \in Q
    <3>1. Moves(n.below, E, s, r.s)
      BY <2>1 DEF Fulfils
    <3> QED
      BY <1>1, <3>1, FactsStay
  <2> QED
    BY <2>1, <2>2 DEF Fulfils, r
<1>2. n.id \in n.below /\ \A id \in Z : id \notin n.below
  BY DEF Contract
<1> QED
  BY <1>1, <1>2 DEF Contract

\* Find, track, descend, confirm, mark.
LEMMA ApproachContract ==
  ASSUME NEW label, NEW objective \in Objectives, NEW find, NEW track, NEW descend, NEW confirm,
         label \notin SpineNames,
         \A key \in {find, track, descend, confirm} : key \notin SpineNames /\ key \notin FactNames,
         FactsOf(label) = ApproachFacts(objective, find, track, descend, confirm),
         NEW P, Lasting(P),
         \A s \in P : s \in AllWork({find, track, descend, confirm}) => s \in Reason(objective),
         NEW S, \A s \in P : s \in Scored(objective) => s \in S, NEW E, Lasting(E)
  PROVE  Contract(Approach(label, objective, find, track, descend, confirm), Spine, P, S,
                  OneFails({find, track, descend, confirm}), E)
<1> DEFINE keys == {find, track, descend, confirm}
           a == Step(<<find>>, find)
           b == Step(<<track>>, track)
           c == Step(<<descend>>, descend)
           d == Step(<<confirm>>, confirm)
           e == MarkObjective(objective)
           kids == <<a, b, c, d, e>>
           on == ApproachFacts(objective, find, track, descend, confirm)
           Off == OneFails(keys)
<1>1. Lasting(Off) /\ Lasting(AllWork(keys)) /\ P \subseteq States
  BY SimpleFacts, FactsLast DEF Lasting
<1>2. /\ on[1] = Works(find) /\ on[2] = Works(track) /\ on[3] = Works(descend)
      /\ on[4] = Works(confirm) /\ on[5] = Scored(objective) /\ Len(on) = 5
  BY DEF ApproachFacts
<1>3. /\ OneFails({find}) \subseteq Off /\ OneFails({track}) \subseteq Off
      /\ OneFails({descend}) \subseteq Off /\ OneFails({confirm}) \subseteq Off
  BY DEF OneFails
<1>4. \A s \in States : s \in Works(find) /\ s \in Works(track) /\ s \in Works(descend)
                        /\ s \in Works(confirm) => s \in AllWork(keys)
  BY DEF AllWork
<1>5. /\ find \notin SpineNames /\ find \notin FactNames
      /\ track \notin SpineNames /\ track \notin FactNames
      /\ descend \notin SpineNames /\ descend \notin FactNames
      /\ confirm \notin SpineNames /\ confirm \notin FactNames
  OBVIOUS
<1>6. FactsOf(label) = on /\ <<label>> \notin Spine
  BY OffSpine
<1>7. \A s \in P : s \in AllWork(keys) => s \in Reason(objective)
  OBVIOUS
<1> HIDE DEF keys, on, Off
<1>8. \A i : Up(P, on, i) \subseteq States
  BY <1>1, UpStates
<1>9. Meets(a, Spine, Up(P, on, 1), "SUCCESS", on[1], Off, E)
  BY <1>2, <1>3, <1>5, <1>8, NamedStepMeets
<1>10. Meets(b, Spine, Up(P, on, 2), "SUCCESS", on[2], Off, E)
  BY <1>2, <1>3, <1>5, <1>8, NamedStepMeets
<1>11. Meets(c, Spine, Up(P, on, 3), "SUCCESS", on[3], Off, E)
  BY <1>2, <1>3, <1>5, <1>8, NamedStepMeets
<1>12. Meets(d, Spine, Up(P, on, 4), "SUCCESS", on[4], Off, E)
  BY <1>2, <1>3, <1>5, <1>8, NamedStepMeets
<1>13. Meets(e, Spine, Up(P, on, 5), "SUCCESS", on[5], Off, E)
  <2> DEFINE Q == {s \in P : s \in AllWork(keys)}
  <2>1. Lasting(Q)
    BY <1>1 DEF Lasting
  <2>2. Q \subseteq Reason(objective)
    BY <1>7
  <2>3. Up(P, on, 5) \subseteq Q
    BY <1>1, <1>2, <1>4 DEF Up
  <2> HIDE DEF Q
  <2>4. Scored(objective) \subseteq on[5]
    BY <1>2
  <2> QED
    BY <2>1, <2>2, <2>3, <2>4, MissionMarkMeets
<1>14. Len(kids) = 5 /\ DOMAIN kids = 1..5 /\ kids[1] = a /\ kids[2] = b /\ kids[3] = c
       /\ kids[4] = d /\ kids[5] = e
  OBVIOUS
<1>15. Approach(label, objective, find, track, descend, confirm) = Sequence(<<label>>, TRUE, kids)
  BY DEF Approach
<1> HIDE DEF kids, a, b, c, d, e
<1>16. Chain(kids, Spine, P, on, Off, E)
  <2>1. \A i \in 1..5 : i = 1 \/ i = 2 \/ i = 3 \/ i = 4 \/ i = 5
    OBVIOUS
  <2>2. \A i \in 1..Len(kids) : Meets(kids[i], Spine, Up(P, on, i), "SUCCESS", on[i], Off, E)
    BY <1>9, <1>10, <1>11, <1>12, <1>13, <1>14, <2>1
  <2>3. Len(kids) \in Nat /\ Len(on) = Len(kids) /\ DOMAIN kids = 1..Len(kids)
    BY <1>2, <1>14
  <2> QED
    BY <1>1, <2>2, <2>3 DEF Chain
<1>17. Up(P, on, Len(kids) + 1) \subseteq S
  BY <1>2, <1>14 DEF Up
<1>18. Contract(Sequence(<<label>>, TRUE, kids), Spine, P, S, Off, E)
  BY <1>6, <1>16, <1>17, ChainContract
<1> QED
  BY <1>15, <1>18 DEF Off, keys

LEMMA MovingContract ==
  ASSUME NEW E, Lasting(E)
  PROVE  Contract(Approach("Land on Moving platform", "landing.moving", "FindMovingMarker",
                           "TrackMovingPlatform", "DescendMoving", "ConfirmMovingTouchdown"),
                  Spine, States, LandingFacts, OneFails(MovingSteps), E)
<1> DEFINE label == "Land on Moving platform"
           goal == "landing.moving"
           f == "FindMovingMarker"
           t == "TrackMovingPlatform"
           d == "DescendMoving"
           c == "ConfirmMovingTouchdown"
<1>1. label \notin SpineNames /\ goal \in Objectives
      /\ \A key \in {f, t, d, c} : key \notin SpineNames /\ key \notin FactNames
  BY DEF SpineNames, Objectives, FactNames
<1>2. FactsOf(label) = ApproachFacts(goal, f, t, d, c)
  BY DEF FactsOf
<1>3. MovingSteps = {f, t, d, c}
  BY DEF MovingSteps
<1>4. \A s \in States : s \in AllWork({f, t, d, c}) => s \in Reason(goal)
  BY <1>3 DEF Reason
<1>5. \A s \in States : s \in Scored(goal) => s \in LandingFacts
  BY DEF LandingFacts
<1>6. Lasting(States)
  BY SimpleFacts, FactsLast
<1> HIDE DEF label, goal, f, t, d, c
<1>7. Contract(Approach(label, goal, f, t, d, c), Spine, States, LandingFacts,
               OneFails({f, t, d, c}), E)
  BY <1>1, <1>2, <1>4, <1>5, <1>6, ApproachContract
<1> QED
  BY <1>3, <1>7 DEF label, goal, f, t, d, c

LEMMA StaticContract ==
  ASSUME NEW E, Lasting(E)
  PROVE  Contract(Approach("Land on Static platform", "landing.static", "FindStaticMarker",
                           "TrackStaticPlatform", "DescendStatic", "ConfirmStaticTouchdown"),
                  Spine, OneFails(MovingSteps), LandingFacts, OneFails(StaticSteps), E)
<1> DEFINE label == "Land on Static platform"
           goal == "landing.static"
           f == "FindStaticMarker"
           t == "TrackStaticPlatform"
           d == "DescendStatic"
           c == "ConfirmStaticTouchdown"
           P == OneFails(MovingSteps)
<1>1. label \notin SpineNames /\ goal \in Objectives
      /\ \A key \in {f, t, d, c} : key \notin SpineNames /\ key \notin FactNames
  BY DEF SpineNames, Objectives, FactNames
<1>2. FactsOf(label) = ApproachFacts(goal, f, t, d, c)
  BY DEF FactsOf
<1>3. StaticSteps = {f, t, d, c}
  BY DEF StaticSteps
<1>4. \A s \in P : s \in AllWork({f, t, d, c}) => s \in Reason(goal)
  BY DEF Reason
<1>5. \A s \in P : s \in Scored(goal) => s \in LandingFacts
  BY DEF LandingFacts, OneFails
<1>6. Lasting(P)
  BY SimpleFacts, FactsLast
<1> HIDE DEF label, goal, f, t, d, c, P
<1>7. Contract(Approach(label, goal, f, t, d, c), Spine, P, LandingFacts,
               OneFails({f, t, d, c}), E)
  BY <1>1, <1>2, <1>4, <1>5, <1>6, ApproachContract
<1> QED
  BY <1>3, <1>7 DEF label, goal, f, t, d, c, P

\* The landing cannot fail, and says how it went.
LEMMA LandingContract ==
  ASSUME NEW E, Lasting(E)
  PROVE  Contract(Landing, Spine, States, LandingFacts, {}, E)
<1> DEFINE a == Approach("Land on Moving platform", "landing.moving", "FindMovingMarker",
                         "TrackMovingPlatform", "DescendMoving", "ConfirmMovingTouchdown")
           b == Approach("Land on Static platform", "landing.static", "FindStaticMarker",
                         "TrackStaticPlatform", "DescendStatic", "ConfirmStaticTouchdown")
           c == Land
           kids == <<a, b, c>>
           on == <<OneFails(MovingSteps), OneFails(StaticSteps), {}>>
           name == "Precision Landing"
           id == <<name>>
           Off == LandingFacts
<1>1. Lasting(OneFails(MovingSteps)) /\ Lasting(OneFails(StaticSteps)) /\ Lasting({})
      /\ Lasting(States) /\ Lasting(Off)
  BY SimpleFacts, FlightFacts, FactsLast
<1>2. Past(id) = on /\ id \notin Spine
  <2>1. FactsOf(name) = on
    BY DEF FactsOf
  <2>2. name \notin SpineNames
    BY DEF SpineNames
  <2> HIDE DEF name, on
  <2> QED
    BY <2>1, <2>2, OffSpine DEF Past
<1>3. Landing = Selector(id, TRUE, kids)
  BY DEF Landing
<1>4. on[1] = OneFails(MovingSteps) /\ on[2] = OneFails(StaticSteps) /\ on[3] = {} /\ Len(on) = 3
  OBVIOUS
<1>5. Len(kids) = 3 /\ DOMAIN kids = 1..3 /\ kids[1] = a /\ kids[2] = b /\ kids[3] = c
  OBVIOUS
<1>6. Contract(a, Spine, States, Off, on[1], E)
  BY MovingContract
<1>7. Contract(b, Spine, OneFails(MovingSteps), Off, on[2], E)
  BY StaticContract
<1>8. Contract(c, Spine, Up(States, on, 3), Off, {}, E)
  <2> DEFINE Q == {s \in OneFails(MovingSteps) : s \in OneFails(StaticSteps)}
  <2>1. Lasting(Q) /\ Q \subseteq States
    BY <1>1 DEF Lasting
  <2>2. Q \subseteq Off
    BY DEF LandingFacts, OneFails
  <2>3. Up(States, on, 3) \subseteq Q
    BY <1>4 DEF Up
  <2> HIDE DEF Q
  <2>4. Contract(c, Spine, States, States, {}, E)
    <3>1. "Land" \notin FactNames /\ "Land" \notin SpineNames
      BY DEF FactNames, SpineNames
    <3>2. Plain(<<"Land">>) /\ <<"Land">> \notin Spine
      BY <3>1, NoFacts, OffSpine
    <3>3. Contract(Stub(<<"Land">>, "success", 3), Spine, States, States, {}, E)
      BY <3>2, StubContract
    <3> QED
      BY <3>3 DEF Land
  <2>5. Contract(c, Spine, Q, Q, {}, E)
    BY <2>1, <2>4, AlsoKeeps
  <2>6. {} \subseteq {} /\ Spine \subseteq Spine
    OBVIOUS
  <2> QED
    BY <2>2, <2>3, <2>5, <2>6, Weaker
<1> HIDE DEF a, b, c, on, Off, kids, id
<1>9. /\ Up(States, on, 1) \subseteq States /\ Up(States, on, 2) \subseteq OneFails(MovingSteps)
      /\ Up(States, on, 3) \subseteq Up(States, on, 3) /\ Up(States, on, 4) \subseteq {}
  BY <1>4 DEF Up
<1>10. on[1] \subseteq on[1] /\ on[2] \subseteq on[2] /\ {} \subseteq on[3] /\ Off \subseteq Off
  BY <1>4
<1>11. Meets(a, Spine, Up(States, on, 1), "FAILURE", on[1], Off, E)
  BY <1>6, <1>9, <1>10, ContractMeets
<1>12. Meets(b, Spine, Up(States, on, 2), "FAILURE", on[2], Off, E)
  BY <1>7, <1>9, <1>10, ContractMeets
<1>13. Meets(c, Spine, Up(States, on, 3), "FAILURE", on[3], Off, E)
  BY <1>8, <1>9, <1>10, ContractMeets
<1>14. BuildOn(kids, Spine, States, "FAILURE", on, Off, E)
  <2>1. \A i \in 1..3 : i = 1 \/ i = 2 \/ i = 3
    OBVIOUS
  <2>2. \A i \in 1..Len(kids) :
          Lasting(on[i]) /\ Meets(kids[i], Spine, Up(States, on, i), "FAILURE", on[i], Off, E)
    BY <1>1, <1>4, <1>5, <1>11, <1>12, <1>13, <2>1
  <2> QED
    BY <1>1, <1>5, <2>2 DEF BuildOn
<1>15. Remembers(id, TRUE, Len(kids), on)
  BY <1>2, <1>4, <1>5, RemembersPast
<1>16. Up(States, on, Len(kids) + 1) \subseteq {}
  BY <1>5, <1>9
<1>17. Contract(Selector(id, TRUE, kids), Spine, States, Off, {}, E)
  BY <1>2, <1>14, <1>15, <1>16, SelectorContract
<1> QED
  BY <1>3, <1>17 DEF Off

-----------------------------------------------------------------------------
(* The flights *)

OnlyRoot == {<<"Root">>}

LEMMA OnlyRootOff ==
  /\ OnlyRoot \subseteq Spine
  /\ \A name : name # "Root" => <<name>> \notin OnlyRoot
  /\ \A name, what : <<name, what>> \notin OnlyRoot
  BY DEF OnlyRoot, Spine

\* The nodes above the missions that are not a flight's own.
Arm(flight) == <<flight, "ArmAndTakeoff">>
Beside(flight) == Spine \ {<<flight>>, Arm(flight)}

LEMMA SlotMeets ==
  ASSUME NEW mission \in Missions, NEW tree, NEW S, Lasting(S), S \subseteq AllWork(Needed[mission]),
         NEW E, Lasting(E), Contract(tree, Spine, States, S, States, E),
         NEW Q, Q \subseteq States, NEW Off
  PROVE  Meets(MissionSlot(mission, tree), Spine, Q, "SUCCESS", MissionFacts(mission), Off, E)
<1>1. \A what : <<mission, what>> \notin Spine
  <2>1. mission \notin SpineNames
    BY DEF Missions, SpineNames
  <2> QED
    BY <2>1, OffSpine
<1>2. Contract(MissionSlot(mission, tree), Spine, States, MissionFacts(mission), {}, E)
  BY <1>1, SlotContract
<1>3. {} \subseteq Off /\ MissionFacts(mission) \subseteq MissionFacts(mission)
  OBVIOUS
<1> QED
  BY <1>2, <1>3, ContractMeets

LEMMA MissionSlotsMeet ==
  ASSUME NEW E, Lasting(E), NEW Q, Q \subseteq States, NEW Off
  PROVE  /\ Meets(MissionSlot("mission1", Mission1), Spine, Q, "SUCCESS",
                  MissionFacts("mission1"), Off, E)
         /\ Meets(MissionSlot("mission2", Mission2), Spine, Q, "SUCCESS",
                  MissionFacts("mission2"), Off, E)
         /\ Meets(MissionSlot("mission3", Mission3), Spine, Q, "SUCCESS",
                  MissionFacts("mission3"), Off, E)
         /\ Meets(MissionSlot("mission4", Mission4), Spine, Q, "SUCCESS",
                  MissionFacts("mission4"), Off, E)
<1>1. {"mission1", "mission2", "mission3", "mission4"} \subseteq Missions
  BY DEF Missions
<1>2. Meets(MissionSlot("mission1", Mission1), Spine, Q, "SUCCESS",
            MissionFacts("mission1"), Off, E)
  <2>1. Contract(Mission1, Spine, States, States, States, E)
    <3>1. Contract(Mission1, Spine, States, States, {}, E)
      BY Mission1Contract
    <3>2. Spine \subseteq Spine /\ States \subseteq States /\ {} \subseteq States
      OBVIOUS
    <3> QED
      BY <3>1, <3>2, Weaker
  <2>2. Lasting(States) /\ States \subseteq AllWork(Needed["mission1"])
    BY SimpleFacts, FactsLast DEF AllWork, Needed
  <2> QED
    BY <1>1, <2>1, <2>2, SlotMeets
<1>3. Meets(MissionSlot("mission2", Mission2), Spine, Q, "SUCCESS",
            MissionFacts("mission2"), Off, E)
  <2> DEFINE W == AllWork(Needed["mission2"])
  <2>1. Contract(Mission2, Spine, States, W, States, E) /\ Lasting(W) /\ W \subseteq W
    BY Mission2Contract, SimpleFacts, FactsLast
  <2> QED
    BY <1>1, <2>1, SlotMeets
<1>4. Meets(MissionSlot("mission3", Mission3), Spine, Q, "SUCCESS",
            MissionFacts("mission3"), Off, E)
  <2> DEFINE W == AllWork(Needed["mission3"])
  <2>1. Contract(Mission3, Spine, States, W, States, E) /\ Lasting(W) /\ W \subseteq W
    BY Mission3Contract, SimpleFacts, FactsLast
  <2> QED
    BY <1>1, <2>1, SlotMeets
<1>5. Meets(MissionSlot("mission4", Mission4), Spine, Q, "SUCCESS",
            MissionFacts("mission4"), Off, E)
  <2> DEFINE W == AllWork(Needed["mission4"])
  <2>1. Contract(Mission4, Spine, States, W, States, E) /\ Lasting(W) /\ W \subseteq W
    BY Mission4Contract, SimpleFacts, FactsLast
  <2> QED
    BY <1>1, <2>1, SlotMeets
<1> QED
  BY <1>2, <1>3, <1>4, <1>5

LEMMA TakeoffMeets ==
  ASSUME NEW flight, NEW Q, Q \subseteq States, NEW Off, NEW E
  PROVE  Meets(ArmAndTakeoff(flight), Beside(flight), Q, "SUCCESS", States, Off, E)
<1>1. Plain(Arm(flight)) /\ Arm(flight) \notin Beside(flight)
  BY PairsArePlain DEF Beside, Arm
<1>2. Contract(Stub(Arm(flight), "success", 3), Beside(flight), States, States, {}, E)
  BY <1>1, StubContract
<1>3. {} \subseteq Off /\ States \subseteq States
  OBVIOUS
<1>4. Meets(Stub(Arm(flight), "success", 3), Beside(flight), Q, "SUCCESS", States, Off, E)
  BY <1>2, <1>3, ContractMeets
<1> QED
  BY <1>4 DEF ArmAndTakeoff, Arm

\* A flight stops itself only where the facts of a finished flight hold.
LEMMA StopMeets ==
  ASSUME NEW Q, Q \subseteq EndFacts, NEW Off
  PROVE  Meets(StopRunning, Spine, Q, "SUCCESS", Over, Off, EndFacts)
<1>1. Lasting(EndFacts)
  BY FlightFacts, FactsLast
<1>2. <<"StopRunning">> \notin Spine
  <2>1. "StopRunning" \notin SpineNames
    BY DEF SpineNames
  <2> QED
    BY <2>1, OffSpine
<1>3. Contract(StopRunning, Spine, EndFacts, Over, {}, EndFacts)
  BY <1>1, <1>2, StopRunningContract
<1>4. {} \subseteq Off /\ Over \subseteq Over
  OBVIOUS
<1> QED
  BY <1>3, <1>4, ContractMeets

LEMMA MeetsBeside ==
  ASSUME NEW n, NEW Q, NEW On, NEW Off, NEW E, Meets(n, Spine, Q, "SUCCESS", On, Off, E),
         NEW flight
  PROVE  Meets(n, Beside(flight), Q, "SUCCESS", On, Off, E) /\ \A z \in Spine : z \notin n.below
  BY DEF Meets, Contract, Beside

\* What a flight is made of: a takeoff, and children that keep off the nodes above the missions.
FlightParts(flight, n, kids, P, on, Off) ==
  /\ n = Sequence(<<flight>>, TRUE, kids)
  /\ 2 <= Len(kids)
  /\ kids[1] = ArmAndTakeoff(flight)
  /\ BuildOn(kids, Beside(flight), P, "SUCCESS", on, Off, EndFacts)
  /\ Remembers(<<flight>>, TRUE, Len(kids), on)
  /\ Up(P, on, Len(kids) + 1) \subseteq Over
  /\ \A i \in 2..Len(kids) : \A z \in Spine : z \notin kids[i].below

\* A flight that succeeds is over, and fails only in Off.
LEMMA FlightContract ==
  ASSUME NEW flight, NEW n, NEW kids, NEW P, NEW on, NEW Off,
         FlightParts(flight, n, kids, P, on, Off)
  PROVE  Contract(n, Beside(flight), P, Over, Off, EndFacts)
<1> DEFINE id == <<flight>>
           yes == TRUE
<1>1. id \notin Beside(flight) /\ yes \in BOOLEAN
  BY DEF Beside
<1>2. /\ n = Sequence(id, yes, kids)
      /\ BuildOn(kids, Beside(flight), P, "SUCCESS", on, Off, EndFacts)
      /\ Remembers(id, yes, Len(kids), on) /\ Up(P, on, Len(kids) + 1) \subseteq Over
  BY DEF FlightParts
<1> HIDE DEF id, yes
<1> QED
  BY <1>1, <1>2, SequenceContract

LEMMA FlightAParts ==
  \E kids, on : FlightParts("FlightA", FlightA, kids, Flies("flight_a"), on, {})
<1> DEFINE a == ArmAndTakeoff("FlightA")
           b == MissionSlot("mission1", Mission1)
           c == MissionSlot("mission2", Mission2)
           d == MissionSlot("mission3", Mission3)
           e == Landing
           f == StopRunning
           kids == <<a, b, c, d, e, f>>
           name == "FlightA"
           P == Flies("flight_a")
           Off == {}
           on == <<States, MissionFacts("mission1"), MissionFacts("mission2"),
                 MissionFacts("mission3"),
                   LandingFacts, Over>>
           known == <<States, MissionFacts("mission1"), MissionFacts("mission2"),
                 MissionFacts("mission3"),
                      LandingFacts, {}>>
<1>1. FlightA = Sequence(<<name>>, TRUE, kids)
  BY DEF FlightA
<1>2. Len(kids) = 6 /\ DOMAIN kids = 1..6 /\ kids[1] = a /\ kids[2] = b /\ kids[3] = c
      /\ kids[4] = d /\ kids[5] = e /\ kids[6] = f
  OBVIOUS
<1>3. Past(<<name>>) = known
  BY DEF FactsOf, Past
<1>4. /\ on[1] = States
      /\ on[2] = MissionFacts("mission1")
      /\ on[3] = MissionFacts("mission2")
      /\ on[4] = MissionFacts("mission3")
      /\ on[5] = LandingFacts
      /\ on[6] = Over
      /\ Len(known) = 6 /\ known[6] = {} /\ \A i \in 1..5 : known[i] = on[i]
  BY DEF known
<1>5. Lasting(P) /\ Lasting(States) /\ Lasting(Off) /\ Lasting(EndFacts) /\ P \subseteq States
      /\ Lasting(Over)
  BY SimpleFacts, FlightFacts, FactsLast, OverLasts DEF Lasting
<1>6. Up(P, on, 6) \subseteq EndFacts
  BY <1>4 DEF Up, EndFacts, Flies
<1> HIDE DEF on, P, known, Off
<1>7. \A i : Up(P, on, i) \subseteq States
  BY <1>5, UpStates
<1>8. Meets(a, Beside(name), Up(P, on, 1), "SUCCESS", on[1], Off, EndFacts)
  BY <1>4, <1>7, TakeoffMeets
<1>9. /\ Meets(b, Spine, Up(P, on, 2), "SUCCESS", on[2], Off, EndFacts)
      /\ Meets(c, Spine, Up(P, on, 3), "SUCCESS", on[3], Off, EndFacts)
      /\ Meets(d, Spine, Up(P, on, 4), "SUCCESS", on[4], Off, EndFacts)
  BY <1>4, <1>5, <1>7, MissionSlotsMeet
<1>10. Meets(e, Spine, Up(P, on, 5), "SUCCESS", on[5], Off, EndFacts)
  <2>1. Contract(e, Spine, States, LandingFacts, {}, EndFacts)
    BY <1>5, LandingContract
  <2>2. LandingFacts \subseteq on[5] /\ {} \subseteq Off
    BY <1>4
  <2> QED
    BY <1>7, <2>1, <2>2, ContractMeets
<1>11. Meets(f, Spine, Up(P, on, 6), "SUCCESS", on[6], Off, EndFacts)
  BY <1>4, <1>6, StopMeets
<1> HIDE DEF kids, a, b, c, d, e, f, name
<1>12. \A i \in 1..6 : i = 1 \/ i \in 2..6
  OBVIOUS
<1>13. \A i \in 2..6 : Meets(kids[i], Spine, Up(P, on, i), "SUCCESS", on[i], Off, EndFacts)
  <2>1. \A i \in 2..6 : i = 2 \/ i = 3 \/ i = 4 \/ i = 5 \/ i = 6
    OBVIOUS
  <2> QED
    BY <1>2, <1>9, <1>10, <1>11, <2>1
<1>14. \A i \in 2..6 : /\ Meets(kids[i], Beside(name), Up(P, on, i), "SUCCESS", on[i], Off, EndFacts)
                     /\ \A z \in Spine : z \notin kids[i].below
  BY <1>13, MeetsBeside
<1>15. \A i \in 1..6 : Lasting(on[i])
  <2>1. \A i \in 1..6 : i = 6 \/ (i \in 1..5 /\ i \in 1..6)
    OBVIOUS
  <2>2. \A i \in 1..6 : Lasting(known[i])
    BY <1>3, <1>4, PastLasts, FactsLast
  <2> QED
    BY <1>4, <1>5, <2>1, <2>2
<1>16. BuildOn(kids, Beside(name), P, "SUCCESS", on, Off, EndFacts)
  <2>1. \A i \in 1..6 : Meets(kids[i], Beside(name), Up(P, on, i), "SUCCESS", on[i], Off, EndFacts)
    BY <1>2, <1>8, <1>12, <1>14
  <2> QED
    BY <1>2, <1>5, <1>15, <2>1 DEF BuildOn
<1>17. Remembers(<<name>>, TRUE, Len(kids), on)
  <2>1. \A j \in 1..6 : j < 6 => j \in 1..5
    OBVIOUS
  <2>2. \A j \in 1..6 : known[j] \subseteq on[j]
    <3>1. \A j \in 1..6 : j = 6 \/ j \in 1..5
      OBVIOUS
    <3> QED
      BY <1>4, <3>1
  <2> DEFINE id == <<name>>
  <2> HIDE DEF id
  <2>3. Past(id) = known /\ Len(Past(id)) = 6 /\ Len(kids) = 6
    BY <1>2, <1>3, <1>4 DEF id
  <2>4. \A j \in 1..6 : j < 6 => on[j] \subseteq known[j]
    BY <1>4, <2>1
  <2>5. Remembers(id, TRUE, Len(kids), on)
    BY <2>2, <2>3, <2>4 DEF Remembers
  <2> QED
    BY <2>5 DEF id
<1>18. Up(P, on, Len(kids) + 1) \subseteq Over
  <2>1. Len(kids) + 1 = 7 /\ 6 \in Nat /\ 1 <= 6 /\ 6 < 7
    BY <1>2
  <2> QED
    BY <1>4, <2>1 DEF Up
<1>19. FlightParts(name, FlightA, kids, P, on, Off)
  <2>1. kids[1] = ArmAndTakeoff(name)
    BY <1>2 DEF a, name
  <2>2. 2 <= Len(kids) /\ \A i \in 2..Len(kids) : \A z \in Spine : z \notin kids[i].below
    BY <1>2, <1>14
  <2> QED
    BY <1>1, <1>16, <1>17, <1>18, <2>1, <2>2 DEF FlightParts
<1> QED
  BY <1>19 DEF name, P, Off

LEMMA FlightBParts ==
  \E kids, on : FlightParts("FlightB", FlightB, kids, Flies("flight_b"), on,
        OneFails({"LandNearTurbineBase"}))
<1> DEFINE a == ArmAndTakeoff("FlightB")
           b == MissionSlot("mission4", Mission4)
           c == Step(<<"LandNearTurbineBase">>, "LandNearTurbineBase")
           d == StopRunning
           kids == <<a, b, c, d>>
           name == "FlightB"
           P == Flies("flight_b")
           Off == OneFails({"LandNearTurbineBase"})
           on == <<States, MissionFacts("mission4"), States, Over>>
           known == <<States, MissionFacts("mission4"), States, {}>>
<1>1. FlightB = Sequence(<<name>>, TRUE, kids)
  BY DEF FlightB
<1>2. Len(kids) = 4 /\ DOMAIN kids = 1..4 /\ kids[1] = a /\ kids[2] = b /\ kids[3] = c
      /\ kids[4] = d
  OBVIOUS
<1>3. Past(<<name>>) = known
  BY DEF FactsOf, Past
<1>4. /\ on[1] = States
      /\ on[2] = MissionFacts("mission4")
      /\ on[3] = States
      /\ on[4] = Over
      /\ Len(known) = 4 /\ known[4] = {} /\ \A i \in 1..3 : known[i] = on[i]
  BY DEF known
<1>5. Lasting(P) /\ Lasting(States) /\ Lasting(Off) /\ Lasting(EndFacts) /\ P \subseteq States
      /\ Lasting(Over)
  BY SimpleFacts, FlightFacts, FactsLast, OverLasts DEF Lasting
<1>6. Up(P, on, 4) \subseteq EndFacts
  BY <1>4 DEF Up, EndFacts, Flies
<1> HIDE DEF on, P, known, Off
<1>7. \A i : Up(P, on, i) \subseteq States
  BY <1>5, UpStates
<1>8. Meets(a, Beside(name), Up(P, on, 1), "SUCCESS", on[1], Off, EndFacts)
  BY <1>4, <1>7, TakeoffMeets
<1>9. Meets(b, Spine, Up(P, on, 2), "SUCCESS", on[2], Off, EndFacts)
  BY <1>4, <1>5, <1>7, MissionSlotsMeet
<1>10. Meets(c, Spine, Up(P, on, 3), "SUCCESS", on[3], Off, EndFacts)
  <2> DEFINE key == "LandNearTurbineBase"
  <2>1. key \notin FactNames /\ key \notin SpineNames
    BY DEF FactNames, SpineNames
  <2>2. Plain(<<key>>) /\ <<key>> \notin Spine
    BY <2>1, NoFacts, OffSpine
  <2>3. Works(key) \subseteq on[3] /\ OneFails({key}) \subseteq Off
    BY <1>4 DEF Works, Off
  <2> HIDE DEF key
  <2>4. Meets(Step(<<key>>, key), Spine, Up(P, on, 3), "SUCCESS", on[3], Off, EndFacts)
    BY <1>7, <2>2, <2>3, StepMeets
  <2> QED
    BY <2>4 DEF key
<1>11. Meets(d, Spine, Up(P, on, 4), "SUCCESS", on[4], Off, EndFacts)
  BY <1>4, <1>6, StopMeets
<1> HIDE DEF kids, a, b, c, d, name
<1>12. \A i \in 1..4 : i = 1 \/ i \in 2..4
  OBVIOUS
<1>13. \A i \in 2..4 : Meets(kids[i], Spine, Up(P, on, i), "SUCCESS", on[i], Off, EndFacts)
  <2>1. \A i \in 2..4 : i = 2 \/ i = 3 \/ i = 4
    OBVIOUS
  <2> QED
    BY <1>2, <1>9, <1>10, <1>11, <2>1
<1>14. \A i \in 2..4 : /\ Meets(kids[i], Beside(name), Up(P, on, i), "SUCCESS", on[i], Off, EndFacts)
                     /\ \A z \in Spine : z \notin kids[i].below
  BY <1>13, MeetsBeside
<1>15. \A i \in 1..4 : Lasting(on[i])
  <2>1. \A i \in 1..4 : i = 4 \/ (i \in 1..3 /\ i \in 1..4)
    OBVIOUS
  <2>2. \A i \in 1..4 : Lasting(known[i])
    BY <1>3, <1>4, PastLasts, FactsLast
  <2> QED
    BY <1>4, <1>5, <2>1, <2>2
<1>16. BuildOn(kids, Beside(name), P, "SUCCESS", on, Off, EndFacts)
  <2>1. \A i \in 1..4 : Meets(kids[i], Beside(name), Up(P, on, i), "SUCCESS", on[i], Off, EndFacts)
    BY <1>2, <1>8, <1>12, <1>14
  <2> QED
    BY <1>2, <1>5, <1>15, <2>1 DEF BuildOn
<1>17. Remembers(<<name>>, TRUE, Len(kids), on)
  <2>1. \A j \in 1..4 : j < 4 => j \in 1..3
    OBVIOUS
  <2>2. \A j \in 1..4 : known[j] \subseteq on[j]
    <3>1. \A j \in 1..4 : j = 4 \/ j \in 1..3
      OBVIOUS
    <3> QED
      BY <1>4, <3>1
  <2> DEFINE id == <<name>>
  <2> HIDE DEF id
  <2>3. Past(id) = known /\ Len(Past(id)) = 4 /\ Len(kids) = 4
    BY <1>2, <1>3, <1>4 DEF id
  <2>4. \A j \in 1..4 : j < 4 => on[j] \subseteq known[j]
    BY <1>4, <2>1
  <2>5. Remembers(id, TRUE, Len(kids), on)
    BY <2>2, <2>3, <2>4 DEF Remembers
  <2> QED
    BY <2>5 DEF id
<1>18. Up(P, on, Len(kids) + 1) \subseteq Over
  <2>1. Len(kids) + 1 = 5 /\ 4 \in Nat /\ 1 <= 4 /\ 4 < 5
    BY <1>2
  <2> QED
    BY <1>4, <2>1 DEF Up
<1>19. FlightParts(name, FlightB, kids, P, on, Off)
  <2>1. kids[1] = ArmAndTakeoff(name)
    BY <1>2 DEF a, name
  <2>2. 2 <= Len(kids) /\ \A i \in 2..Len(kids) : \A z \in Spine : z \notin kids[i].below
    BY <1>2, <1>14
  <2> QED
    BY <1>1, <1>16, <1>17, <1>18, <2>1, <2>2 DEF FlightParts
<1> QED
  BY <1>19 DEF name, P, Off

LEMMA FlightAContract ==
  /\ Contract(FlightA, Beside("FlightA"), Flies("flight_a"), Over, {}, EndFacts)
  /\ Contract(FlightA, OnlyRoot, Flies("flight_a"), States, States, EndFacts)
<1>1. Contract(FlightA, Beside("FlightA"), Flies("flight_a"), Over, {}, EndFacts)
  BY FlightAParts, FlightContract
<1>2. Flies("flight_a") \subseteq Flies("flight_a") /\ Over \subseteq States /\ {} \subseteq States
      /\ OnlyRoot \subseteq Beside("FlightA")
  BY DEF Over, OnlyRoot, Beside, Spine, Arm
<1> QED
  BY <1>1, <1>2, Weaker

LEMMA FlightBContract ==
  /\ Contract(FlightB, Beside("FlightB"), Flies("flight_b"), Over,
              OneFails({"LandNearTurbineBase"}), EndFacts)
  /\ Contract(FlightB, OnlyRoot, Flies("flight_b"), States, States, EndFacts)
<1> DEFINE F == OneFails({"LandNearTurbineBase"})
<1>1. Contract(FlightB, Beside("FlightB"), Flies("flight_b"), Over, F, EndFacts)
  BY FlightBParts, FlightContract
<1>2. Flies("flight_b") \subseteq Flies("flight_b") /\ Over \subseteq States /\ F \subseteq States
      /\ OnlyRoot \subseteq Beside("FlightB")
  BY DEF Over, OnlyRoot, Beside, Spine, Arm, OneFails
<1> QED
  BY <1>1, <1>2, Weaker

-----------------------------------------------------------------------------
(* The root *)

\* Two children of a composite without memory, of which the second may rely on the first.
LEMMA PairBuilds ==
  ASSUME NEW Z, NEW goesOn \in {"SUCCESS", "FAILURE"}, NEW a, NEW b, NEW P, Lasting(P), NEW E,
         Lasting(E), Meets(a, Z, States, goesOn, P, States, E),
         Meets(b, Z, P, goesOn, States, States, E)
  PROVE  BuildOn(<<a, b>>, Z, States, goesOn, <<P, States>>, States, E)
<1> DEFINE kids == <<a, b>>
           on == <<P, States>>
<1>1. Len(kids) = 2 /\ DOMAIN kids = 1..2 /\ kids[1] = a /\ kids[2] = b
      /\ on[1] = P /\ on[2] = States
  OBVIOUS
<1>2. Lasting(States)
  BY SimpleFacts, FactsLast
<1>3. P \subseteq States
  BY DEF Lasting
<1> HIDE DEF kids, on
<1>4. Up(States, on, 1) = States /\ Up(States, on, 2) = P
  BY <1>1, <1>3 DEF Up
<1>5. \A i \in 1..2 : i = 1 \/ i = 2
  OBVIOUS
<1>6. \A i \in 1..Len(kids) :
        Lasting(on[i]) /\ Meets(kids[i], Z, Up(States, on, i), goesOn, on[i], States, E)
  BY <1>1, <1>2, <1>4, <1>5
<1>7. BuildOn(kids, Z, States, goesOn, on, States, E)
  BY <1>1, <1>2, <1>6 DEF BuildOn
<1> QED
  BY <1>7 DEF kids, on

LEMMA PairOf ==
  ASSUME NEW Z, NEW a, NEW b, NEW P, Lasting(P), NEW E, Lasting(E), NEW name,
         name \notin FactNames, <<name>> \notin Z
  PROVE  /\ Contract(a, Z, States, P, States, E) /\ Contract(b, Z, P, States, States, E) =>
              Contract(Sequence(<<name>>, FALSE, <<a, b>>), Z, States, States, States, E)
         /\ Contract(a, Z, States, States, P, E) /\ Contract(b, Z, P, States, States, E) =>
              Contract(Selector(<<name>>, FALSE, <<a, b>>), Z, States, States, States, E)
<1> DEFINE kids == <<a, b>>
           on == <<P, States>>
           id == <<name>>
<1>1. Len(kids) = 2 /\ Past(id) = << >> /\ id \notin Z
  BY NoFacts
<1>2. BuildOn(kids, Z, States, "SUCCESS", on, States, E) \/
      ~(Contract(a, Z, States, P, States, E) /\ Contract(b, Z, P, States, States, E))
  BY PairBuilds DEF Meets
<1>3. BuildOn(kids, Z, States, "FAILURE", on, States, E) \/
      ~(Contract(a, Z, States, States, P, E) /\ Contract(b, Z, P, States, States, E))
  BY PairBuilds DEF Meets
<1> HIDE DEF kids, on, id
<1>4. Remembers(id, FALSE, Len(kids), on)
  BY <1>1, RemembersNothing
<1>5. Up(States, on, Len(kids) + 1) \subseteq States /\ FALSE \in BOOLEAN
  BY UpStates
<1>6. BuildOn(kids, Z, States, "SUCCESS", on, States, E) =>
        Contract(Sequence(id, FALSE, kids), Z, States, States, States, E)
  BY <1>1, <1>4, <1>5, SequenceContract
<1>7. BuildOn(kids, Z, States, "FAILURE", on, States, E) =>
        Contract(Selector(id, FALSE, kids), Z, States, States, States, E)
  BY <1>1, <1>4, <1>5, SelectorContract
<1> QED
  BY <1>2, <1>3, <1>6, <1>7 DEF kids, id

LEMMA RunnerContract ==
  Contract(FlightPlanRunner, OnlyRoot, States, States, States, EndFacts)
<1> DEFINE a == Sequence(<<"Run FlightA">>, FALSE, <<FlightPlanIs("flight_a"), FlightA>>)
           b == Sequence(<<"Run FlightB">>, FALSE, <<FlightPlanIs("flight_b"), FlightB>>)
<1>1. \A name \in {"Run FlightA", "Run FlightB", "FlightPlanRunner"} :
        name \notin FactNames /\ <<name>> \notin OnlyRoot
  BY OnlyRootOff DEF FactNames
<1>2. Lasting(EndFacts) /\ Lasting(States) /\ \A plan : Lasting(Flies(plan))
  BY FlightFacts, SimpleFacts, FactsLast
<1>3. \A plan : Contract(FlightPlanIs(plan), OnlyRoot, States, Flies(plan), States, EndFacts)
  BY <1>2, OnlyRootOff, FlightPlanIsContract
<1>4. Contract(a, OnlyRoot, States, States, States, EndFacts)
  BY <1>1, <1>2, <1>3, FlightAContract, PairOf
<1>5. Contract(b, OnlyRoot, States, States, States, EndFacts)
  BY <1>1, <1>2, <1>3, FlightBContract, PairOf
<1>6. FlightPlanRunner = Selector(<<"FlightPlanRunner">>, FALSE, <<a, b>>)
  BY DEF FlightPlanRunner
<1> HIDE DEF a, b
<1> QED
  BY <1>1, <1>2, <1>4, <1>5, <1>6, PairOf

LEMMA EmergencyLandContract ==
  Contract(EmergencyLand, OnlyRoot, States, States, States, EndFacts)
<1>1. "EmergencyLand" \notin FactNames /\ <<"EmergencyLand">> \notin OnlyRoot
  BY OnlyRootOff DEF FactNames
<1>2. Plain(<<"EmergencyLand">>)
  BY <1>1, NoFacts
<1>3. Contract(Stub(<<"EmergencyLand">>, "success", 5), OnlyRoot, States, States, {}, EndFacts)
  BY <1>1, <1>2, StubContract
<1>4. OnlyRoot \subseteq OnlyRoot /\ States \subseteq States /\ {} \subseteq States
  OBVIOUS
<1>5. Contract(Stub(<<"EmergencyLand">>, "success", 5), OnlyRoot, States, States, States, EndFacts)
  BY <1>3, <1>4, Weaker
<1> QED
  BY <1>5 DEF EmergencyLand

SafetyKids == <<SafetyTripped, EmergencyLand>>

LEMMA SafetyBuilds ==
  BuildOn(SafetyKids, OnlyRoot, States, "SUCCESS", <<States, States>>, States, EndFacts)
<1>1. <<"Emergency?">> \notin OnlyRoot
  BY OnlyRootOff
<1>2. Lasting(EndFacts) /\ Lasting(States)
  BY FlightFacts, SimpleFacts, FactsLast
<1>3. Contract(SafetyTripped, OnlyRoot, States, States, States, EndFacts)
  BY <1>1, <1>2, SafetyTrippedContract
<1>4. Meets(SafetyTripped, OnlyRoot, States, "SUCCESS", States, States, EndFacts)
      /\ Meets(EmergencyLand, OnlyRoot, States, "SUCCESS", States, States, EndFacts)
  BY <1>3, EmergencyLandContract DEF Meets
<1>5. BuildOn(<<SafetyTripped, EmergencyLand>>, OnlyRoot, States, "SUCCESS", <<States, States>>,
              States, EndFacts)
  BY <1>2, <1>4, PairBuilds
<1> QED
  BY <1>5 DEF SafetyKids

LEMMA SafetyContract ==
  Contract(SafetyBranch, OnlyRoot, States, States, States, EndFacts)
<1> DEFINE name == "SafetyOverride"
           id == <<name>>
           on == <<States, States>>
           kids == SafetyKids
<1>1. SafetyBranch = Sequence(id, FALSE, kids) /\ Len(kids) = 2
  BY DEF SafetyBranch, SafetyKids
<1>2. name \notin FactNames /\ id \notin OnlyRoot
  BY OnlyRootOff DEF FactNames
<1>3. Past(id) = << >>
  BY <1>2, NoFacts
<1>4. BuildOn(kids, OnlyRoot, States, "SUCCESS", on, States, EndFacts)
  BY SafetyBuilds
<1> HIDE DEF on, kids, id
<1>5. Remembers(id, FALSE, Len(kids), on)
  BY <1>1, <1>3, RemembersNothing
<1>6. Up(States, on, Len(kids) + 1) \subseteq States /\ FALSE \in BOOLEAN
  BY UpStates
<1> QED
  BY <1>1, <1>2, <1>4, <1>5, <1>6, SequenceContract

LEMMA IdleContract ==
  Contract(Idle, OnlyRoot, States, States, States, EndFacts)
<1>1. "Idle" \notin FactNames /\ <<"Idle">> \notin OnlyRoot
  BY OnlyRootOff DEF FactNames
<1>2. Plain(<<"Idle">>)
  BY <1>1, NoFacts
<1>3. Contract(Stub(<<"Idle">>, "running", 1), OnlyRoot, States, States, {}, EndFacts)
  BY <1>1, <1>2, StubContract
<1>4. OnlyRoot \subseteq OnlyRoot /\ States \subseteq States /\ {} \subseteq States
  OBVIOUS
<1>5. Contract(Stub(<<"Idle">>, "running", 1), OnlyRoot, States, States, States, EndFacts)
  BY <1>3, <1>4, Weaker
<1> QED
  BY <1>5 DEF Idle

RootKids == <<SafetyBranch, FlightPlanRunner, Idle>>
RootOn == [i \in 1..3 |-> States]

LEMMA RootBuilds ==
  BuildOn(RootKids, {}, States, "FAILURE", RootOn, States, EndFacts)
<1> DEFINE on == RootOn
           kids == RootKids
<1>1. Len(kids) = 3 /\ DOMAIN kids = 1..3 /\ kids[1] = SafetyBranch /\ kids[2] = FlightPlanRunner
      /\ kids[3] = Idle
  BY DEF RootKids
<1>2. \A i \in 1..3 : on[i] = States
  BY DEF RootOn
<1>3. Lasting(EndFacts) /\ Lasting(States)
  BY FlightFacts, SimpleFacts, FactsLast
<1> HIDE DEF on, kids
<1>4. \A i \in 1..3 : Contract(kids[i], OnlyRoot, States, States, States, EndFacts)
  <2>1. \A i \in 1..3 : i = 1 \/ i = 2 \/ i = 3
    OBVIOUS
  <2> QED
    BY <1>1, <2>1, SafetyContract, RunnerContract, IdleContract
<1>5. ASSUME NEW i \in 1..Len(kids)
      PROVE  Lasting(on[i]) /\ Meets(kids[i], {}, Up(States, on, i), "FAILURE", on[i], States,
            EndFacts)
  <2>1. Up(States, on, i) \subseteq States /\ States \subseteq on[i] /\ States \subseteq States
        /\ {} \subseteq OnlyRoot
    BY <1>1, <1>2, UpStates
  <2>2. Contract(kids[i], {}, States, States, States, EndFacts)
    BY <1>1, <1>4, <2>1, Weaker
  <2> QED
    BY <1>1, <1>2, <1>3, <2>1, <2>2, ContractMeets
<1>6. BuildOn(kids, {}, States, "FAILURE", on, States, EndFacts)
  BY <1>1, <1>3, <1>5 DEF BuildOn
<1> QED
  BY <1>6 DEF on, kids

LEMMA RootPlain == Past(<<"Root">>) = << >> /\ Plain(<<"Root">>)
<1>1. "Root" \notin FactNames
  BY DEF FactNames
<1> QED
  BY <1>1, NoFacts

\* The whole tree: a tick keeps the state good, and ends a flight only with its facts.
LEMMA RootContract ==
  Contract(Root, {}, States, States, States, EndFacts)
<1> DEFINE id == <<"Root">>
<1>1. Root = Selector(id, FALSE, RootKids) /\ Len(RootKids) = 3
  BY DEF Root, RootKids
<1>2. Past(id) = << >>
  BY RootPlain
<1> HIDE DEF id
<1>3. Remembers(id, FALSE, Len(RootKids), RootOn)
  BY <1>1, <1>2, RemembersNothing
<1>4. Up(States, RootOn, Len(RootKids) + 1) \subseteq States /\ FALSE \in BOOLEAN /\ id \notin {}
  BY UpStates
<1> QED
  BY <1>1, <1>3, <1>4, RootBuilds, SelectorContract

-----------------------------------------------------------------------------
(* Operators and sensors do not touch what a flight has done *)

\* States of one flight: only the operator's and the sensors' fields differ.
SameFlight(s, t) ==
  /\ t.mem = s.mem /\ t.config = s.config
  /\ t.board.objectives = s.board.objectives
  /\ t.board.mission_outcomes = s.board.mission_outcomes

OfFlight == {P \in SUBSET States : \A s \in P, t \in States : SameFlight(s, t) => t \in P}

LEMMA OfFlightKinds ==
  /\ Kinds(OfFlight)
  /\ \A keys : AllWork(keys) \in OfFlight
<1>1. States \in OfFlight /\ {} \in OfFlight
  BY DEF OfFlight
<1>2. ASSUME NEW s \in States, NEW t \in States, SameFlight(s, t)
      PROVE  /\ \A key : s \in Works(key) <=> t \in Works(key)
             /\ \A keys : s \in AllWork(keys) <=> t \in AllWork(keys)
             /\ \A keys : s \in OneFails(keys) <=> t \in OneFails(keys)
             /\ \A objective : s \in Scored(objective) <=> t \in Scored(objective)
             /\ \A mission : s \in MissionFacts(mission) <=> t \in MissionFacts(mission)
  <2>1. \A key : s \in Works(key) <=> t \in Works(key)
    BY <1>2 DEF SameFlight, Works
  <2>2. \A mission : s \in MissionFacts(mission) <=> t \in MissionFacts(mission)
    BY <1>2 DEF SameFlight, MissionFacts, Told
  <2>3. \A objective : s \in Scored(objective) <=> t \in Scored(objective)
    BY <1>2 DEF SameFlight, Scored
  <2> QED
    BY <2>1, <2>2, <2>3 DEF AllWork, OneFails
<1>3. \A key : Works(key) \subseteq States
  BY DEF Works
<1>4. \A keys : AllWork(keys) \subseteq States /\ OneFails(keys) \subseteq States
  BY DEF AllWork, OneFails
<1>5. \A objective : Scored(objective) \subseteq States
  BY DEF Scored
<1>6. \A mission : MissionFacts(mission) \subseteq States
  BY DEF MissionFacts
<1>7. LandingFacts \in OfFlight
  <2>1. \A s \in LandingFacts, t \in States : SameFlight(s, t) => t \in LandingFacts
    BY <1>2 DEF LandingFacts
  <2>2. LandingFacts \subseteq States
    BY DEF LandingFacts
  <2> QED
    BY <2>1, <2>2 DEF OfFlight
<1>8. \A key : Works(key) \in OfFlight
  BY <1>2, <1>3 DEF OfFlight
<1>9. \A keys : AllWork(keys) \in OfFlight /\ OneFails(keys) \in OfFlight
  BY <1>2, <1>4 DEF OfFlight
<1>10. \A objective : Scored(objective) \in OfFlight
  BY <1>2, <1>5 DEF OfFlight
<1>11. \A mission : MissionFacts(mission) \in OfFlight
  BY <1>2, <1>6 DEF OfFlight
<1> QED
  BY <1>1, <1>7, <1>8, <1>9, <1>10, <1>11 DEF Kinds

LEMMA CallsKeepGood ==
  ASSUME NEW s \in Good, NEW t \in States, SameFlight(s, t)
  PROVE  t \in Good
<1>1. \A P \in OfFlight : s \in P => t \in P
  BY GoodIsState DEF OfFlight
<1>2. \A id : \A j \in 1..Len(Past(id)) : Past(id)[j] \in OfFlight
  <2> TAKE id
  <2>1. Past(id) \in Seq(OfFlight)
    <3>1. \A name : FactsOf(name) \in Seq(OfFlight)
      BY OfFlightKinds, FactsOfAre
    <3>2. << >> \in Seq(OfFlight)
      OBVIOUS
    <3> QED
      BY <3>1, <3>2 DEF Past
  <2> QED
    BY <2>1
<1>3. \A objective : Reason(objective) \in OfFlight
  BY OfFlightKinds DEF Kinds, Reason
<1>4. \A m \in t.mem : Sound(m.id, m.number, t)
  <2>1. \A m \in s.mem : Sound(m.id, m.number, s)
    BY DEF Good
  <2> QED
    BY <1>1, <1>2, <2>1 DEF Sound, SameFlight
<1>5. \A o \in t.board.objectives : o \in Objectives /\ t \in Reason(o)
  <2>1. \A o \in s.board.objectives : o \in Objectives /\ s \in Reason(o)
    BY DEF Good
  <2> QED
    BY <1>1, <1>3, <2>1 DEF SameFlight
<1>6. \A m \in Missions : t.board.mission_outcomes[m] = "success" => t \in AllWork(Needed[m])
  <2>1. \A m \in Missions : s.board.mission_outcomes[m] = "success" => s \in AllWork(Needed[m])
    BY DEF Good
  <2> QED
    BY <1>1, <2>1, OfFlightKinds DEF SameFlight
<1>7. \A m, n \in t.mem : m.id = n.id => m = n
  BY DEF Good, SameFlight
<1> QED
  BY <1>4, <1>5, <1>6, <1>7 DEF Good

-----------------------------------------------------------------------------
(* The engine *)

Now == [mem |-> mem, board |-> board, config |-> config]

\* The inductive invariant: the numbers, the score sheet and the outcomes mean what they should.
EngineInv == EngineTypeOK /\ Now \in Good

LEMMA EngineBegins == EngineInit => EngineInv
<1> SUFFICES ASSUME EngineInit PROVE EngineInv
  OBVIOUS
<1>1. config \in Configs /\ mem = {} /\ board \in Boards /\ events = 0 /\ parity = 0
      /\ cause \in {"operator", "none"} /\ board.objectives = {}
      /\ board.mission_outcomes = [m \in Missions |-> "none"]
  <2>1. PICK plan \in Plans, autostart \in BOOLEAN :
          /\ board = [running |-> autostart, flight_plan |-> plan, abort_requested |-> FALSE,
                      battery |-> "none", odom |-> "none", safety_reason |-> "",
                      mission_outcomes |-> [m \in Missions |-> "none"], objectives |-> {}]
          /\ cause = IF autostart THEN "operator" ELSE "none"
    BY DEF EngineInit
  <2> DEFINE outcomes == [m \in Missions |-> "none"]
  <2>2. outcomes \in [Missions -> {"none", "success", "skipped"}]
    OBVIOUS
  <2>3. cause \in {"operator", "none"}
    BY <2>1, Zenon
  <2> HIDE DEF outcomes
  <2>4. board = [running |-> autostart, flight_plan |-> plan, abort_requested |-> FALSE,
                 battery |-> "none", odom |-> "none", safety_reason |-> "",
                 mission_outcomes |-> outcomes, objectives |-> {}]
    BY <2>1, Zenon DEF outcomes
  <2>5. board \in Boards /\ board.objectives = {} /\ board.mission_outcomes = outcomes
    BY <2>2, <2>4 DEF Boards
  <2> QED
    BY <2>3, <2>5 DEF EngineInit, outcomes
<1>2. Now \in States
  BY <1>1 DEF Now, States
<1>3. Now \in Good
  BY <1>1, <1>2 DEF Now, Good
<1>4. EngineTypeOK
  BY <1>1, EngineAssumption DEF EngineTypeOK
<1> QED
  BY <1>3, <1>4 DEF EngineInv

\* A tick of the tree.
LEMMA TickMoves ==
  ASSUME EngineInv, OnTick
  PROVE  /\ Now' = Root.tick[Now].s
         /\ Moves(Root.below, EndFacts, Now, Now')
<1>1. Now \in Good /\ Now \in States
  BY GoodIsState DEF EngineInv
<1>2. Fulfils(Root, States, States, EndFacts, Now, Root.tick[Now])
  BY <1>1, RootContract, IdsAssumption DEF Contract
<1> DEFINE t == Root.tick[Now]
<1>3. mem' = t.s.mem /\ board' = t.s.board /\ config' = config
  BY DEF OnTick, Now
<1>4. Moves(Root.below, EndFacts, Now, t.s)
  BY <1>2 DEF Fulfils
<1> HIDE DEF t
<1>5. t.s \in States /\ t.s.config = config
  BY <1>4, GoodIsState DEF Moves, Later, Now
<1>6. t.s = [mem |-> t.s.mem, board |-> t.s.board, config |-> t.s.config]
  BY <1>5, StateParts
<1>7. Now' = t.s
  BY <1>3, <1>5, <1>6 DEF Now
<1> QED
  BY <1>4, <1>7 DEF t

LEMMA TickKeepsInv ==
  ASSUME EngineInv, OnTick
  PROVE  EngineInv'
<1>1. Moves(Root.below, EndFacts, Now, Now')
  BY TickMoves
<1>2. Now' \in Good /\ Now' \in States
  BY <1>1, GoodIsState DEF Moves
<1>3. mem' \subseteq [id : Ids, number : Nat] /\ board' \in Boards /\ config' \in Configs
  BY <1>2, StateParts DEF Now
<1>4. \A m \in mem' : m.id \in Root.below
  <2>1. {m \in mem : m.id \notin Root.below} = {}
    BY DEF EngineInv, EngineTypeOK
  <2>2. {m \in mem' : m.id \notin Root.below} = {m \in mem : m.id \notin Root.below}
    BY <1>1 DEF Moves, Outside, Now
  <2> QED
    BY <2>1, <2>2
<1>5. mem' \subseteq [id : Root.below, number : Nat]
  BY <1>3, <1>4
<1>6. \A m, n \in mem' : m.id = n.id => m = n
  BY <1>2 DEF Good, Now
<1>7. events' = events /\ parity' = 1 - parity /\ cause' \in {"operator", "emergency", "none"}
  BY DEF OnTick, EngineInv, EngineTypeOK
<1>8. EngineTypeOK'
  BY <1>3, <1>5, <1>6, <1>7 DEF EngineTypeOK, EngineInv
<1> QED
  BY <1>2, <1>8 DEF EngineInv

\* A call or a sensor writes its field of the blackboard.
Calls ==
  \/ OnOdom \/ OdomAges \/ OnBattery \/ OnAbort
  \/ \E data \in BOOLEAN : OnSetRunning(data)
  \/ \E plan \in Requests : OnSetParameters(plan)

LEMMA CallsWrite ==
  ASSUME EngineInv, Calls
  PROVE  /\ board' \in Boards
         /\ board'.objectives = board.objectives
         /\ board'.mission_outcomes = board.mission_outcomes
         /\ cause' \in {"operator", "emergency", "none"}
         /\ Event
<1>1. board \in Boards /\ cause \in {"operator", "emergency", "none"}
  BY DEF EngineInv, EngineTypeOK
<1>2. CASE OnOdom \/ OdomAges
  BY <1>1, <1>2 DEF OnOdom, OdomAges, Boards
<1>3. CASE OnBattery \/ OnAbort
  BY <1>1, <1>3 DEF OnBattery, OnAbort, Boards
<1>4. CASE \E data \in BOOLEAN : OnSetRunning(data)
  BY <1>1, <1>4 DEF OnSetRunning, Boards
<1>5. CASE \E plan \in Requests : OnSetParameters(plan)
  BY <1>1, <1>5 DEF OnSetParameters, Boards
<1> QED
  BY <1>2, <1>3, <1>4, <1>5 DEF Calls

LEMMA CallsKeepInv ==
  ASSUME EngineInv, Calls
  PROVE  EngineInv'
<1>1. /\ board' \in Boards
      /\ board'.objectives = board.objectives
      /\ board'.mission_outcomes = board.mission_outcomes
      /\ cause' \in {"operator", "emergency", "none"}
      /\ Event
  BY CallsWrite
<1>2. config' = config /\ mem' = mem /\ parity' = parity /\ events' = events + 1
      /\ events < MaxEvents
  BY <1>1 DEF Event
<1>3. Now \in Good /\ Now \in States
  BY GoodIsState DEF EngineInv
<1>4. Now' \in States
  BY <1>1, <1>2, <1>3 DEF Now, States
<1>5. SameFlight(Now, Now')
  BY <1>1, <1>2 DEF SameFlight, Now
<1>6. Now' \in Good
  BY <1>3, <1>4, <1>5, CallsKeepGood
<1>7. events' \in 0..MaxEvents
  BY <1>2, EngineAssumption DEF EngineInv, EngineTypeOK
<1>8. EngineTypeOK'
  BY <1>1, <1>2, <1>7 DEF EngineTypeOK, EngineInv
<1> QED
  BY <1>6, <1>8 DEF EngineInv

LEMMA EngineGoesOn == EngineInv /\ [EngineNext]_engineVars => EngineInv'
<1> SUFFICES ASSUME EngineInv, [EngineNext]_engineVars PROVE EngineInv'
  OBVIOUS
<1>1. CASE OnTick
  BY <1>1, TickKeepsInv
<1>2. CASE Calls
  BY <1>2, CallsKeepInv
<1>3. CASE UNCHANGED engineVars
  BY <1>3 DEF engineVars, EngineInv, EngineTypeOK, Now
<1> QED
  BY <1>1, <1>2, <1>3 DEF EngineNext, Calls

\* Whatever the operator and the sensors do, the tree stays in a state whose numbers, score sheet
\* and outcomes mean what they should.
THEOREM EngineIsSound == EngineSpec => []EngineInv
  BY EngineBegins, EngineGoesOn, PTL DEF EngineSpec

LEMMA InvScores == EngineInv => BtInv
<1> SUFFICES ASSUME EngineInv PROVE ScoresOnce
  BY DEF EngineInv, BtInv
<1>1. Now \in Good /\ Now \in States /\ \A o \in board.objectives : Now \in Reason(o)
  BY GoodIsState DEF EngineInv, Good, Now
<1>2. \A keys : ~(Now \in AllWork(keys) /\ Now \in OneFails(keys))
  BY DEF AllWork, OneFails
<1>3. ~({"m1.window_a_red", "m1.window_a_blue"} \subseteq board.objectives)
  BY <1>1, <1>2 DEF Reason
<1>4. ~({"m1.window_b_red", "m1.window_b_blue"} \subseteq board.objectives)
  BY <1>1, <1>2 DEF Reason
<1>5. ~({"m1.bar_red_high", "m1.bar_red_middle"} \subseteq board.objectives)
  BY <1>1, <1>2 DEF Reason
<1>6. ~({"m1.bar_blue_low", "m1.bar_blue_middle"} \subseteq board.objectives)
  BY <1>1, <1>2 DEF Reason
<1>7. ~({"m2.enter_red", "m2.enter_blue"} \subseteq board.objectives)
  BY <1>1, <1>2 DEF Reason
<1>8. ~({"m2.exit_red", "m2.exit_blue"} \subseteq board.objectives)
  BY <1>1, <1>2 DEF Reason
<1>9. ~({"landing.moving", "landing.static"} \subseteq board.objectives)
  BY <1>1, <1>2 DEF Reason
<1>10. "m3.cone_dropped" \in board.objectives => "m3.hotbox_detected" \in board.objectives
  BY <1>1 DEF Reason, Scored, Now
<1> QED
  BY <1>3, <1>4, <1>5, <1>6, <1>7, <1>8, <1>9, <1>10 DEF ScoresOnce

\* The score sheet is one the rules allow, in every flight, with any configuration of the steps.
THEOREM ScoresAreSound == EngineSpec => []BtInv
  BY EngineIsSound, InvScores, PTL

LEMMA EndsAreLanded ==
  ASSUME EngineInv, EngineInv', Ended
  PROVE  /\ \A m \in Flown \cap Enabled :
              /\ board'.mission_outcomes[m] # "none"
              /\ board'.mission_outcomes[m] = "success" => ~Impaired(Needed[m])
         /\ board.flight_plan = "flight_a" =>
              \/ "landing.moving" \in board'.objectives
              \/ Impaired(MovingSteps) /\ "landing.static" \in board'.objectives
              \/ Impaired(MovingSteps) /\ Impaired(StaticSteps)
<1>1. Moves(Root.below, EndFacts, Now, Now')
  BY TickMoves DEF Ended
<1>2. Now' \in EndFacts /\ Now' \in Good /\ Now' \in States /\ Later(Now, Now')
  BY <1>1, GoodIsState DEF Ended, Moves, Now
<1>3. config' = config /\ board'.flight_plan = board.flight_plan
  BY <1>2 DEF Later, Now
<1>4. \A keys : Now' \in AllWork(keys) => ~Impaired(keys)
  BY <1>3 DEF AllWork, Works, Impaired, Now
<1>5. \A keys : Now' \in OneFails(keys) => Impaired(keys)
  BY <1>3 DEF OneFails, Works, Impaired, Now
<1>6. \A m \in Missions : board'.mission_outcomes[m] = "success" => ~Impaired(Needed[m])
  BY <1>2, <1>4 DEF Good, Now
<1>7. \A m : m \in Enabled /\ Now' \in MissionFacts(m) => board'.mission_outcomes[m] # "none"
  BY DEF MissionFacts, Told, Now
<1>8. \A plan : Now' \in Flies(plan) => board.flight_plan = plan
  BY <1>3 DEF Flies, Now
<1>9. Flown \subseteq Missions
  BY DEF Flown, Missions
<1>10. \A o : Now' \in Scored(o) => o \in board'.objectives
  BY DEF Scored, Now
<1> DEFINE there == Now'
<1>11. \/ /\ there \in Flies("flight_a") /\ there \in LandingFacts
          /\ \A m \in {"mission1", "mission2", "mission3"} : there \in MissionFacts(m)
       \/ there \in Flies("flight_b") /\ there \in MissionFacts("mission4")
  <2> HIDE DEF there
  <2>1. there \in EndFacts
    BY <1>2 DEF there
  <2> QED
    BY <2>1 DEF EndFacts
<1>12. \A m \in Flown \cap Enabled : board'.mission_outcomes[m] # "none"
  BY <1>7, <1>8, <1>11 DEF Flown
<1>13. board.flight_plan = "flight_a" => there \in LandingFacts
  BY <1>8, <1>11
<1>14. there \in LandingFacts =>
         \/ there \in Scored("landing.moving")
         \/ there \in OneFails(MovingSteps) /\ there \in Scored("landing.static")
         \/ there \in OneFails(MovingSteps) /\ there \in OneFails(StaticSteps)
  <2> HIDE DEF there
  <2> QED
    BY DEF LandingFacts
<1> QED
  BY <1>5, <1>6, <1>9, <1>10, <1>12, <1>13, <1>14

\* A flight that declares itself over has landed as well as its steps allow, and has an outcome
\* for each of its missions, "success" only where no step of the mission failed.
THEOREM FlightsDoEndLanded == EngineSpec => FlightsEndLanded
<1>1. EngineInv /\ EngineInv' /\ [EngineNext]_engineVars =>
        [Ended =>
           /\ \A m \in Flown \cap Enabled :
                /\ board'.mission_outcomes[m] # "none"
                /\ board'.mission_outcomes[m] = "success" => ~Impaired(Needed[m])
           /\ board.flight_plan = "flight_a" =>
                \/ "landing.moving" \in board'.objectives
                \/ Impaired(MovingSteps) /\ "landing.static" \in board'.objectives
                \/ Impaired(MovingSteps) /\ Impaired(StaticSteps)]_engineVars
  BY EndsAreLanded
<1> QED
  BY <1>1, EngineIsSound, PTL DEF EngineSpec, FlightsEndLanded

-----------------------------------------------------------------------------
(* An emergency *)

LEMMA StubKeepsBoard ==
  ASSUME NEW id \in Ids, Plain(id), NEW outcome \in {"success", "running"},
         NEW ticks \in Nat \ {0}, NEW s \in Good
  PROVE  /\ Stub(id, outcome, ticks).tick[s].status \in {"SUCCESS", "RUNNING"}
         /\ Stub(id, outcome, ticks).tick[s].s.board = s.board
<1> DEFINE does == [outcome |-> outcome, ticks |-> ticks]
           r == TickStub(id, does, s)
<1>1. Stub(id, outcome, ticks).tick[s] = r
  BY GoodIsState DEF Stub, Leaf
<1>2. does.outcome \in Outcomes /\ does.ticks \in Nat \ {0} /\ does.outcome # "failure"
  BY DEF Outcomes
<1> HIDE DEF does
<1>3. r.status \in Statuses /\ Leaves({id}, {}, s, r) /\ r.status # "FAILURE"
  BY <1>2, StubTicks
<1> HIDE DEF r
<1> QED
  BY <1>1, <1>3 DEF Statuses, Leaves

\* A child is passed over, or ticked: then it keeps to itself.
Ticked(kid, i, first, goesOn, v, w) ==
  \/ v.status # goesOn /\ w = v
  \/ i < first /\ w = v
  \/ /\ v.status = goesOn /\ ~(i < first)
     /\ w = [at |-> i, status |-> kid.tick[v.s].status, s |-> kid.tick[v.s].s]
     /\ w.status \in Statuses /\ w.s \in Good /\ Later(v.s, w.s) /\ Outside(kid.below, v.s, w.s)

LEMMA VisitTicks ==
  ASSUME NEW kids, NEW Z, NEW P, NEW goesOn \in {"SUCCESS", "FAILURE"}, NEW on, NEW Off, NEW E,
         BuildOn(kids, Z, P, goesOn, on, Off, E), NEW X, X \subseteq Ids, NEW s,
         \A i \in 1..Len(kids) : kids[i].below \subseteq X, NEW first, NEW i \in 1..Len(kids),
         NEW v \in Visited(kids, X, P, goesOn, on, Off, E, s, i - 1)
  PROVE  Ticked(kids[i], i, first, goesOn, v, Visit(kids[i], i, first, goesOn, v))
<1> DEFINE w == Visit(kids[i], i, first, goesOn, v)
<1>1. CASE v.status # goesOn \/ i < first
  <2>1. w = v
    BY <1>1 DEF Visit
  <2> HIDE DEF w
  <2>2. Ticked(kids[i], i, first, goesOn, v, w)
    BY <1>1, <2>1 DEF Ticked
  <2> QED
    BY <2>2 DEF w
<1>2. CASE v.status = goesOn /\ ~(i < first)
  <2> DEFINE r == kids[i].tick[v.s]
  <2>1. w = [at |-> i, status |-> r.status, s |-> r.s]
    BY <1>2 DEF Visit
  <2>2. i \in Nat /\ (i - 1) + 1 = i /\ Meets(kids[i], Z, Up(P, on, i), goesOn, on[i], Off, E)
    BY DEF BuildOn
  <2>3. v.s \in Good /\ v.s \in Up(P, on, i) /\ kids[i].below \subseteq Ids
    BY <1>2, <2>2 DEF Visited, Moves
  <2>4. Answers(kids[i], goesOn, on[i], Off, E, v.s, r)
    BY <2>2, <2>3, MeetsTicks
  <2>5. r.status \in Statuses /\ r.s \in Good /\ Later(v.s, r.s) /\ Outside(kids[i].below, v.s, r.s)
    BY <2>4 DEF Answers, Moves
  <2>6. w.status = r.status /\ w.s = r.s
    BY <2>1
  <2> HIDE DEF w, r
  <2>7. w.status = kids[i].tick[v.s].status /\ w.s = kids[i].tick[v.s].s
        /\ w = [at |-> i, status |-> kids[i].tick[v.s].status, s |-> kids[i].tick[v.s].s]
    BY <2>1, <2>6 DEF r
  <2>8. Ticked(kids[i], i, first, goesOn, v, w)
    BY <1>2, <2>5, <2>6, <2>7 DEF Ticked
  <2> QED
    BY <2>8 DEF w
<1> QED
  BY <1>1, <1>2

\* A tick of a composite without memory, and with a number that says nothing: it enters in u and
\* visits its children from the first on.
Fresh(n, id, kids, goesOn, s, u, visit) ==
  /\ u = Enter(id, kids, s)
  /\ u \in Good /\ u.board = s.board /\ Later(s, u)
  /\ \A i \in 1..Len(kids) : Ticked(kids[i], i, 1, goesOn, visit[i - 1], visit[i])
  /\ visit[0] = [at |-> 0, status |-> goesOn, s |-> u]
  /\ \A i \in 1..Len(kids) : visit[i] = Visit(kids[i], i, 1, goesOn, visit[i - 1])
  /\ \A i \in 0..Len(kids) : visit[i].at \in Nat /\ visit[i].s \in Good
  /\ n.tick[s] = Ends(id, kids, TRUE, visit[Len(kids)].at, visit[Len(kids)].status,
                      visit[Len(kids)].s)
  /\ n.tick[s].status = visit[Len(kids)].status
  /\ n.tick[s].s.board = visit[Len(kids)].s.board

LEMMA FreshTick ==
  ASSUME NEW kids, NEW Z, NEW goesOn \in {"SUCCESS", "FAILURE"}, NEW on, NEW E,
         BuildOn(kids, Z, States, goesOn, on, States, E), NEW id, Plain(id),
         NEW n, n = Composite(id, FALSE, kids, goesOn, TRUE), n.below \subseteq Ids, NEW s \in Good
  PROVE  \E u, visit : Fresh(n, id, kids, goesOn, s, u, visit)
<1> DEFINE X == n.below
           N == Len(kids)
           u == Enter(id, kids, s)
           first == First(id, FALSE, s)
<1>1. N \in Nat /\ DOMAIN kids = 1..N /\ Lasting(E)
  BY DEF BuildOn
<1>2. id \in X /\ \A i \in 1..N : kids[i].below \subseteq X
  BY <1>1, KidsBelow
<1>3. u \in Good /\ u.board = s.board /\ Later(s, u)
  <2>1. Moves(X, E, s, u)
    BY <1>1, <1>2, EnterMoves
  <2>2. CASE Running(id, s)
    BY <2>1, <2>2 DEF Moves, Enter
  <2>3. CASE ~Running(id, s)
    <3>1. ForgetFrom(kids, 1, s).board = s.board
      <4>1. Within(kids, 1, X) /\ 1 \in Nat
        BY <1>2 DEF Within
      <4> HIDE DEF X, u
      <4> QED
        BY <4>1, ForgetFromMoves
    <3> QED
      BY <2>1, <2>3, <3>1 DEF Moves, Enter
  <2> QED
    BY <2>2, <2>3
<1>4. first = 1
  BY DEF First
<1>5. n.tick[s] = LET v == Walk(kids, 1, goesOn, u) IN Ends(id, kids, TRUE, v.at, v.status, v.s)
  <2>1. n.tick[s] = TickComposite(id, FALSE, kids, goesOn, TRUE, s)
    BY GoodIsState DEF Composite
  <2> QED
    BY <1>4, <2>1 DEF TickComposite, Ends
<1> HIDE DEF u, first
<1>6. PICK visit : /\ WalksOn(kids, 1, goesOn, u, visit)
                   /\ \A i \in 0..N : visit[i] \in Visited(kids, X, States, goesOn, on, States, E,
                         u, i)
  <2>1. \A j \in 1..N : j < 1 => u \in on[j]
    BY <1>1
  <2>2. u \in States /\ 1 \in Nat
    BY <1>3, GoodIsState
  <2> QED
    BY <1>2, <1>3, <2>1, <2>2, WalkMeets
<1>7. \A i \in 0..N : visit[i].at \in Nat /\ visit[i].s \in Good
  BY <1>6 DEF Visited, Visits, Moves
<1>8. N \in 0..N
  BY <1>1
<1>15. \A i \in 1..N : Ticked(kids[i], i, 1, goesOn, visit[i - 1], visit[i])
  <2> TAKE i \in 1..N
  <2>1. i - 1 \in 0..N
    BY <1>1
  <2>2. visit[i - 1] \in Visited(kids, X, States, goesOn, on, States, E, u, i - 1)
    BY <1>6, <2>1
  <2>3. visit[i] = Visit(kids[i], i, 1, goesOn, visit[i - 1])
    BY <1>6 DEF WalksOn
  <2>4. X \subseteq Ids
    OBVIOUS
  <2> HIDE DEF X
  <2> QED
    BY <1>2, <2>2, <2>3, <2>4, VisitTicks
<1>16. u = Enter(id, kids, s)
  BY DEF u
<1> DEFINE at == visit[N].at
           status == visit[N].status
           t == visit[N].s
           yes == TRUE
           r == Ends(id, kids, yes, at, status, t)
<1>9. n.tick[s] = r
  BY <1>5, <1>6 DEF WalksOn
<1>10. at \in Nat /\ t \in Good
  BY <1>7, <1>8
<1>11. StaysSound(id, at, t)
  BY <1>10 DEF StaysSound, Plain
<1>12. id \in Ids /\ Within(kids, 1, X) /\ yes \in BOOLEAN
  BY <1>2 DEF Within
<1> HIDE DEF at, status, t, X, yes
<1>13. r.status = status /\ r.s.board = t.board
  BY <1>1, <1>2, <1>10, <1>11, <1>12, EndsWell
<1> HIDE DEF r
<1>14. Fresh(n, id, kids, goesOn, s, u, visit)
  BY <1>3, <1>6, <1>7, <1>9, <1>13, <1>15, <1>16 DEF Fresh, WalksOn, r, at, status, t, yes
<1> QED
  BY <1>14

LEMMA SafetyNames ==
  /\ SafetyBranch.below \subseteq Ids
  /\ <<"EmergencyLand">> \in Ids
<1>1. Root = Composite(<<"Root">>, FALSE, RootKids, "FAILURE", TRUE)
  BY DEF Root, Selector, RootKids
<1>2. 1 \in 1..Len(RootKids) /\ DOMAIN RootKids = 1..Len(RootKids) /\ RootKids[1] = SafetyBranch
  BY DEF RootKids
<1>3. \A i \in 1..Len(RootKids) : RootKids[i].below \subseteq Root.below
  BY <1>1, <1>2, KidsBelow
<1>4. SafetyBranch.below \subseteq Ids
  BY <1>2, <1>3, IdsAssumption
<1>5. SafetyBranch = Composite(<<"SafetyOverride">>, FALSE, SafetyKids, "SUCCESS", TRUE)
  BY DEF SafetyBranch, Sequence, SafetyKids
<1>6. 2 \in 1..Len(SafetyKids) /\ DOMAIN SafetyKids = 1..Len(SafetyKids)
      /\ SafetyKids[2] = EmergencyLand
  BY DEF SafetyKids
<1>7. \A i \in 1..Len(SafetyKids) : SafetyKids[i].below \subseteq SafetyBranch.below
  BY <1>5, <1>6, KidsBelow
<1>8. <<"EmergencyLand">> \in EmergencyLand.below
  BY DEF EmergencyLand, Stub, Leaf
<1> QED
  BY <1>4, <1>6, <1>7, <1>8

\* With a problem at hand, the safety branch does not fail, and names the problem.
LEMMA SafetyTakesOver ==
  ASSUME NEW s \in Good, Trips(s)
  PROVE  LET r == SafetyBranch.tick[s] IN
           /\ r.status \in {"SUCCESS", "RUNNING"}
           /\ r.s.board.safety_reason = FirstProblem(s.board)
<1> DEFINE id == <<"SafetyOverride">>
           kids == SafetyKids
           n == SafetyBranch
<1>1. n = Composite(id, FALSE, kids, "SUCCESS", TRUE)
  BY DEF SafetyBranch, Sequence, SafetyKids
<1>2. Len(kids) = 2 /\ kids[1] = SafetyTripped /\ kids[2] = EmergencyLand
  BY DEF SafetyKids
<1>3. Plain(id)
  <2>1. "SafetyOverride" \notin FactNames
    BY DEF FactNames
  <2> QED
    BY <2>1, NoFacts
<1> HIDE DEF id
<1>4. PICK u, visit : Fresh(n, id, kids, "SUCCESS", s, u, visit)
  BY <1>1, <1>3, SafetyNames, SafetyBuilds, FreshTick
<1>5. /\ u \in Good /\ u.board = s.board
      /\ visit[0] = [at |-> 0, status |-> "SUCCESS", s |-> u]
      /\ visit[1] = Visit(kids[1], 1, 1, "SUCCESS", visit[0])
      /\ visit[2] = Visit(kids[2], 2, 1, "SUCCESS", visit[1])
      /\ visit[1].s \in Good
      /\ n.tick[s].status = visit[2].status /\ n.tick[s].s.board = visit[2].s.board
  <2>1. 1 \in 1..2 /\ 2 \in 1..2 /\ 1 \in 0..2 /\ 1 - 1 = 0 /\ 2 - 1 = 1
    OBVIOUS
  <2> HIDE DEF kids
  <2>2. \A i \in 1..2 : visit[i] = Visit(kids[i], i, 1, "SUCCESS", visit[i - 1])
    BY <1>2, <1>4 DEF Fresh
  <2>3. visit[1] = Visit(kids[1], 1, 1, "SUCCESS", visit[0])
    BY <2>1, <2>2
  <2>4. visit[2] = Visit(kids[2], 2, 1, "SUCCESS", visit[1])
    BY <2>1, <2>2
  <2> QED
    BY <1>2, <1>4, <2>1, <2>3, <2>4 DEF Fresh
<1> HIDE DEF kids, n
<1> DEFINE a == SafetyTripped.tick[u]
           d == Done(<<"Emergency?">>, "SUCCESS", Judged(u))
<1>6. visit[1] = [at |-> 1, status |-> a.status, s |-> a.s]
  BY <1>2, <1>5 DEF Visit
<1>7. a = d /\ Judged(u) \in Good /\ Judged(u).board.safety_reason = FirstProblem(s.board)
  <2>1. Trips(u) /\ u.board.running /\ u.board = s.board
    BY <1>5 DEF Trips
  <2>2. /\ SafetyTripped.tick[u] =
             Done(<<"Emergency?">>, IF Trips(u) THEN "SUCCESS" ELSE "FAILURE", Judged(u))
        /\ Moves({<<"Emergency?">>}, EndFacts, u, Judged(u))
        /\ u.board.running => Judged(u).board.safety_reason = FirstProblem(u.board)
    BY <1>5, SafetyTrippedTicks
  <2> QED
    BY <2>1, <2>2 DEF Moves
<1>8. d.status = "SUCCESS" /\ d.s.board = Judged(u).board
  <2> DEFINE id0 == <<"Emergency?">>
             X == {id0}
  <2>1. id0 \in X
    OBVIOUS
  <2> HIDE DEF a, id0, X
  <2>2. Done(id0, "SUCCESS", Judged(u)).status = "SUCCESS"
        /\ Leaves(X, {}, Judged(u), Done(id0, "SUCCESS", Judged(u)))
    BY <1>7, <2>1, DoneMoves
  <2> QED
    BY <2>2 DEF Leaves, id0
<1> HIDE DEF a, d
<1>9. visit[1].status = "SUCCESS" /\ visit[1].s.board.safety_reason = FirstProblem(s.board)
  BY <1>6, <1>7, <1>8
<1> DEFINE w == visit[1].s
           b == EmergencyLand.tick[w]
<1>10. visit[2] = [at |-> 2, status |-> b.status, s |-> b.s]
  BY <1>2, <1>5, <1>9 DEF Visit
<1>11. b.status \in {"SUCCESS", "RUNNING"} /\ b.s.board = w.board
  <2>1. "EmergencyLand" \notin FactNames
    BY DEF FactNames
  <2>2. Plain(<<"EmergencyLand">>)
    BY <2>1, NoFacts
  <2>3. w \in Good
    BY <1>5
  <2> HIDE DEF w
  <2> QED
    BY <2>2, <2>3, SafetyNames, StubKeepsBoard DEF EmergencyLand
<1> HIDE DEF b
<1> QED
  BY <1>5, <1>9, <1>10, <1>11 DEF n

\* With a problem at hand, a tick of the root leaves nothing of the flights RUNNING.
LEMMA RootPreempts ==
  ASSUME NEW s \in Good, Trips(s)
  PROVE  LET r == Root.tick[s] IN
           /\ \A m \in r.s.mem : m.id \notin FlightPlanRunner.below
           /\ r.s.board.safety_reason = FirstProblem(s.board)
<1> DEFINE id == <<"Root">>
           kids == RootKids
           n == Root
           Y == FlightPlanRunner.below
<1>1. n = Composite(id, FALSE, kids, "FAILURE", TRUE)
  BY DEF Root, Selector, RootKids
<1>2. Len(kids) = 3 /\ kids[1] = SafetyBranch /\ kids[2] = FlightPlanRunner
  BY DEF RootKids
<1>3. Plain(id)
  BY RootPlain
<1>4. id \notin Y
  BY RunnerContract DEF Contract, OnlyRoot
<1> HIDE DEF id
<1>5. PICK u, visit : Fresh(n, id, kids, "FAILURE", s, u, visit)
  BY <1>1, <1>3, IdsAssumption, RootBuilds, FreshTick
<1>6. /\ u \in Good /\ u.board = s.board
      /\ visit[0] = [at |-> 0, status |-> "FAILURE", s |-> u]
      /\ visit[1] = Visit(kids[1], 1, 1, "FAILURE", visit[0])
      /\ visit[2] = Visit(kids[2], 2, 1, "FAILURE", visit[1])
      /\ visit[3] = Visit(kids[3], 3, 1, "FAILURE", visit[2])
      /\ visit[1].s \in Good
      /\ n.tick[s] = Ends(id, kids, TRUE, visit[3].at, visit[3].status, visit[3].s)
      /\ n.tick[s].s.board = visit[3].s.board
  <2>1. 1 \in 1..3 /\ 2 \in 1..3 /\ 3 \in 1..3 /\ 1 \in 0..3 /\ 1 - 1 = 0 /\ 2 - 1 = 1 /\ 3 - 1 = 2
    OBVIOUS
  <2> HIDE DEF kids
  <2>2. \A i \in 1..3 : visit[i] = Visit(kids[i], i, 1, "FAILURE", visit[i - 1])
    BY <1>2, <1>5 DEF Fresh
  <2>3. visit[1] = Visit(kids[1], 1, 1, "FAILURE", visit[0])
    BY <2>1, <2>2
  <2>4. visit[2] = Visit(kids[2], 2, 1, "FAILURE", visit[1])
    BY <2>1, <2>2
  <2>5. visit[3] = Visit(kids[3], 3, 1, "FAILURE", visit[2])
    BY <2>1, <2>2
  <2> QED
    BY <1>2, <1>5, <2>1, <2>3, <2>4, <2>5 DEF Fresh
<1> HIDE DEF kids, n
<1> DEFINE a == SafetyBranch.tick[u]
<1>7. visit[1] = [at |-> 1, status |-> a.status, s |-> a.s]
  <2>1. visit[0].status = "FAILURE" /\ visit[0].s = u
    BY <1>6
  <2>2. visit[1] = Visit(SafetyBranch, 1, 1, "FAILURE", visit[0])
    BY <1>2, <1>6
  <2> QED
    BY <2>1, <2>2 DEF Visit
<1>8. a.status \in {"SUCCESS", "RUNNING"} /\ a.s.board.safety_reason = FirstProblem(s.board)
  <2>1. Trips(u) /\ u.board = s.board
    BY <1>6 DEF Trips
  <2> QED
    BY <1>6, <2>1, SafetyTakesOver
<1> HIDE DEF a
<1>9. visit[1].status \in {"SUCCESS", "RUNNING"} /\ visit[1].at = 1
      /\ visit[1].s.board.safety_reason = FirstProblem(s.board)
  BY <1>7, <1>8
<1>10. visit[3] = visit[1]
  <2>1. visit[2] = visit[1]
    BY <1>6, <1>9 DEF Visit
  <2> QED
    BY <1>6, <1>9, <2>1 DEF Visit
<1> DEFINE t == visit[1].s
           status == visit[1].status
           rest == ForgetFrom(kids, 2, t)
<1>11. n.tick[s] = IF status = "RUNNING" THEN Goes(id, 1, rest) ELSE Done(id, status, rest)
  <2>1. n.tick[s] = Ends(id, kids, TRUE, 1, status, t)
    BY <1>6, <1>9, <1>10
  <2>2. 1 + 1 = 2
    OBVIOUS
  <2> HIDE DEF t, status
  <2> QED
    BY <2>1, <2>2 DEF Ends
<1>12. \A m \in rest.mem : m.id \notin Y
  <2>1. rest.mem = {m \in t.mem : \A j \in 2..Len(kids) : m.id \notin kids[j].below}
    <3>1. t \in States
      BY <1>6, GoodIsState
    <3> HIDE DEF t
    <3> QED
      BY <3>1 DEF ForgetFrom, States
  <2>2. 2 \in 2..Len(kids)
    BY <1>2
  <2> QED
    BY <1>2, <2>1, <2>2
<1>13. rest \in Good
  <2>1. Within(kids, 2, Root.below)
    <3>1. DOMAIN kids = 1..Len(kids)
      BY DEF kids, RootKids
    <3>2. \A i \in 1..Len(kids) : kids[i].below \subseteq Root.below
      BY <1>1, <3>1, KidsBelow DEF n
    <3> QED
      BY <1>2, <3>2 DEF Within
  <2>2. t \in Good /\ 2 \in Nat
    BY <1>6
  <2> HIDE DEF t
  <2>3. Moves(Root.below, EndFacts, t, ForgetFrom(kids, 2, t))
    BY <2>1, <2>2, ForgetFromMoves
  <2> QED
    BY <2>3 DEF Moves
<1> HIDE DEF rest
<1>14. \A m \in Goes(id, 1, rest).s.mem : m.id \notin Y
  <2>1. Goes(id, 1, rest).s.mem = {m \in rest.mem : m.id # id} \cup {[id |-> id, number |-> 1]}
    BY <1>13, GoesRemembers
  <2> HIDE DEF Y
  <2> QED
    BY <1>4, <1>12, <2>1
<1>15. \A m \in Done(id, status, rest).s.mem : m.id \notin Y
  <2>1. Done(id, status, rest).s.mem = {m \in rest.mem : m.id # id}
    BY <1>13, DoneForgets
  <2> HIDE DEF Y
  <2> QED
    BY <1>12, <2>1
<1>16. n.tick[s].s.board.safety_reason = FirstProblem(s.board)
  BY <1>6, <1>9, <1>10
<1> HIDE DEF status, Y
<1> QED
  BY <1>11, <1>14, <1>15, <1>16 DEF n, Y

\* A tick that finds an emergency leaves no node of a flight RUNNING and says why, whatever the
\* tree was doing.
THEOREM SafetyDoesPreempt == EngineSpec => SafetyPreempts
<1>1. ASSUME EngineInv, OnTick, Emergency
      PROVE  /\ \A m \in mem' : m.id \notin FlightPlanRunner.below
             /\ board'.safety_reason = FirstProblem(board)
  <2>1. Now \in Good /\ Trips(Now)
    BY <1>1 DEF EngineInv, Emergency, Trips, Now
  <2>2. mem' = Root.tick[Now].s.mem /\ board' = Root.tick[Now].s.board
    BY <1>1 DEF OnTick, Now
  <2>3. Now.board = board
    BY DEF Now
  <2> QED
    BY <2>1, <2>2, <2>3, RootPreempts
<1>2. EngineInv /\ [EngineNext]_engineVars =>
        [OnTick /\ Emergency =>
           /\ \A m \in mem' : m.id \notin FlightPlanRunner.below
           /\ board'.safety_reason = FirstProblem(board)]_engineVars
  BY <1>1
<1> QED
  BY <1>2, EngineIsSound, PTL DEF EngineSpec, SafetyPreempts

-----------------------------------------------------------------------------
(* A flight takes off once *)

Flights == {"FlightA", "FlightB"}
PlanOf(flight) == IF flight = "FlightA" THEN "flight_a" ELSE "flight_b"
Active(flight, s) == s.board.running /\ s.board.flight_plan = PlanOf(flight)

NoArm(flight, s) == \A m \in s.mem : m.id # Arm(flight)
Armed(flight, s, least) == \E m \in s.mem : m.id = Arm(flight) /\ m.number >= least
Starts(flight, s) == \E m \in s.mem : m.id = Arm(flight) /\ m.number = 1

\* A RUNNING flight is taking off, or has taken off.
Underway(flight, s) ==
  \E m \in s.mem : /\ m.id = <<flight>>
                   /\ \/ m.number = 1 /\ Armed(flight, s, 1)
                      \/ m.number >= 2 /\ NoArm(flight, s)

\* So are the nodes C above it: none of them will start it over.
Orderly(flight, C, s) == Running(<<flight>>, s) => Underway(flight, s) /\ \A c \in C : Running(c, s)

\* A tick from s to r.s lets the flight run on, once started, until it is over; only a flight that
\* is called for and not RUNNING starts.
Borne(flight, C, s, r) ==
  /\ Orderly(flight, C, r.s)
  /\ Running(<<flight>>, r.s) => r.status = "RUNNING" /\ Active(flight, s)
  /\ Starts(flight, r.s) => Active(flight, s) /\ ~Running(<<flight>>, s)
  /\ Active(flight, s) /\ ~Trips(s) /\ r.s.board.running /\ s \in Works("LandNearTurbineBase") =>
       Running(<<flight>>, r.s)

LEMMA TakeoffTicks ==
  ASSUME NEW flight, Arm(flight) \in Ids, NEW s \in Good
  PROVE  LET r == ArmAndTakeoff(flight).tick[s] IN
           \/ r.status = "RUNNING" /\ Armed(flight, r.s, Number(Arm(flight), s) + 1)
           \/ r.status = "SUCCESS" /\ NoArm(flight, r.s)
<1> DEFINE id == Arm(flight)
           does == [outcome |-> "success", ticks |-> 3]
           elapsed == Number(id, s) + 1
           r == ArmAndTakeoff(flight).tick[s]
<1>1. r = TickStub(id, does, s)
  BY GoodIsState DEF ArmAndTakeoff, Stub, Leaf, Arm
<1>2. elapsed \in Nat /\ does.outcome = "success" /\ does.ticks = 3
  BY NumberIs
<1> HIDE DEF id, does, r, elapsed
<1>3. CASE elapsed < does.ticks
  <2>1. r = Goes(id, elapsed, s)
    <3>1. ~(elapsed >= does.ticks)
      BY <1>2, <1>3
    <3> QED
      BY <1>1, <1>2, <1>3, <3>1 DEF TickStub, elapsed
  <2> DEFINE m == [id |-> id, number |-> elapsed]
  <2>2. r.status = "RUNNING"
    BY <2>1 DEF Goes
  <2>3. m \in r.s.mem
    BY <2>1, GoesRemembers
  <2>4. m.id = id /\ m.number >= elapsed
    BY <1>2
  <2> QED
    BY <2>2, <2>3, <2>4 DEF Armed, r, elapsed, id
<1>4. CASE ~(elapsed < does.ticks)
  <2>1. r = Done(id, "SUCCESS", s)
    <3>1. elapsed >= does.ticks
      BY <1>2, <1>4
    <3> QED
      BY <1>1, <1>2, <1>4, <3>1 DEF TickStub, elapsed
  <2>2. r.status = "SUCCESS"
    BY <2>1 DEF Done
  <2>3. \A m \in r.s.mem : m.id # id
    BY <2>1, DoneForgets
  <2> QED
    BY <2>2, <2>3 DEF NoArm, r, id
<1> QED
  BY <1>3, <1>4

\* Visits of the children of a flight: the takeoff counts on, or is over.
Aloft(flight, least) ==
  {v \in Visits :
     \/ v.status = "RUNNING" /\ v.at = 1 /\ Armed(flight, v.s, least)
     \/ NoArm(flight, v.s) /\ (v.status = "SUCCESS" \/ v.at >= 2)}

LEMMA AloftStarts ==
  ASSUME NEW flight, Arm(flight) \in Ids, NEW t \in Good, NEW v, v.status = "SUCCESS", v.s = t,
         v \in Visits, NEW first \in Nat, NEW w,
         Ticked(ArmAndTakeoff(flight), 1, first, "SUCCESS", v, w), NEW least \in {1, 2},
         \/ first <= 1 /\ (least = 2 => Armed(flight, t, 1))
         \/ first >= 2 /\ NoArm(flight, t)
  PROVE  w \in Aloft(flight, least)
<1>1. CASE first >= 2 /\ NoArm(flight, t)
  <2>1. w = v
    BY <1>1 DEF Ticked
  <2> QED
    BY <1>1, <2>1 DEF Aloft
<1>2. CASE first <= 1 /\ (least = 2 => Armed(flight, t, 1))
  <2> DEFINE r == ArmAndTakeoff(flight).tick[t]
             k == Number(Arm(flight), t)
  <2>1. w = [at |-> 1, status |-> r.status, s |-> r.s] /\ w.status \in Statuses /\ w.s \in Good
    BY <1>2 DEF Ticked
  <2>2. w.at = 1 /\ w.status = r.status /\ w.s = r.s
    BY <2>1
  <2>3. w \in Visits
    BY <2>1, <2>2, GoodIsState DEF Visits
  <2>4. k \in Nat /\ (Armed(flight, t, 1) => k >= 1)
    BY NumberIs DEF Armed
  <2>5. \/ r.status = "RUNNING" /\ Armed(flight, r.s, k + 1)
        \/ r.status = "SUCCESS" /\ NoArm(flight, r.s)
    BY TakeoffTicks
  <2>6. k + 1 >= least
    BY <1>2, <2>4
  <2>7. Armed(flight, r.s, k + 1) => Armed(flight, r.s, least)
    <3>1. \A m \in w.s.mem : m.number \in Nat
      BY <2>1, GoodIsState, StateParts
    <3> HIDE DEF r, k
    <3> QED
      BY <2>2, <2>4, <2>6, <3>1 DEF Armed
  <2> HIDE DEF r, k
  <2> QED
    BY <2>2, <2>3, <2>5, <2>7 DEF Aloft
<1> QED
  BY <1>1, <1>2

LEMMA AloftGoesOn ==
  ASSUME NEW flight, NEW least, NEW v \in Aloft(flight, least), NEW kid, Arm(flight) \notin kid.below,
         NEW i \in Nat, i >= 2, NEW first, NEW w, Ticked(kid, i, first, "SUCCESS", v, w)
  PROVE  w \in Aloft(flight, least)
<1>1. CASE w = v
  BY <1>1
<1>2. CASE w # v
  <2>1. /\ v.status = "SUCCESS"
        /\ w = [at |-> i, status |-> kid.tick[v.s].status, s |-> kid.tick[v.s].s]
        /\ w.status \in Statuses /\ w.s \in Good /\ Outside(kid.below, v.s, w.s)
    BY <1>2 DEF Ticked
  <2>2. NoArm(flight, v.s)
    BY <2>1 DEF Aloft
  <2>3. NoArm(flight, w.s)
    <3>1. \A m \in w.s.mem : m.id \notin kid.below => m \in v.s.mem
      BY <2>1 DEF Outside
    <3> QED
      BY <2>2, <3>1 DEF NoArm
  <2>4. w.at = i
    BY <2>1
  <2>5. w \in Visits
    BY <2>1, GoodIsState DEF Visits
  <2> QED
    BY <2>3, <2>4, <2>5 DEF Aloft
<1> QED
  BY <1>1, <1>2

\* A composite that has entered knows what its number says.
LEMMA EnterKnows ==
  ASSUME NEW kids, NEW Z, NEW P, NEW goesOn, NEW on, NEW Off, NEW E,
         BuildOn(kids, Z, P, goesOn, on, Off, E), NEW id, Remembers(id, TRUE, Len(kids), on),
         NEW X, \A i \in 1..Len(kids) : kids[i].below \subseteq X, NEW s \in Good, s \in P
  PROVE  /\ Moves(X, E, s, Enter(id, kids, s)) /\ Enter(id, kids, s) \in P
         /\ First(id, TRUE, s) \in Nat
         /\ \A j \in 1..Len(kids) : j < First(id, TRUE, s) => Enter(id, kids, s) \in on[j]
<1> DEFINE N == Len(kids)
           t == Enter(id, kids, s)
           first == First(id, TRUE, s)
<1>1. N \in Nat /\ Lasting(P)
  BY DEF BuildOn
<1>2. Moves(X, E, s, t) /\ (Running(id, s) => t = s)
  BY <1>1, EnterMoves
<1>3. t \in P
  BY <1>1, <1>2, FactsStay
<1>4. first \in Nat
  BY NumberIs DEF First
<1>5. CASE Running(id, s)
  <2>1. t = s /\ first = Number(id, s) /\ Sound(id, first, s) /\ s \in States
    BY <1>2, <1>5, NumberIs, GoodIsState DEF First
  <2> HIDE DEF t, first
  <2>2. \A j \in 1..N : j < first => t \in on[j]
    BY <1>4, <2>1 DEF Sound, Remembers
  <2> QED
    BY <1>2, <1>3, <1>4, <2>2 DEF t, first
<1>6. CASE ~Running(id, s)
  <2>1. first = 1
    BY <1>6 DEF First
  <2> HIDE DEF t, first
  <2>2. \A j \in 1..N : ~(j < first)
    BY <1>1, <2>1
  <2>3. Moves(X, E, s, t) /\ t \in P /\ first \in Nat /\ \A j \in 1..N : j < first => t \in on[j]
    BY <1>2, <1>3, <1>4, <2>2
  <2> QED
    BY <2>3 DEF t, first
<1> QED
  BY <1>5, <1>6

\* A tick of a flight with its number: what it walks, and what it makes of it.
FlightTick(n, id, kids, s, visit) ==
  /\ visit[0] = [at |-> 0, status |-> "SUCCESS", s |-> Enter(id, kids, s)]
  /\ Enter(id, kids, s) \in Good
  /\ First(id, TRUE, s) \in Nat
  /\ \A i \in 1..Len(kids) : Ticked(kids[i], i, First(id, TRUE, s), "SUCCESS", visit[i - 1], visit[i])
  /\ \A i \in 0..Len(kids) : visit[i] \in Visits /\ visit[i].s \in Good
  /\ n.tick[s] = Ends(id, kids, FALSE, visit[Len(kids)].at, visit[Len(kids)].status,
                      visit[Len(kids)].s)

LEMMA FlightTicks ==
  ASSUME NEW flight, NEW n, NEW kids, NEW P, NEW on, NEW Off,
         FlightParts(flight, n, kids, P, on, Off), n.below \subseteq Ids, NEW s \in Good, s \in P
  PROVE  \E visit : FlightTick(n, <<flight>>, kids, s, visit)
<1> DEFINE id == <<flight>>
           X == n.below
           N == Len(kids)
           t == Enter(id, kids, s)
           first == First(id, TRUE, s)
           Z == Beside(flight)
<1>1. /\ n = Composite(id, TRUE, kids, "SUCCESS", FALSE)
      /\ BuildOn(kids, Z, P, "SUCCESS", on, Off, EndFacts)
      /\ Remembers(id, TRUE, N, on)
      /\ N \in Nat /\ DOMAIN kids = 1..N /\ Lasting(EndFacts)
  BY DEF FlightParts, Sequence, BuildOn
<1>2. \A i \in 1..N : kids[i].below \subseteq X
  BY <1>1, KidsBelow
<1> HIDE DEF id, X, Z
<1>3. Moves(X, EndFacts, s, t) /\ t \in P /\ first \in Nat /\ \A j \in 1..N : j < first => t \in on[j]
  BY <1>1, <1>2, EnterKnows
<1>4. t \in Good
  BY <1>3 DEF Moves
<1>5. X \subseteq Ids
  BY DEF X
<1>6. n.tick[s] = LET v == Walk(kids, first, "SUCCESS", t) IN Ends(id, kids, FALSE, v.at, v.status,
      v.s)
  <2>1. n.tick[s] = TickComposite(id, TRUE, kids, "SUCCESS", FALSE, s)
    BY <1>1, GoodIsState DEF Composite
  <2> QED
    BY <2>1 DEF TickComposite, Ends
<1> HIDE DEF t, first
<1>7. PICK visit : /\ WalksOn(kids, first, "SUCCESS", t, visit)
                   /\ \A i \in 0..N : visit[i] \in Visited(kids, X, P, "SUCCESS", on, Off,
                         EndFacts, t, i)
  BY <1>1, <1>2, <1>3, <1>4, <1>5, WalkMeets
<1>8. \A i \in 0..N : visit[i] \in Visits /\ visit[i].s \in Good
  BY <1>7 DEF Visited, Moves
<1>9. ASSUME NEW i \in 1..N PROVE Ticked(kids[i], i, first, "SUCCESS", visit[i - 1], visit[i])
  <2>1. i - 1 \in 0..N
    BY <1>1
  <2>2. visit[i - 1] \in Visited(kids, X, P, "SUCCESS", on, Off, EndFacts, t, i - 1)
    BY <1>7, <2>1
  <2>3. visit[i] = Visit(kids[i], i, first, "SUCCESS", visit[i - 1])
    BY <1>7 DEF WalksOn
  <2> QED
    BY <1>1, <1>2, <1>5, <2>2, <2>3, VisitTicks
<1>10. visit[0] = [at |-> 0, status |-> "SUCCESS", s |-> t]
       /\ Walk(kids, first, "SUCCESS", t) = visit[N]
  BY <1>7 DEF WalksOn
<1>11. n.tick[s] = Ends(id, kids, FALSE, visit[N].at, visit[N].status, visit[N].s)
  BY <1>6, <1>10
<1>12. FlightTick(n, id, kids, s, visit)
  BY <1>3, <1>4, <1>8, <1>9, <1>10, <1>11 DEF FlightTick, t, first
<1> QED
  BY <1>12 DEF id

\* At the end of the walk the takeoff counts on, or is over.
LEMMA FlightStaysAloft ==
  ASSUME NEW flight \in Flights, NEW n, NEW kids, NEW P, NEW on, NEW Off,
         FlightParts(flight, n, kids, P, on, Off), n.below \subseteq Ids, NEW s \in Good,
         Orderly(flight, {}, s), NEW visit, FlightTick(n, <<flight>>, kids, s, visit),
         NEW least \in {1, 2}, least = 2 <=> Running(<<flight>>, s)
  PROVE  visit[Len(kids)] \in Aloft(flight, least)
<1> DEFINE id == <<flight>>
           N == Len(kids)
           t == Enter(id, kids, s)
           first == First(id, TRUE, s)
<1>1. /\ N \in Nat /\ 2 <= N /\ DOMAIN kids = 1..N /\ kids[1] = ArmAndTakeoff(flight)
      /\ n = Composite(id, TRUE, kids, "SUCCESS", FALSE)
      /\ \A i \in 2..N : \A z \in Spine : z \notin kids[i].below
  BY DEF FlightParts, Sequence, BuildOn
<1>2. Arm(flight) \in Ids
  <2>1. Arm(flight) \in kids[1].below
    BY <1>1 DEF ArmAndTakeoff, Stub, Leaf, Arm
  <2>2. 1 \in 1..N
    BY <1>1
  <2>3. \A i \in 1..N : kids[i].below \subseteq n.below
    BY <1>1, KidsBelow
  <2> QED
    BY <2>1, <2>2, <2>3
<1>3. /\ visit[0] = [at |-> 0, status |-> "SUCCESS", s |-> t] /\ t \in Good /\ first \in Nat
      /\ \A i \in 1..N : Ticked(kids[i], i, first, "SUCCESS", visit[i - 1], visit[i])
      /\ \A i \in 0..N : visit[i] \in Visits
  BY DEF FlightTick
<1>4. \/ first <= 1 /\ (least = 2 => Armed(flight, t, 1))
      \/ first >= 2 /\ NoArm(flight, t)
  <2>1. CASE Running(id, s)
    <3>1. t = s /\ first = Number(id, s) /\ Underway(flight, s)
      BY <2>1 DEF Enter, First, Orderly
    <3>2. PICK m \in s.mem : /\ m.id = id
                             /\ \/ m.number = 1 /\ Armed(flight, s, 1)
                                \/ m.number >= 2 /\ NoArm(flight, s)
      BY <3>1 DEF Underway
    <3>3. first = m.number
      BY <3>1, <3>2, NumberIs
    <3> HIDE DEF t, first
    <3> QED
      BY <3>1, <3>2, <3>3
  <2>2. CASE ~Running(id, s)
    <3>1. first = 1
      BY <2>2 DEF First
    <3>2. least # 2
      BY <2>2
    <3> HIDE DEF t, first
    <3> QED
      BY <3>1, <3>2
  <2> QED
    BY <2>1, <2>2
<1> HIDE DEF t, first
<1>5. visit[1] \in Aloft(flight, least)
  <2> DEFINE v == visit[0]
  <2>1. v.status = "SUCCESS" /\ v.s = t
    BY <1>3
  <2>2. Ticked(ArmAndTakeoff(flight), 1, first, "SUCCESS", v, visit[1]) /\ v \in Visits
    <3>1. 1 \in 1..N /\ 0 \in 0..N /\ 1 - 1 = 0
      BY <1>1
    <3> QED
      BY <1>1, <1>3, <3>1
  <2> HIDE DEF v
  <2> QED
    BY <1>2, <1>3, <1>4, <2>1, <2>2, AloftStarts
<1> DEFINE inv == [i \in 0..N |-> IF i = 0 THEN {visit[0]} ELSE Aloft(flight, least)]
<1>6. visit[0] \in inv[0]
  BY <1>1
<1>7. ASSUME NEW i \in 1..N, visit[i - 1] \in inv[i - 1] PROVE visit[i] \in inv[i]
  <2>1. CASE i = 1
    BY <1>1, <1>5, <2>1
  <2>2. CASE i # 1
    <3>1. i \in 2..N /\ i - 1 \in 0..N /\ i - 1 # 0 /\ i \in 0..N /\ i # 0 /\ i \in Nat /\ i >= 2
      BY <1>1, <2>2
    <3>2. visit[i - 1] \in Aloft(flight, least)
      BY <1>7, <3>1
    <3>3. Arm(flight) \notin kids[i].below
      BY <1>1, <3>1 DEF Spine, Arm, Flights
    <3>4. Ticked(kids[i], i, first, "SUCCESS", visit[i - 1], visit[i])
      BY <1>3
    <3>5. visit[i] \in Aloft(flight, least)
      BY <3>1, <3>2, <3>3, <3>4, AloftGoesOn
    <3> QED
      BY <3>1, <3>5
  <2> QED
    BY <2>1, <2>2
<1> HIDE DEF inv
<1>8. \A i \in 0..N : visit[i] \in inv[i]
  BY <1>1, <1>6, <1>7, StepByStep
<1> QED
  BY <1>1, <1>8 DEF inv

\* A flight that ends its walk aloft bears the takeoff.
LEMMA AloftBears ==
  ASSUME NEW flight \in Flights, NEW kids, NEW t \in Good, NEW at \in Nat, NEW status,
        NEW least \in Nat,
         \/ status = "RUNNING" /\ at = 1 /\ Armed(flight, t, least)
         \/ NoArm(flight, t) /\ (status = "SUCCESS" \/ at >= 2),
         NEW s, least = 1 \/ least = 2, Running(<<flight>>, s) => least = 2, Active(flight, s),
         NEW r, r = Ends(<<flight>>, kids, FALSE, at, status, t),
         status # "RUNNING" => ~r.s.board.running \/ s \notin Works("LandNearTurbineBase")
  PROVE  Borne(flight, {}, s, r)
<1> DEFINE id == <<flight>>
           arm == Arm(flight)
<1>1. arm # id
  BY DEF Arm, Flights
<1>2. Running(id, s) => least = 2
  OBVIOUS
<1>3. status = "RUNNING" => r = Goes(id, at, t)
  BY DEF Ends
<1>4. status # "RUNNING" => r = Done(id, status, t)
  BY DEF Ends
<1>5. \A m, k \in t.mem : m.id = k.id => m = k
  BY DEF Good
<1>6. \A m \in t.mem : m.number \in Nat
  BY GoodIsState, StateParts
<1>7. CASE status = "RUNNING"
  <2>1. r = Goes(id, at, t) /\ r.status = "RUNNING"
    <3>1. r = Goes(id, at, t)
      BY <1>3, <1>7
    <3> HIDE DEF id, arm
    <3>2. Goes(id, at, t).status = "RUNNING"
      BY DEF Goes
    <3> QED
      BY <3>1, <3>2
  <2> HIDE DEF id, arm
  <2>2. /\ \E m \in r.s.mem : m.id = id /\ m.number = at
        /\ \A m \in r.s.mem : m.id = arm => m \in t.mem
        /\ \A m \in t.mem : m.id = arm => m \in r.s.mem
    <3> DEFINE k == [id |-> id, number |-> at]
    <3>1. Goes(id, at, t).s.mem = {m \in t.mem : m.id # id} \cup {k}
      BY GoesRemembers
    <3>2. r.s.mem = {m \in t.mem : m.id # id} \cup {k}
      BY <2>1, <3>1
    <3>3. k.id = id /\ k.number = at
      OBVIOUS
    <3> HIDE DEF k
    <3> QED
      BY <1>1, <3>2, <3>3
  <2>3. \/ at = 1 /\ Armed(flight, t, least)
        \/ at >= 2 /\ NoArm(flight, t)
    BY <1>7
  <2>4. Running(id, r.s)
    BY <2>2 DEF Running
  <2>5. CASE at = 1 /\ Armed(flight, t, least)
    <3>1. PICK a \in t.mem : a.id = arm /\ a.number >= least
      BY <2>5 DEF Armed, arm
    <3>2. a \in r.s.mem
      BY <2>2, <3>1
    <3>6. a.number >= 1
      <4>1. a.number \in Nat
        BY <1>6, <3>1
      <4> QED
        BY <3>1, <4>1
    <3>3. Armed(flight, r.s, 1)
      BY <3>1, <3>2, <3>6 DEF Armed, arm
    <3>4. Underway(flight, r.s)
      BY <2>2, <2>5, <3>3 DEF Underway, id
    <3>5. Starts(flight, r.s) => ~Running(id, s)
      <4>1. ASSUME NEW m \in r.s.mem, m.id = arm, m.number = 1 PROVE least # 2
        <5>1. m = a
          BY <1>5, <2>2, <3>1, <4>1
        <5> QED
          BY <3>1, <4>1, <5>1
      <4> QED
        BY <1>2, <4>1 DEF Starts, arm
    <3> QED
      BY <2>1, <2>4, <3>4, <3>5 DEF Borne, Orderly, id
  <2>6. CASE at >= 2 /\ NoArm(flight, t)
    <3>1. NoArm(flight, r.s)
      BY <2>2, <2>6 DEF NoArm, arm
    <3>2. Underway(flight, r.s)
      BY <2>2, <2>6, <3>1 DEF Underway, id
    <3>3. ~Starts(flight, r.s)
      BY <3>1 DEF Starts, NoArm
    <3> QED
      BY <2>1, <2>4, <3>2, <3>3 DEF Borne, Orderly, id
  <2> QED
    BY <2>3, <2>5, <2>6
<1>8. CASE status # "RUNNING"
  <2>1. r = Done(id, status, t)
    BY <1>4, <1>8
  <2> HIDE DEF id, arm
  <2>2. r.s.mem = {m \in t.mem : m.id # id}
    <3>1. Done(id, status, t).s.mem = {m \in t.mem : m.id # id}
      BY DoneForgets
    <3> QED
      BY <2>1, <3>1
  <2>3. ~Running(id, r.s)
    BY <2>2 DEF Running
  <2>4. NoArm(flight, t)
    BY <1>8
  <2>5. ~Starts(flight, r.s)
    BY <2>2, <2>4 DEF Starts, NoArm
  <2> QED
    BY <1>8, <2>3, <2>5 DEF Borne, Orderly, id
<1> QED
  BY <1>7, <1>8

\* A tick of a flight bears its takeoff.
LEMMA FlightCarries ==
  ASSUME NEW flight \in Flights, NEW n, NEW kids, NEW P, NEW on, NEW Off,
         FlightParts(flight, n, kids, P, on, Off), n.below \subseteq Ids, NEW s \in Good, s \in P,
         Active(flight, s), Orderly(flight, {}, s),
         \A t \in Off : t \notin Works("LandNearTurbineBase")
  PROVE  Borne(flight, {}, s, n.tick[s])
<1> DEFINE id == <<flight>>
           N == Len(kids)
           r == n.tick[s]
           least == IF Running(id, s) THEN 2 ELSE 1
           W == Works("LandNearTurbineBase")
<1>1. PICK visit : FlightTick(n, id, kids, s, visit)
  BY FlightTicks
<1>2. least \in {1, 2} /\ least \in Nat /\ (least = 2 <=> Running(id, s))
  OBVIOUS
<1> HIDE DEF id, least
<1>3. visit[N] \in Aloft(flight, least)
  BY <1>1, <1>2, FlightStaysAloft DEF id
<1>4. N \in 0..N
  BY DEF FlightParts, BuildOn
<1> DEFINE v == visit[N]
<1>5. v.s \in Good /\ r = Ends(id, kids, FALSE, v.at, v.status, v.s) /\ v.status \in Statuses
      /\ v.at \in Nat
  <2>1. N \in 0..Len(kids)
    BY <1>4
  <2> HIDE DEF N
  <2>2. v \in Visits /\ v.s \in Good
    BY <1>1, <2>1 DEF FlightTick
  <2> QED
    BY <1>1, <2>2 DEF FlightTick, Visits, N
<1>6. Fulfils(n, Over, Off, EndFacts, s, r)
  BY FlightContract DEF Contract
<1>7. s \in W => r.s \in W
  <2>1. Moves(n.below, EndFacts, s, r.s)
    BY <1>6 DEF Fulfils
  <2>2. Lasting(W)
    BY SimpleFacts, FactsLast
  <2> HIDE DEF W, r
  <2> QED
    BY <2>1, <2>2, FactsStay
<1>8. r.status = v.status
  BY <1>5 DEF Ends, Goes, Done
<1>9. v.status # "RUNNING" => ~r.s.board.running \/ s \notin W
  <2>1. r.status = "SUCCESS" => ~r.s.board.running
    BY <1>6 DEF Fulfils, Over
  <2>2. r.status = "FAILURE" => r.s \notin W
    BY <1>6 DEF Fulfils
  <2>3. v.status \in {"SUCCESS", "FAILURE", "RUNNING"}
    BY <1>5 DEF Statuses
  <2> HIDE DEF r, v, W
  <2> QED
    BY <1>7, <1>8, <2>1, <2>2, <2>3
<1>10. \/ v.status = "RUNNING" /\ v.at = 1 /\ Armed(flight, v.s, least)
       \/ NoArm(flight, v.s) /\ (v.status = "SUCCESS" \/ v.at >= 2)
  BY <1>3 DEF Aloft
<1> DEFINE t == v.s
           at == v.at
           status == v.status
<1>11. /\ t \in Good /\ at \in Nat /\ r = Ends(id, kids, FALSE, at, status, t)
       /\ status # "RUNNING" => ~r.s.board.running \/ s \notin W
       /\ \/ status = "RUNNING" /\ at = 1 /\ Armed(flight, t, least)
          \/ NoArm(flight, t) /\ (status = "SUCCESS" \/ at >= 2)
  BY <1>5, <1>9, <1>10
<1> HIDE DEF r, v, t, at, status
<1>12. Borne(flight, {}, s, r)
  BY <1>2, <1>11, AloftBears DEF id
<1> QED
  BY <1>12 DEF r

-----------------------------------------------------------------------------
(* What lies above a flight bears it as well *)

\* The nodes of K remember the same in s and in t.
Untouched(K, s, t) == {m \in s.mem : m.id \in K} = {m \in t.mem : m.id \in K}

Own(flight, C) == {<<flight>>, Arm(flight)} \cup C

LEMMA UntouchedFlight ==
  ASSUME NEW flight, NEW C, NEW s, NEW t, Untouched(Own(flight, C), s, t)
  PROVE  /\ Running(<<flight>>, s) <=> Running(<<flight>>, t)
         /\ Starts(flight, s) <=> Starts(flight, t)
         /\ Orderly(flight, C, s) <=> Orderly(flight, C, t)
<1> DEFINE K == Own(flight, C)
           id == <<flight>>
           arm == Arm(flight)
<1>1. id \in K /\ arm \in K /\ C \subseteq K
  BY DEF Own
<1>2. \A m : m.id \in K => (m \in s.mem <=> m \in t.mem)
  BY DEF Untouched
<1> HIDE DEF K, id, arm
<1>3. \A k \in K : Running(k, s) <=> Running(k, t)
  BY <1>2 DEF Running
<1>4. Starts(flight, s) <=> Starts(flight, t)
  BY <1>1, <1>2 DEF Starts, arm
<1>5. \A least : Armed(flight, s, least) <=> Armed(flight, t, least)
  BY <1>1, <1>2 DEF Armed, arm
<1>6. NoArm(flight, s) <=> NoArm(flight, t)
  BY <1>1, <1>2 DEF NoArm, arm
<1>7. Underway(flight, s) <=> Underway(flight, t)
  BY <1>1, <1>2, <1>5, <1>6 DEF Underway, id
<1> QED
  BY <1>1, <1>3, <1>4, <1>7 DEF Orderly, id

\* From the visit v to the visit w, the nodes of K are left alone.
Kept(K, goesOn, v, w) ==
  /\ Untouched(K, v.s, w.s) /\ Later(v.s, w.s)
  /\ v.status # goesOn => w = v

LEMMA KeptTick ==
  ASSUME NEW K, NEW goesOn, NEW v, v.s \in Good, NEW w, NEW kid, \A z \in K : z \notin kid.below,
         NEW i, NEW first, Ticked(kid, i, first, goesOn, v, w)
  PROVE  Kept(K, goesOn, v, w)
<1>1. CASE w = v
  <2> DEFINE s == v.s
  <2>1. s \in States
    BY GoodIsState
  <2> HIDE DEF s
  <2>2. Later(s, s) /\ Untouched(K, s, s)
    BY <2>1, LaterRefl DEF Untouched
  <2> QED
    BY <1>1, <2>2 DEF Kept, s
<1>2. CASE w # v
  <2>1. v.status = goesOn /\ Later(v.s, w.s) /\ Outside(kid.below, v.s, w.s)
    BY <1>2 DEF Ticked
  <2>2. Untouched(K, v.s, w.s)
    BY <2>1 DEF Outside, Untouched
  <2> QED
    BY <2>1, <2>2 DEF Kept
<1> QED
  BY <1>1, <1>2

LEMMA KeptChain ==
  ASSUME NEW K, NEW goesOn, NEW v, NEW w, NEW x, Kept(K, goesOn, v, w), Kept(K, goesOn, w, x)
  PROVE  Kept(K, goesOn, v, x)
<1>1. Untouched(K, v.s, x.s)
  BY DEF Kept, Untouched
<1>2. Later(v.s, x.s)
  BY LaterTrans DEF Kept
<1> QED
  BY <1>1, <1>2 DEF Kept

\* The visits of kids, one after the other.
Visiting(kids, goesOn, visit) ==
  /\ Len(kids) \in Nat
  /\ visit[0].at = 0
  /\ \A i \in 1..Len(kids) : Ticked(kids[i], i, 1, goesOn, visit[i - 1], visit[i])
  /\ \A i \in 0..Len(kids) : visit[i].at \in Nat /\ visit[i].s \in Good

LEMMA KeptAlong ==
  ASSUME NEW K, NEW kids, NEW goesOn, NEW visit, Visiting(kids, goesOn, visit),
         NEW p \in 0..Len(kids), NEW q \in p..Len(kids),
         \A i \in (p + 1)..q : \A z \in K : z \notin kids[i].below
  PROVE  Kept(K, goesOn, visit[p], visit[q])
<1> DEFINE N == Len(kids)
           inv == [k \in 0..q |-> {x \in {visit[k]} : k >= p => Kept(K, goesOn, visit[p], x)}]
<1>1. N \in Nat /\ p \in Nat /\ q \in Nat /\ p <= q /\ q <= N
  BY DEF Visiting
<1>2. \A k \in 0..q : visit[k] \in inv[k] <=> (k >= p => Kept(K, goesOn, visit[p], visit[k]))
  OBVIOUS
<1> HIDE DEF inv
<1>3. Kept(K, goesOn, visit[p], visit[p])
  <2> DEFINE v == visit[p]
             s == v.s
  <2>1. s \in States
    BY GoodIsState DEF Visiting
  <2> HIDE DEF s
  <2>2. Later(s, s) /\ Untouched(K, s, s)
    BY <2>1, LaterRefl DEF Untouched
  <2>3. v = v
    OBVIOUS
  <2> HIDE DEF v
  <2>4. Kept(K, goesOn, v, v)
    BY <2>2 DEF Kept, s
  <2> QED
    BY <2>4 DEF v
<1>4. visit[0] \in inv[0]
  <2>1. 0 >= p => p = 0
    BY <1>1
  <2>2. 0 \in 0..q
    BY <1>1
  <2> QED
    BY <1>2, <1>3, <2>1, <2>2
<1>5. ASSUME NEW k \in 1..q, visit[k - 1] \in inv[k - 1] PROVE visit[k] \in inv[k]
  <2>1. k \in 0..q /\ k - 1 \in 0..q /\ k \in 1..N /\ k - 1 \in 0..N
    BY <1>1
  <2>2. CASE k < p
    <3>1. ~(k >= p)
      BY <1>1, <2>2
    <3> QED
      BY <1>2, <2>1, <3>1
  <2>3. CASE k = p
    BY <1>2, <1>3, <2>1, <2>3
  <2>4. CASE k > p
    <3>1. k - 1 >= p /\ k \in (p + 1)..q
      BY <1>1, <2>4
    <3>2. Kept(K, goesOn, visit[p], visit[k - 1])
      BY <1>2, <1>5, <2>1, <3>1
    <3>3. Ticked(kids[k], k, 1, goesOn, visit[k - 1], visit[k]) /\ visit[k - 1].s \in Good
      BY <2>1 DEF Visiting
    <3>4. \A z \in K : z \notin kids[k].below
      BY <3>1
    <3>5. Kept(K, goesOn, visit[k - 1], visit[k])
      BY <3>3, <3>4, KeptTick
    <3>6. Kept(K, goesOn, visit[p], visit[k])
      BY <3>2, <3>5, KeptChain
    <3> QED
      BY <1>2, <2>1, <3>6
  <2> QED
    BY <1>1, <2>2, <2>3, <2>4
<1>6. \A k \in 0..q : visit[k] \in inv[k]
  BY <1>1, <1>4, <1>5, StepByStep
<1>7. q \in 0..q /\ q >= p
  BY <1>1
<1> QED
  BY <1>2, <1>6, <1>7

LEMMA AtBehind ==
  ASSUME NEW kids, NEW goesOn, NEW visit, Visiting(kids, goesOn, visit), NEW q \in 0..Len(kids)
  PROVE  visit[q].at <= q
<1> DEFINE N == Len(kids)
           inv == [k \in 0..N |-> {x \in {visit[k]} : x.at <= k}]
<1>1. N \in Nat
  BY DEF Visiting
<1>2. \A k \in 0..N : visit[k] \in inv[k] <=> visit[k].at <= k
  OBVIOUS
<1> HIDE DEF inv
<1>3. visit[0] \in inv[0]
  <2>1. 0 \in 0..N /\ visit[0].at <= 0
    BY <1>1 DEF Visiting
  <2> QED
    BY <1>2, <2>1
<1>4. ASSUME NEW k \in 1..N, visit[k - 1] \in inv[k - 1] PROVE visit[k] \in inv[k]
  <2>1. k \in 0..N /\ k - 1 \in 0..N /\ k \in Nat
    BY <1>1
  <2>2. Ticked(kids[k], k, 1, goesOn, visit[k - 1], visit[k])
    BY DEF Visiting
  <2>3. visit[k - 1].at \in Nat /\ visit[k - 1].at <= k - 1
    BY <1>2, <1>4, <2>1 DEF Visiting
  <2>4. visit[k].at = visit[k - 1].at \/ visit[k].at = k
    BY <2>2 DEF Ticked
  <2>5. visit[k].at <= k
    BY <2>1, <2>3, <2>4
  <2> QED
    BY <1>2, <2>1, <2>5
<1>5. \A k \in 0..N : visit[k] \in inv[k]
  BY <1>1, <1>3, <1>4, StepByStep
<1> QED
  BY <1>2, <1>5

\* What a composite without memory leaves of its walk.
Leftover(id, kids, at, status, t, r) ==
  /\ \A m : m.id # id =>
       (m \in r.s.mem <=> m \in t.mem /\ \A i \in (at + 1)..Len(kids) : m.id \notin kids[i].below)
  /\ r.status = status
  /\ status = "RUNNING" => Running(id, r.s)

LEMMA EndLeaves ==
  ASSUME NEW id, NEW kids, Len(kids) \in Nat, NEW X, Within(kids, 1, X), NEW at \in Nat, NEW status,
         NEW t \in Good, NEW yes, yes = TRUE, NEW r, r = Ends(id, kids, yes, at, status, t)
  PROVE  Leftover(id, kids, at, status, t, r)
<1> DEFINE rest == ForgetFrom(kids, at + 1, t)
<1>1. rest \in Good
  <2>1. Moves(X, EndFacts, t, ForgetFrom(kids, at + 1, t))
    BY RestMoves
  <2> QED
    BY <2>1 DEF Moves
<1>2. rest.mem = {m \in t.mem : \A i \in (at + 1)..Len(kids) : m.id \notin kids[i].below}
  <2>1. t \in States
    BY GoodIsState
  <2> QED
    BY <2>1 DEF ForgetFrom, States
<1>3. r = IF status = "RUNNING" THEN Goes(id, at, rest) ELSE Done(id, status, rest)
  BY DEF Ends
<1> HIDE DEF rest
<1> DEFINE k == [id |-> id, number |-> at]
<1>4. Goes(id, at, rest).s.mem = {m \in rest.mem : m.id # id} \cup {k}
  BY <1>1, GoesRemembers
<1>5. Done(id, status, rest).s.mem = {m \in rest.mem : m.id # id}
  BY <1>1, DoneForgets
<1>6. k.id = id
  OBVIOUS
<1>7. Goes(id, at, rest).status = "RUNNING" /\ Done(id, status, rest).status = status
  BY DEF Goes, Done
<1> HIDE DEF k
<1>8. \A m : m.id # id => (m \in r.s.mem <=> m \in rest.mem)
  BY <1>3, <1>4, <1>5, <1>6
<1>9. status = "RUNNING" => k \in r.s.mem
  BY <1>3, <1>4
<1> QED
  BY <1>2, <1>3, <1>6, <1>7, <1>8, <1>9 DEF Running, Leftover

\* The j-th of kids is the one the flight is in.
Above(flight, C, kids, j, id) ==
  /\ j \in 1..Len(kids)
  /\ \A z \in Own(flight, C) : z # id /\ z \in kids[j].below
  /\ \A i \in 1..Len(kids) : i # j => \A z \in Own(flight, C) : z \notin kids[i].below

\* The walk comes to the flight.
Comes(flight, goesOn, v) == v.status = goesOn /\ Active(flight, v.s) /\ ~Trips(v.s)

Level(flight, C, n, id, kids, goesOn, s, u, visit, j) ==
  /\ Fresh(n, id, kids, goesOn, s, u, visit)
  /\ Visiting(kids, goesOn, visit)
  /\ n = Composite(id, FALSE, kids, goesOn, TRUE)
  /\ DOMAIN kids = 1..Len(kids)
  /\ goesOn # "RUNNING"
  /\ Above(flight, C, kids, j, id)

LEMMA LevelEnds ==
  ASSUME NEW flight, NEW C, NEW n, NEW id, NEW kids, NEW goesOn, NEW s, NEW u, NEW visit, NEW j,
         Level(flight, C, n, id, kids, goesOn, s, u, visit, j)
  PROVE  LET z == visit[Len(kids)]
             r == n.tick[s] IN
           /\ z.at \in Nat /\ z.s \in Good
           /\ Leftover(id, kids, z.at, z.status, z.s, r)
           /\ r.s.board = z.s.board
<1> DEFINE N == Len(kids)
           z == visit[N]
           r == n.tick[s]
           at == z.at
           status == z.status
           t == z.s
           yes == TRUE
           X == n.below
<1>1. N \in Nat /\ N \in 0..N
  BY DEF Level, Visiting
<1>2. at \in Nat /\ t \in Good
  BY <1>1 DEF Level, Visiting
<1>3. r = Ends(id, kids, yes, at, status, t) /\ yes = TRUE /\ r.s.board = t.board
  BY DEF Level, Fresh
<1>4. Within(kids, 1, X)
  BY KidsBelow DEF Level, Within
<1> HIDE DEF N, at, status, t, X
<1> HIDE DEF r, yes
<1>5. Leftover(id, kids, at, status, t, r)
  BY <1>1, <1>2, <1>3, <1>4, EndLeaves DEF N
<1> QED
  BY <1>2, <1>3, <1>5 DEF N, at, status, t, r

\* It starts over unless it was RUNNING.
LEMMA LevelEnters ==
  ASSUME NEW flight, NEW C, NEW n, NEW id, NEW kids, NEW goesOn, NEW s \in Good, NEW u, NEW visit,
         NEW j, Level(flight, C, n, id, kids, goesOn, s, u, visit, j),
         Orderly(flight, C \cup {id}, s)
  PROVE  /\ Orderly(flight, C, u)
         /\ Running(<<flight>>, s) <=> Running(<<flight>>, u)
<1> DEFINE f == <<flight>>
<1>1. u = Enter(id, kids, s) /\ Above(flight, C, kids, j, id)
  BY DEF Level, Fresh
<1>2. CASE Running(id, s)
  BY <1>1, <1>2 DEF Enter, Orderly
<1>3. CASE ~Running(id, s)
  <2>1. ~Running(f, s)
    BY <1>3 DEF Orderly
  <2>2. u.mem = {m \in s.mem : \A i \in 1..Len(kids) : m.id \notin kids[i].below}
    <3>1. s \in States
      BY GoodIsState
    <3> QED
      BY <1>1, <1>3, <3>1 DEF Enter, ForgetFrom, States
  <2>3. ~Running(f, u)
    BY <2>1, <2>2 DEF Running
  <2> QED
    BY <2>1, <2>3 DEF Orderly
<1> QED
  BY <1>2, <1>3

\* From what the flight's own level makes of it to what this level does.
LEMMA BearsFrom ==
  ASSUME NEW flight, NEW C, NEW id, NEW s, NEW t, NEW b, Borne(flight, C, t, b),
         Active(flight, t) => Active(flight, s),
         Running(<<flight>>, s) => Running(<<flight>>, t),
         NEW r,
         \A m \in r.s.mem : m.id \in Own(flight, C) => m \in b.s.mem,
         b.status = "RUNNING" => Untouched(Own(flight, C), b.s, r.s),
         b.status = "RUNNING" => r.status = "RUNNING" /\ Running(id, r.s),
         Active(flight, s) /\ ~Trips(s) /\ r.s.board.running /\ s \in Works("LandNearTurbineBase") =>
           Active(flight, t) /\ ~Trips(t) /\ b.s.board.running /\ t \in Works("LandNearTurbineBase")
  PROVE  Borne(flight, C \cup {id}, s, r)
<1> DEFINE f == <<flight>>
           K == Own(flight, C)
           D == C \cup {id}
<1>1. f \in K /\ Arm(flight) \in K
  BY DEF Own
<1>2. Running(f, r.s) => Running(f, b.s)
  BY <1>1 DEF Running
<1>3. Starts(flight, r.s) => Starts(flight, b.s)
  BY <1>1 DEF Starts
<1>4. Running(f, b.s) => b.status = "RUNNING" /\ Active(flight, t)
  BY DEF Borne
<1>5. b.status = "RUNNING" =>
        /\ Running(f, b.s) <=> Running(f, r.s)
        /\ Orderly(flight, C, b.s) <=> Orderly(flight, C, r.s)
  BY UntouchedFlight
<1>6. Orderly(flight, C, b.s)
  BY DEF Borne
<1>7. Running(f, r.s) => b.status = "RUNNING" /\ Orderly(flight, C, r.s) /\ r.status = "RUNNING"
                         /\ Running(id, r.s) /\ Active(flight, s)
  BY <1>2, <1>4, <1>5, <1>6
<1>8. Orderly(flight, D, r.s)
  BY <1>7 DEF Orderly
<1>9. Starts(flight, r.s) => Active(flight, s) /\ ~Running(f, s)
  BY <1>3 DEF Borne
<1>10. Active(flight, s) /\ ~Trips(s) /\ r.s.board.running /\ s \in Works("LandNearTurbineBase") =>
         Running(f, r.s)
  <2>1. Active(flight, s) /\ ~Trips(s) /\ r.s.board.running /\ s \in Works("LandNearTurbineBase") =>
          Running(f, b.s)
    BY DEF Borne
  <2> QED
    BY <1>4, <1>5, <2>1
<1> QED
  BY <1>7, <1>8, <1>9, <1>10 DEF Borne

\* A walk that does not come to the flight leaves nothing of it RUNNING.
LEMMA LevelLeaves ==
  ASSUME NEW flight, NEW C, NEW n, NEW id, NEW kids, NEW goesOn, NEW s \in Good, NEW u, NEW visit,
         NEW j, Level(flight, C, n, id, kids, goesOn, s, u, visit, j),
         visit[j - 1].status # goesOn
  PROVE  \A m \in n.tick[s].s.mem : m.id \notin Own(flight, C)
<1> DEFINE N == Len(kids)
           K == Own(flight, C)
           w == visit[j - 1]
           z == visit[N]
           none == {}
           r == n.tick[s]
<1>1. N \in Nat /\ j \in 1..N /\ j - 1 \in 0..N /\ N \in (j - 1)..N /\ Visiting(kids, goesOn, visit)
      /\ \A i \in ((j - 1) + 1)..N : \A k \in none : k \notin kids[i].below
  <2>1. N \in Nat /\ j \in 1..N /\ Visiting(kids, goesOn, visit)
    BY DEF Level, Visiting, Above
  <2>2. j - 1 \in 0..N /\ N \in (j - 1)..N
    <3> HIDE DEF N
    <3> QED
      BY <2>1
  <2> QED
    BY <2>1, <2>2
<1> HIDE DEF none
<1>2. Kept(none, goesOn, w, z)
  BY <1>1, KeptAlong
<1>3. z = w
  BY <1>2 DEF Kept
<1>4. w.at <= j - 1 /\ w.at \in Nat
  BY <1>1, AtBehind DEF Visiting
<1>5. j \in (z.at + 1)..N
  <2> HIDE DEF w, z
  <2> QED
    BY <1>1, <1>3, <1>4
<1>6. Leftover(id, kids, z.at, z.status, z.s, r)
  BY LevelEnds
<1>7. \A k \in K : k # id /\ k \in kids[j].below
  BY DEF Level, Above
<1> HIDE DEF K, z, r, w
<1>8. \A m \in r.s.mem : m.id \notin K
  BY <1>5, <1>6, <1>7 DEF Leftover
<1> QED
  BY <1>8 DEF r, K

\* The walk comes to the flight's own child, which bears it.
Reaches(flight, C, s, kids, goesOn, visit, j) ==
  LET w == visit[j - 1] IN
    /\ Active(flight, s) /\ ~Trips(s) => Comes(flight, goesOn, w)
    /\ w.status = goesOn /\ Orderly(flight, C, w.s) => Borne(flight, C, w.s, kids[j].tick[w.s])

\* A level above the flight, whose walk comes to the flight unless there is a problem, bears it too.
LEMMA LevelBears ==
  ASSUME NEW flight, NEW C, NEW n, NEW id, NEW kids, NEW goesOn, NEW s \in Good, NEW u, NEW visit,
         NEW j, Level(flight, C, n, id, kids, goesOn, s, u, visit, j),
         Orderly(flight, C \cup {id}, s), Reaches(flight, C, s, kids, goesOn, visit, j)
  PROVE  Borne(flight, C \cup {id}, s, n.tick[s])
<1> DEFINE w == visit[j - 1]
           N == Len(kids)
           K == Own(flight, C)
           f == <<flight>>
           z == visit[N]
           r == n.tick[s]
           W == Works("LandNearTurbineBase")
<1>1. /\ Active(flight, s) /\ ~Trips(s) => Comes(flight, goesOn, w)
      /\ w.status = goesOn /\ Orderly(flight, C, w.s) => Borne(flight, C, w.s, kids[j].tick[w.s])
  BY DEF Reaches
<1>2. /\ N \in Nat /\ j \in 1..N /\ j - 1 \in 0..N /\ N \in j..N /\ j \in 0..N
      /\ j - 1 \in 0..(j - 1) /\ 0 \in 0..N /\ j - 1 \in 0..N
      /\ Visiting(kids, goesOn, visit)
      /\ \A i \in 1..N : i # j => \A k \in K : k \notin kids[i].below
      /\ visit[0].s = u /\ Later(s, u)
      /\ \A k \in K : k # id
  BY DEF Level, Visiting, Above, Fresh
<1> HIDE DEF K
<1>3. Kept(K, goesOn, visit[0], w)
  <2>1. \A i \in (0 + 1)..(j - 1) : \A k \in K : k \notin kids[i].below
    BY <1>2
  <2> QED
    BY <1>2, <2>1, KeptAlong
<1>4. Untouched(K, u, w.s) /\ Later(s, w.s) /\ w.s \in Good
  BY <1>2, <1>3, LaterTrans DEF Kept, Visiting
<1>5. Orderly(flight, C, w.s) /\ (Running(f, s) <=> Running(f, w.s))
  <2>1. Orderly(flight, C, u) /\ (Running(f, s) <=> Running(f, u))
    BY LevelEnters
  <2>2. (Running(f, u) <=> Running(f, w.s)) /\ (Orderly(flight, C, u) <=> Orderly(flight, C, w.s))
    BY <1>4, UntouchedFlight DEF K
  <2> QED
    BY <2>1, <2>2
<1>6. Active(flight, w.s) => Active(flight, s)
  BY <1>4 DEF Active, Later
<1> HIDE DEF w
<1>7. CASE w.status # goesOn
  <2>1. \A m \in r.s.mem : m.id \notin K
    BY <1>7, LevelLeaves DEF K, w
  <2>2. f \in K /\ Arm(flight) \in K
    BY DEF K, Own
  <2>3. ~Running(f, r.s) /\ ~Starts(flight, r.s)
    <3> HIDE DEF r
    <3> QED
      BY <2>1, <2>2 DEF Running, Starts
  <2>4. ~(Active(flight, s) /\ ~Trips(s))
    BY <1>7, <1>1 DEF Comes
  <2> QED
    BY <2>3, <2>4 DEF Borne, Orderly
<1>8. CASE w.status = goesOn
  <2> DEFINE b == kids[j].tick[w.s]
             v == visit[j]
  <2>1. Borne(flight, C, w.s, b)
    BY <1>5, <1>8, <1>1
  <2>2. v.at = j /\ v.status = b.status /\ v.s = b.s
    <3>1. Ticked(kids[j], j, 1, goesOn, w, v)
      BY <1>2 DEF Visiting, w
    <3>2. ~(j < 1)
      BY <1>2
    <3>3. v = [at |-> j, status |-> b.status, s |-> b.s] \/ w.status # goesOn
      BY <3>1, <3>2 DEF Ticked
    <3> QED
      BY <1>8, <3>3
  <2> HIDE DEF b
  <2>3. Kept(K, goesOn, v, z)
    <3>1. \A i \in (j + 1)..N : \A k \in K : k \notin kids[i].below
      BY <1>2
    <3> QED
      BY <1>2, <3>1, KeptAlong
  <2>4. Leftover(id, kids, z.at, z.status, z.s, r) /\ r.s.board = z.s.board
    BY LevelEnds
  <2> HIDE DEF v, z, r
  <2>5. \A m : m.id \in K => (m \in z.s.mem <=> m \in b.s.mem)
    BY <2>2, <2>3 DEF Kept, Untouched
  <2>6. \A m \in r.s.mem : m.id \in K => m \in b.s.mem
    BY <1>2, <2>4, <2>5 DEF Leftover
  <2>7. ASSUME b.status = "RUNNING"
        PROVE  Untouched(K, b.s, r.s) /\ r.status = "RUNNING" /\ Running(id, r.s)
    <3>1. z = v
      BY <2>2, <2>3, <2>7 DEF Kept, Level
    <3>2. z.status = "RUNNING" /\ z.at = j
      BY <2>2, <2>7, <3>1
    <3>3. r.status = "RUNNING" /\ Running(id, r.s)
      BY <2>4, <3>2 DEF Leftover
    <3>4. \A i \in (z.at + 1)..N : \A k \in K : k \notin kids[i].below
      BY <1>2, <3>2
    <3>5. \A m : m.id \in K => (m \in r.s.mem <=> m \in z.s.mem)
      BY <1>2, <2>4, <3>4 DEF Leftover
    <3> QED
      BY <2>5, <3>3, <3>5 DEF Untouched
  <2>8. Active(flight, s) /\ ~Trips(s) /\ r.s.board.running /\ s \in W =>
          Active(flight, w.s) /\ ~Trips(w.s) /\ b.s.board.running /\ w.s \in W
    <3>1. r.s.board.running => b.s.board.running
      BY <2>2, <2>3, <2>4 DEF Kept, Later
    <3>2. s \in W => w.s \in W
      <4>1. Lasting(W)
        BY SimpleFacts, FactsLast
      <4>2. w.s \in States
        BY <1>4, GoodIsState
      <4> QED
        BY <1>4, <4>1, <4>2 DEF Lasting
    <3> QED
      BY <1>1, <3>1, <3>2 DEF Comes
  <2> HIDE DEF W
  <2>9. Borne(flight, C \cup {id}, s, r)
    BY <1>5, <1>6, <2>1, <2>6, <2>7, <2>8, BearsFrom DEF K, W
  <2> QED
    BY <2>9 DEF r
<1> QED
  BY <1>7, <1>8

LEMMA Levels ==
  ASSUME NEW kids, NEW Z, NEW goesOn \in {"SUCCESS", "FAILURE"}, NEW on, NEW E,
         BuildOn(kids, Z, States, goesOn, on, States, E), NEW id, Plain(id),
         NEW n, n = Composite(id, FALSE, kids, goesOn, TRUE), n.below \subseteq Ids, NEW s \in Good,
         NEW flight, NEW C, NEW j, Above(flight, C, kids, j, id)
  PROVE  \E u, visit : Level(flight, C, n, id, kids, goesOn, s, u, visit, j)
<1>1. PICK u, visit : Fresh(n, id, kids, goesOn, s, u, visit)
  BY FreshTick
<1>2. Len(kids) \in Nat /\ DOMAIN kids = 1..Len(kids) /\ goesOn # "RUNNING"
  BY DEF BuildOn
<1>3. visit[0].at = 0
  BY <1>1 DEF Fresh
<1>4. Visiting(kids, goesOn, visit)
  BY <1>1, <1>2, <1>3 DEF Fresh, Visiting
<1>5. Level(flight, C, n, id, kids, goesOn, s, u, visit, j)
  BY <1>1, <1>2, <1>4 DEF Level
<1> QED
  BY <1>5

\* The plan is asked for, and the blackboard left as it is.
PlanAnswers(plan, s, r) ==
  /\ r.status = IF s.board.running /\ s.board.flight_plan = plan THEN "SUCCESS" ELSE "FAILURE"
  /\ r.s \in Good /\ r.s.board = s.board

LEMMA PlanTicks ==
  ASSUME NEW plan, NEW s \in Good
  PROVE  PlanAnswers(plan, s, FlightPlanIs(plan).tick[s])
<1> DEFINE id == <<"Plan is", plan>>
           X == {id}
           status == IF s.board.running /\ s.board.flight_plan = plan THEN "SUCCESS" ELSE "FAILURE"
           r == FlightPlanIs(plan).tick[s]
<1>1. r = Done(id, status, s)
  BY GoodIsState DEF FlightPlanIs, Leaf
<1>2. id \in X
  OBVIOUS
<1> HIDE DEF id, X, status, r
<1>3. Done(id, status, s).status = status /\ Leaves(X, {}, s, Done(id, status, s))
  BY <1>2, DoneMoves
<1>4. r.status = status /\ r.s \in Good /\ r.s.board = s.board
  BY <1>1, <1>3 DEF Leaves, Moves
<1> QED
  BY <1>4 DEF PlanAnswers, r, status

RunOf(flight) == IF flight = "FlightA" THEN <<"Run FlightA">> ELSE <<"Run FlightB">>
FlightOf(flight) == IF flight = "FlightA" THEN FlightA ELSE FlightB
RunKids(flight) == <<FlightPlanIs(PlanOf(flight)), FlightOf(flight)>>
RunTree(flight) == Sequence(RunOf(flight), FALSE, RunKids(flight))

LEMMA FlightOfParts ==
  ASSUME NEW flight \in Flights
  PROVE  \E kids, on, Off :
           /\ FlightParts(flight, FlightOf(flight), kids, Flies(PlanOf(flight)), on, Off)
           /\ \A t \in Off : t \notin Works("LandNearTurbineBase")
<1>1. CASE flight = "FlightA"
  <2>1. PICK kids, on : FlightParts("FlightA", FlightA, kids, Flies("flight_a"), on, {})
    BY FlightAParts
  <2>2. FlightOf(flight) = FlightA /\ PlanOf(flight) = "flight_a"
    BY <1>1 DEF FlightOf, PlanOf
  <2>3. \A t \in {} : t \notin Works("LandNearTurbineBase")
    OBVIOUS
  <2> QED
    BY <1>1, <2>1, <2>2, <2>3
<1>2. CASE flight = "FlightB"
  <2> DEFINE F == OneFails({"LandNearTurbineBase"})
  <2>1. PICK kids, on : FlightParts("FlightB", FlightB, kids, Flies("flight_b"), on, F)
    BY FlightBParts
  <2>2. FlightOf(flight) = FlightB /\ PlanOf(flight) = "flight_b"
    BY <1>2 DEF FlightOf, PlanOf
  <2>3. \A t \in F : t \notin Works("LandNearTurbineBase")
    BY DEF OneFails
  <2> HIDE DEF F
  <2> QED
    BY <1>2, <2>1, <2>2, <2>3
<1> QED
  BY <1>1, <1>2 DEF Flights

\* Where the nodes of a flight are, and where they are not.
LEMMA FlightOfNames ==
  ASSUME NEW flight \in Flights
  PROVE  /\ <<flight>> \in FlightOf(flight).below /\ Arm(flight) \in FlightOf(flight).below
         /\ \A z \in Beside(flight) : z \notin FlightOf(flight).below
<1>1. PICK kids, on, Off : FlightParts(flight, FlightOf(flight), kids, Flies(PlanOf(flight)), on, Off)
  BY FlightOfParts
<1>2. Contract(FlightOf(flight), Beside(flight), Flies(PlanOf(flight)), Over, Off, EndFacts)
  BY <1>1, FlightContract
<1> DEFINE id == <<flight>>
           n == FlightOf(flight)
<1> HIDE DEF n
<1>3. n = Composite(id, TRUE, kids, "SUCCESS", FALSE) /\ DOMAIN kids = 1..Len(kids)
      /\ 1 \in 1..Len(kids) /\ kids[1] = ArmAndTakeoff(flight)
  <2>1. FlightParts(flight, n, kids, Flies(PlanOf(flight)), on, Off)
    BY <1>1 DEF n
  <2> DEFINE N == Len(kids)
  <2>2. N \in Nat /\ 2 <= N /\ DOMAIN kids = 1..N /\ kids[1] = ArmAndTakeoff(flight)
        /\ n = Composite(id, TRUE, kids, "SUCCESS", FALSE)
    BY <2>1 DEF FlightParts, Sequence, BuildOn
  <2>3. 1 \in 1..N
    BY <2>2
  <2> HIDE DEF id
  <2> QED
    BY <2>2, <2>3
<1> HIDE DEF id
<1>4. id \in n.below /\ kids[1].below \subseteq n.below
  BY <1>3, KidsBelow
<1>5. Arm(flight) \in kids[1].below
  BY <1>3 DEF ArmAndTakeoff, Stub, Leaf, Arm
<1> QED
  BY <1>2, <1>4, <1>5 DEF Contract, id, n

LEMMA RunIsPair ==
  ASSUME NEW flight \in Flights
  PROVE  LET kids == RunKids(flight)
             n == RunTree(flight) IN
           /\ n = Composite(RunOf(flight), FALSE, kids, "SUCCESS", TRUE)
           /\ Len(kids) = 2 /\ DOMAIN kids = 1..Len(kids)
           /\ kids[1] = FlightPlanIs(PlanOf(flight)) /\ kids[2] = FlightOf(flight)
           /\ \A z : z \in n.below <=>
                z = RunOf(flight) \/ z = <<"Plan is", PlanOf(flight)>> \/ z \in FlightOf(flight).below
           /\ Plain(RunOf(flight))
           /\ BuildOn(kids, OnlyRoot, States, "SUCCESS", <<Flies(PlanOf(flight)), States>>, States,
                      EndFacts)
<1> DEFINE kids == RunKids(flight)
           n == RunTree(flight)
           plan == PlanOf(flight)
           a == FlightPlanIs(plan)
           b == FlightOf(flight)
           id == RunOf(flight)
<1>1. n = Composite(id, FALSE, kids, "SUCCESS", TRUE)
  BY DEF RunTree, Sequence
<1>2. Len(kids) = 2 /\ DOMAIN kids = 1..Len(kids) /\ kids[1] = a /\ kids[2] = b
  BY DEF RunKids
<1>3. \A z : z \in n.below <=> z = id \/ z = <<"Plan is", plan>> \/ z \in b.below
  <2>1. n.below = {id} \cup UNION {kids[i].below : i \in DOMAIN kids}
    BY <1>1 DEF Composite
  <2>2. a.below = {<<"Plan is", plan>>}
    BY DEF FlightPlanIs, Leaf
  <2>3. \A i : i \in DOMAIN kids <=> i = 1 \/ i = 2
    BY <1>2
  <2> HIDE DEF a, b, n, id, kids
  <2>4. \A z : z \in UNION {kids[i].below : i \in DOMAIN kids} <=> z \in kids[1].below \/ z \in kids[2].below
    BY <2>3
  <2> QED
    BY <1>2, <2>1, <2>2, <2>4
<1>4. Plain(id)
  <2>1. "Run FlightA" \notin FactNames /\ "Run FlightB" \notin FactNames
    BY DEF FactNames
  <2>2. Plain(<<"Run FlightA">>) /\ Plain(<<"Run FlightB">>)
    BY <2>1, NoFacts
  <2> QED
    BY <2>2 DEF RunOf
<1>5. BuildOn(<<a, b>>, OnlyRoot, States, "SUCCESS", <<Flies(plan), States>>, States, EndFacts)
  <2>1. Lasting(EndFacts) /\ Lasting(Flies(plan))
    BY FlightFacts, SimpleFacts, FactsLast
  <2>2. Contract(a, OnlyRoot, States, Flies(plan), States, EndFacts)
    BY <2>1, OnlyRootOff, FlightPlanIsContract
  <2>3. Contract(b, OnlyRoot, Flies(plan), States, States, EndFacts)
    BY FlightAContract, FlightBContract DEF Flights, FlightOf, PlanOf
  <2>4. Meets(a, OnlyRoot, States, "SUCCESS", Flies(plan), States, EndFacts)
        /\ Meets(b, OnlyRoot, Flies(plan), "SUCCESS", States, States, EndFacts)
    BY <2>2, <2>3 DEF Meets
  <2> HIDE DEF a, b, plan
  <2> QED
    BY <2>1, <2>4, PairBuilds
<1> QED
  BY <1>1, <1>2, <1>3, <1>4, <1>5 DEF RunKids

\* The plan is asked first.
LEMMA RunAsks ==
  ASSUME NEW flight \in Flights, NEW s \in Good, NEW u, NEW visit,
         Fresh(RunTree(flight), RunOf(flight), RunKids(flight), "SUCCESS", s, u, visit)
  PROVE  /\ visit[1].status = IF Active(flight, s) THEN "SUCCESS" ELSE "FAILURE"
         /\ visit[1].s \in Good /\ visit[1].s.board = s.board
         /\ ~Active(flight, s) => visit[2] = visit[1]
         /\ RunTree(flight).tick[s].status = visit[2].status
         /\ RunTree(flight).tick[s].s.board = visit[2].s.board
<1> DEFINE kids == RunKids(flight)
           plan == PlanOf(flight)
           n == RunTree(flight)
           id == RunOf(flight)
<1>1. Len(kids) = 2 /\ kids[1] = FlightPlanIs(plan)
  BY RunIsPair
<1> HIDE DEF kids, plan, n, id
<1>2. /\ u \in Good /\ u.board = s.board
      /\ visit[0] = [at |-> 0, status |-> "SUCCESS", s |-> u]
      /\ \A i \in 1..2 : visit[i] = Visit(kids[i], i, 1, "SUCCESS", visit[i - 1])
      /\ n.tick[s].status = visit[2].status /\ n.tick[s].s.board = visit[2].s.board
  <2>1. Fresh(n, id, kids, "SUCCESS", s, u, visit)
    BY DEF n, id, kids
  <2> QED
    BY <1>1, <2>1 DEF Fresh
<1>3. visit[1] = Visit(kids[1], 1, 1, "SUCCESS", visit[0])
      /\ visit[2] = Visit(kids[2], 2, 1, "SUCCESS", visit[1])
  <2>1. 1 \in 1..2 /\ 2 \in 1..2 /\ 1 - 1 = 0 /\ 2 - 1 = 1
    OBVIOUS
  <2> QED
    BY <1>2, <2>1
<1> DEFINE a == FlightPlanIs(plan).tick[u]
<1>4. visit[1] = [at |-> 1, status |-> a.status, s |-> a.s]
  <2>1. visit[0].status = "SUCCESS" /\ visit[0].s = u
    BY <1>2
  <2> QED
    BY <1>1, <1>3, <2>1 DEF Visit
<1>5. PlanAnswers(plan, u, a)
  BY <1>2, PlanTicks
<1> HIDE DEF a
<1>6. Active(flight, s) <=> u.board.running /\ u.board.flight_plan = plan
  BY <1>2 DEF Active, plan
<1>7. visit[1].status = a.status /\ visit[1].s = a.s
  BY <1>4
<1>8. visit[1].status = IF Active(flight, s) THEN "SUCCESS" ELSE "FAILURE"
  BY <1>5, <1>6, <1>7 DEF PlanAnswers
<1>9. visit[1].s \in Good /\ visit[1].s.board = s.board
  BY <1>2, <1>5, <1>7 DEF PlanAnswers
<1>10. ~Active(flight, s) => visit[2] = visit[1]
  BY <1>3, <1>8 DEF Visit
<1> QED
  BY <1>2, <1>8, <1>9, <1>10 DEF n

\* A flight that is not called for leaves the blackboard alone.
LEMMA RunIdles ==
  ASSUME NEW flight \in Flights, RunTree(flight).below \subseteq Ids, NEW s \in Good,
         ~Active(flight, s)
  PROVE  RunTree(flight).tick[s].status = "FAILURE" /\ RunTree(flight).tick[s].s.board = s.board
<1> DEFINE kids == RunKids(flight)
           n == RunTree(flight)
           id == RunOf(flight)
           on == <<Flies(PlanOf(flight)), States>>
<1>1. n = Composite(id, FALSE, kids, "SUCCESS", TRUE) /\ Plain(id)
      /\ BuildOn(kids, OnlyRoot, States, "SUCCESS", on, States, EndFacts)
  BY RunIsPair
<1>2. n.below \subseteq Ids
  OBVIOUS
<1> HIDE DEF kids, n, id, on
<1>3. PICK u, visit : Fresh(n, id, kids, "SUCCESS", s, u, visit)
  BY <1>1, <1>2, FreshTick
<1>4. Fresh(RunTree(flight), RunOf(flight), RunKids(flight), "SUCCESS", s, u, visit)
  BY <1>3 DEF n, id, kids
<1> QED
  BY <1>4, RunAsks

\* The branch of a flight bears it.
LEMMA RunBears ==
  ASSUME NEW flight \in Flights, RunTree(flight).below \subseteq Ids, NEW s \in Good,
         Orderly(flight, {RunOf(flight)}, s)
  PROVE  Borne(flight, {RunOf(flight)}, s, RunTree(flight).tick[s])
<1> DEFINE kids == RunKids(flight)
           n == RunTree(flight)
           id == RunOf(flight)
           plan == PlanOf(flight)
           on == <<Flies(plan), States>>
           b == FlightOf(flight)
           none == {}
<1>1. /\ n = Composite(id, FALSE, kids, "SUCCESS", TRUE) /\ Plain(id)
      /\ BuildOn(kids, OnlyRoot, States, "SUCCESS", on, States, EndFacts)
      /\ Len(kids) = 2 /\ DOMAIN kids = 1..Len(kids)
      /\ kids[1] = FlightPlanIs(plan) /\ kids[2] = b
      /\ n.below \subseteq Ids
      /\ \A z \in b.below : z \in n.below
  BY RunIsPair
<1>2. Above(flight, none, kids, 2, id)
  <2>1. \A z \in Own(flight, none) : z = <<flight>> \/ z = Arm(flight)
    BY DEF Own
  <2>2. \A z \in Own(flight, none) : z # id
    BY <2>1 DEF RunOf, Arm, Flights
  <2>3. \A z \in Own(flight, none) : z \in kids[2].below
    BY <1>1, <2>1, FlightOfNames
  <2>4. kids[1].below = {<<"Plan is", plan>>}
    <3>1. FlightPlanIs(plan).below = {<<"Plan is", plan>>}
      BY DEF FlightPlanIs, Leaf
    <3> HIDE DEF kids, plan
    <3> QED
      BY <1>1, <3>1
  <2>5. \A z \in Own(flight, none) : z \notin kids[1].below
    BY <2>1, <2>4 DEF Arm, Flights
  <2>6. \A i \in 1..Len(kids) : i # 2 => i = 1
    BY <1>1
  <2>7. 2 \in 1..Len(kids)
    BY <1>1
  <2> HIDE DEF kids, id
  <2> QED
    BY <2>2, <2>3, <2>5, <2>6, <2>7 DEF Above
<1> HIDE DEF kids, n, id, on, b, none
<1>3. PICK u, visit : Level(flight, none, n, id, kids, "SUCCESS", s, u, visit, 2)
  BY <1>1, <1>2, Levels
<1> DEFINE w == visit[1]
<1>4. /\ w.status = IF Active(flight, s) THEN "SUCCESS" ELSE "FAILURE"
      /\ w.s \in Good /\ w.s.board = s.board
  <2>1. Fresh(RunTree(flight), RunOf(flight), RunKids(flight), "SUCCESS", s, u, visit)
    BY <1>3 DEF Level, n, id, kids
  <2> QED
    BY <2>1, RunAsks
<1>5. 2 - 1 = 1
  OBVIOUS
<1>6. w = visit[2 - 1]
  BY <1>5
<1> HIDE DEF w
<1>7. Active(flight, s) /\ ~Trips(s) => Comes(flight, "SUCCESS", w)
  BY <1>4 DEF Comes, Active, Trips
<1>8. ASSUME w.status = "SUCCESS", Orderly(flight, none, w.s)
      PROVE  Borne(flight, none, w.s, kids[2].tick[w.s])
  <2>1. Active(flight, w.s)
    BY <1>4, <1>8 DEF Active
  <2>2. w.s \in Flies(plan)
    BY <1>4, <2>1, GoodIsState DEF Active, Flies
  <2>3. PICK ks, on1, Off : /\ FlightParts(flight, b, ks, Flies(plan), on1, Off)
                            /\ \A t \in Off : t \notin Works("LandNearTurbineBase")
    BY FlightOfParts DEF b
  <2>4. b.below \subseteq Ids
    BY <1>1
  <2>5. Orderly(flight, {}, w.s)
    BY <1>8 DEF none
  <2> DEFINE t == w.s
  <2>6. t \in Good /\ t \in Flies(plan) /\ Active(flight, t) /\ Orderly(flight, {}, t)
    BY <1>4, <2>1, <2>2, <2>5
  <2> HIDE DEF t, plan
  <2>7. Borne(flight, {}, t, b.tick[t])
    BY <2>3, <2>4, <2>6, FlightCarries
  <2> QED
    BY <1>1, <2>7 DEF none, t
<1>9. none \cup {id} = {RunOf(flight)}
  BY DEF none, id
<1>10. Orderly(flight, none \cup {id}, s)
  BY <1>9
<1>11. Reaches(flight, none, s, kids, "SUCCESS", visit, 2)
  BY <1>6, <1>7, <1>8 DEF Reaches
<1>12. Borne(flight, none \cup {id}, s, n.tick[s])
  BY <1>3, <1>10, <1>11, LevelBears
<1> QED
  BY <1>9, <1>12 DEF n

RunnerKids == <<RunTree("FlightA"), RunTree("FlightB")>>
Place(flight) == IF flight = "FlightA" THEN 1 ELSE 2
Runner == <<"FlightPlanRunner">>

LEMMA RunnerIsPair ==
  /\ FlightPlanRunner = Composite(Runner, FALSE, RunnerKids, "FAILURE", TRUE)
  /\ Len(RunnerKids) = 2 /\ DOMAIN RunnerKids = 1..Len(RunnerKids)
  /\ RunnerKids[1] = RunTree("FlightA") /\ RunnerKids[2] = RunTree("FlightB")
  /\ Plain(Runner)
  /\ BuildOn(RunnerKids, OnlyRoot, States, "FAILURE", <<States, States>>, States, EndFacts)
<1> DEFINE a == RunTree("FlightA")
           b == RunTree("FlightB")
<1>1. /\ a = Sequence(<<"Run FlightA">>, FALSE, <<FlightPlanIs("flight_a"), FlightA>>)
      /\ b = Sequence(<<"Run FlightB">>, FALSE, <<FlightPlanIs("flight_b"), FlightB>>)
  BY DEF RunTree, RunOf, RunKids, PlanOf, FlightOf
<1>2. Lasting(EndFacts) /\ Lasting(States) /\ \A plan : Lasting(Flies(plan))
  BY FlightFacts, SimpleFacts, FactsLast
<1>3. \A name \in {"Run FlightA", "Run FlightB", "FlightPlanRunner"} :
        name \notin FactNames /\ <<name>> \notin OnlyRoot
  BY OnlyRootOff DEF FactNames
<1>4. \A plan : Contract(FlightPlanIs(plan), OnlyRoot, States, Flies(plan), States, EndFacts)
  BY <1>2, OnlyRootOff, FlightPlanIsContract
<1>5. Contract(a, OnlyRoot, States, States, States, EndFacts)
  BY <1>1, <1>2, <1>3, <1>4, FlightAContract, PairOf
<1>6. Contract(b, OnlyRoot, States, States, States, EndFacts)
  BY <1>1, <1>2, <1>3, <1>4, FlightBContract, PairOf
<1>7. Plain(Runner)
  BY <1>3, NoFacts DEF Runner
<1>8. FlightPlanRunner = Composite(Runner, FALSE, <<a, b>>, "FAILURE", TRUE)
  <2>1. FlightPlanRunner = Selector(Runner, FALSE, <<a, b>>)
    BY <1>1 DEF FlightPlanRunner, Runner
  <2> HIDE DEF a, b
  <2> QED
    BY <2>1 DEF Selector
<1> HIDE DEF a, b
<1>9. Meets(a, OnlyRoot, States, "FAILURE", States, States, EndFacts)
      /\ Meets(b, OnlyRoot, States, "FAILURE", States, States, EndFacts)
  BY <1>5, <1>6 DEF Meets
<1>10. BuildOn(<<a, b>>, OnlyRoot, States, "FAILURE", <<States, States>>, States, EndFacts)
  BY <1>2, <1>9, PairBuilds
<1>11. RunnerKids = <<a, b>>
  BY DEF RunnerKids, a, b
<1>12. Len(<<a, b>>) = 2 /\ DOMAIN <<a, b>> = 1..Len(<<a, b>>) /\ <<a, b>>[1] = a /\ <<a, b>>[2] = b
  OBVIOUS
<1> QED
  BY <1>7, <1>8, <1>10, <1>11, <1>12 DEF a, b

\* The branches of the two flights have no node in common.
LEMMA RunsApart ==
  ASSUME NEW flight \in Flights, NEW other \in Flights, other # flight
  PROVE  \A z \in Own(flight, {RunOf(flight)}) :
           z # Runner /\ z \in RunTree(flight).below /\ z \notin RunTree(other).below
<1> DEFINE id == <<flight>>
           run == RunOf(flight)
           K == Own(flight, {run})
<1>1. \A z \in K : z = id \/ z = Arm(flight) \/ z = run
  BY DEF Own
<1>2. \A z \in K : /\ z \in Beside(other) /\ z # Runner
                    /\ z # RunOf(other) /\ z # <<"Plan is", PlanOf(other)>>
  <2>1. CASE flight = "FlightA"
    <3>1. /\ other = "FlightB" /\ id = <<"FlightA">> /\ run = <<"Run FlightA">>
          /\ Arm(flight) = <<"FlightA", "ArmAndTakeoff">>
          /\ RunOf(other) = <<"Run FlightB">> /\ PlanOf(other) = "flight_b"
      BY <2>1 DEF Flights, RunOf, Arm, PlanOf
    <3> HIDE DEF K
    <3>2. \A z \in K : \/ z = <<"FlightA">> \/ z = <<"Run FlightA">>
                       \/ z = <<"FlightA", "ArmAndTakeoff">>
      BY <1>1, <3>1
    <3>3. /\ <<"FlightA">> \in Spine /\ <<"FlightA">> # <<"FlightPlanRunner">>
          /\ <<"FlightA">> # <<"Run FlightB">> /\ <<"FlightA">> # <<"Plan is", "flight_b">>
          /\ <<"FlightA">> # <<"FlightB">> /\ <<"FlightA">> # <<"FlightB", "ArmAndTakeoff">>
      BY DEF Spine
    <3>4. /\ <<"Run FlightA">> \in Spine /\ <<"Run FlightA">> # <<"FlightPlanRunner">>
          /\ <<"Run FlightA">> # <<"Run FlightB">> /\ <<"Run FlightA">> # <<"Plan is", "flight_b">>
          /\ <<"Run FlightA">> # <<"FlightB">> /\ <<"Run FlightA">> # <<"FlightB", "ArmAndTakeoff">>
      BY DEF Spine
    <3>5. /\ <<"FlightA", "ArmAndTakeoff">> \in Spine
          /\ <<"FlightA", "ArmAndTakeoff">> # <<"FlightPlanRunner">>
          /\ <<"FlightA", "ArmAndTakeoff">> # <<"Run FlightB">>
          /\ <<"FlightA", "ArmAndTakeoff">> # <<"Plan is", "flight_b">>
          /\ <<"FlightA", "ArmAndTakeoff">> # <<"FlightB">>
          /\ <<"FlightA", "ArmAndTakeoff">> # <<"FlightB", "ArmAndTakeoff">>
      BY DEF Spine
    <3>6. Beside(other) = Spine \ {<<"FlightB">>, <<"FlightB", "ArmAndTakeoff">>}
      BY <3>1 DEF Beside, Arm
    <3> HIDE DEF run, id
    <3> QED
      BY <3>1, <3>2, <3>3, <3>4, <3>5, <3>6 DEF Runner
  <2>2. CASE flight = "FlightB"
    <3>1. /\ other = "FlightA" /\ id = <<"FlightB">> /\ run = <<"Run FlightB">>
          /\ Arm(flight) = <<"FlightB", "ArmAndTakeoff">>
          /\ RunOf(other) = <<"Run FlightA">> /\ PlanOf(other) = "flight_a"
      BY <2>2 DEF Flights, RunOf, Arm, PlanOf
    <3> HIDE DEF K
    <3>2. \A z \in K : \/ z = <<"FlightB">> \/ z = <<"Run FlightB">>
                       \/ z = <<"FlightB", "ArmAndTakeoff">>
      BY <1>1, <3>1
    <3>3. /\ <<"FlightB">> \in Spine /\ <<"FlightB">> # <<"FlightPlanRunner">>
          /\ <<"FlightB">> # <<"Run FlightA">> /\ <<"FlightB">> # <<"Plan is", "flight_a">>
          /\ <<"FlightB">> # <<"FlightA">> /\ <<"FlightB">> # <<"FlightA", "ArmAndTakeoff">>
      BY DEF Spine
    <3>4. /\ <<"Run FlightB">> \in Spine /\ <<"Run FlightB">> # <<"FlightPlanRunner">>
          /\ <<"Run FlightB">> # <<"Run FlightA">> /\ <<"Run FlightB">> # <<"Plan is", "flight_a">>
          /\ <<"Run FlightB">> # <<"FlightA">> /\ <<"Run FlightB">> # <<"FlightA", "ArmAndTakeoff">>
      BY DEF Spine
    <3>5. /\ <<"FlightB", "ArmAndTakeoff">> \in Spine
          /\ <<"FlightB", "ArmAndTakeoff">> # <<"FlightPlanRunner">>
          /\ <<"FlightB", "ArmAndTakeoff">> # <<"Run FlightA">>
          /\ <<"FlightB", "ArmAndTakeoff">> # <<"Plan is", "flight_a">>
          /\ <<"FlightB", "ArmAndTakeoff">> # <<"FlightA">>
          /\ <<"FlightB", "ArmAndTakeoff">> # <<"FlightA", "ArmAndTakeoff">>
      BY DEF Spine
    <3>6. Beside(other) = Spine \ {<<"FlightA">>, <<"FlightA", "ArmAndTakeoff">>}
      BY <3>1 DEF Beside, Arm
    <3> HIDE DEF run, id
    <3> QED
      BY <3>1, <3>2, <3>3, <3>4, <3>5, <3>6 DEF Runner
  <2> QED
    BY <2>1, <2>2 DEF Flights
<1>3. \A z \in K : z \notin FlightOf(other).below
  BY <1>2, FlightOfNames
<1>4. \A z : z \in RunTree(other).below =>
        z = RunOf(other) \/ z = <<"Plan is", PlanOf(other)>> \/ z \in FlightOf(other).below
  BY RunIsPair
<1>5. \A z : z = run \/ z \in FlightOf(flight).below => z \in RunTree(flight).below
  BY RunIsPair
<1>6. id \in FlightOf(flight).below /\ Arm(flight) \in FlightOf(flight).below
  BY FlightOfNames
<1> HIDE DEF K, id, run
<1>7. \A z \in K : z # Runner /\ z \in RunTree(flight).below /\ z \notin RunTree(other).below
  BY <1>1, <1>2, <1>3, <1>4, <1>5, <1>6
<1> QED
  BY <1>7 DEF K, run

LEMMA RunnerPlaces ==
  ASSUME NEW flight \in Flights
  PROVE  /\ Above(flight, {RunOf(flight)}, RunnerKids, Place(flight), Runner)
         /\ RunnerKids[Place(flight)] = RunTree(flight)
<1> DEFINE C == {RunOf(flight)}
           j == Place(flight)
           other == IF flight = "FlightA" THEN "FlightB" ELSE "FlightA"
<1>1. other \in Flights /\ other # flight
  BY DEF Flights
<1>2. j \in 1..2 /\ RunnerKids[j] = RunTree(flight)
      /\ \A i \in 1..2 : i # j => RunnerKids[i] = RunTree(other)
  <2>1. \A i \in 1..2 : i = 1 \/ i = 2
    OBVIOUS
  <2> QED
    BY <2>1, RunnerIsPair DEF Place, Flights
<1>3. Len(RunnerKids) = 2
  BY RunnerIsPair
<1> HIDE DEF other, j
<1>4. \A z \in Own(flight, C) :
        z # Runner /\ z \in RunTree(flight).below /\ z \notin RunTree(other).below
  BY <1>1, RunsApart
<1> HIDE DEF C
<1>5. Above(flight, C, RunnerKids, j, Runner)
  BY <1>2, <1>3, <1>4 DEF Above
<1> QED
  BY <1>2, <1>5 DEF C, j

\* The runner of the flights bears each of them.
LEMMA RunnerBears ==
  ASSUME NEW flight \in Flights, FlightPlanRunner.below \subseteq Ids, NEW s \in Good,
         Orderly(flight, {RunOf(flight)} \cup {Runner}, s)
  PROVE  Borne(flight, {RunOf(flight)} \cup {Runner}, s, FlightPlanRunner.tick[s])
<1> DEFINE C == {RunOf(flight)}
           j == Place(flight)
           n == FlightPlanRunner
           kids == RunnerKids
           on == <<States, States>>
<1>1. /\ n = Composite(Runner, FALSE, kids, "FAILURE", TRUE) /\ Plain(Runner)
      /\ Len(kids) = 2 /\ DOMAIN kids = 1..Len(kids)
      /\ kids[1] = RunTree("FlightA") /\ kids[2] = RunTree("FlightB")
      /\ BuildOn(kids, OnlyRoot, States, "FAILURE", on, States, EndFacts)
  BY RunnerIsPair
<1>2. Above(flight, C, kids, j, Runner) /\ kids[j] = RunTree(flight)
  BY RunnerPlaces
<1>3. RunTree(flight).below \subseteq Ids /\ RunTree("FlightA").below \subseteq Ids
  <2> HIDE DEF kids, n, j
  <2>1. \A i \in 1..Len(kids) : kids[i].below \subseteq n.below
    BY <1>1, KidsBelow
  <2>2. j \in 1..Len(kids) /\ 1 \in 1..Len(kids)
    BY <1>1, <1>2 DEF Above
  <2>3. n.below \subseteq Ids
    BY DEF n
  <2> QED
    BY <1>1, <1>2, <2>1, <2>2, <2>3
<1> HIDE DEF C, j, n, kids, on
<1>4. n.below \subseteq Ids
  BY DEF n
<1>5. PICK u, visit : Level(flight, C, n, Runner, kids, "FAILURE", s, u, visit, j)
  BY <1>1, <1>2, <1>4, Levels
<1>6. u \in Good /\ u.board = s.board /\ visit[0] = [at |-> 0, status |-> "FAILURE", s |-> u]
      /\ visit[1] = Visit(kids[1], 1, 1, "FAILURE", visit[0])
      /\ visit[j - 1].s \in Good
  <2>1. 1 \in 1..Len(kids) /\ 1 - 1 = 0
    BY <1>1
  <2>2. j - 1 \in 0..Len(kids)
    BY <1>1, <1>2 DEF Above
  <2>3. visit[1] = Visit(kids[1], 1, 1, "FAILURE", visit[1 - 1])
    BY <1>5, <2>1 DEF Level, Fresh
  <2>4. u \in Good /\ u.board = s.board /\ visit[0] = [at |-> 0, status |-> "FAILURE", s |-> u]
    BY <1>5 DEF Level, Fresh
  <2>5. visit[j - 1].s \in Good
    BY <1>5, <2>2 DEF Level, Fresh
  <2> QED
    BY <2>1, <2>3, <2>4, <2>5
<1> DEFINE w == visit[j - 1]
<1>7. Active(flight, s) => w.status = "FAILURE" /\ w.s.board = s.board
  <2>1. CASE flight = "FlightA"
    <3>1. j - 1 = 0
      BY <2>1 DEF j, Place
    <3> HIDE DEF w
    <3>2. w = visit[0]
      BY <3>1 DEF w
    <3> QED
      BY <1>6, <3>2
  <2>2. CASE flight = "FlightB"
    <3> DEFINE a == RunTree("FlightA").tick[u]
    <3>1. j - 1 = 1
      BY <2>2 DEF j, Place
    <3>2. visit[1] = [at |-> 1, status |-> a.status, s |-> a.s]
      <4>1. visit[0].status = "FAILURE" /\ visit[0].s = u
        BY <1>6
      <4>2. visit[1] = Visit(RunTree("FlightA"), 1, 1, "FAILURE", visit[0])
        BY <1>1, <1>6
      <4> QED
        BY <4>1, <4>2 DEF Visit
    <3>3. Active(flight, s) => ~Active("FlightA", u)
      BY <1>6, <2>2 DEF Active, PlanOf
    <3>4. "FlightA" \in Flights
      BY DEF Flights
    <3>5. Active(flight, s) => a.status = "FAILURE" /\ a.s.board = u.board
      BY <1>3, <1>6, <3>3, <3>4, RunIdles
    <3> HIDE DEF a, w
    <3>6. w.status = a.status /\ w.s = a.s
      <4>1. w = visit[1]
        BY <3>1 DEF w
      <4> QED
        BY <3>2, <4>1
    <3> QED
      BY <1>6, <3>5, <3>6
  <2> QED
    BY <2>1, <2>2 DEF Flights
<1>8. w.s \in Good
  BY <1>6
<1> HIDE DEF w
<1>9. Active(flight, s) /\ ~Trips(s) => Comes(flight, "FAILURE", w)
  BY <1>7 DEF Comes, Active, Trips
<1>10. Orderly(flight, C, w.s) => Borne(flight, C, w.s, kids[j].tick[w.s])
  <2> DEFINE t == w.s
  <2>1. t \in Good
    BY <1>8
  <2> HIDE DEF t
  <2>2. Orderly(flight, C, t) => Borne(flight, C, t, RunTree(flight).tick[t])
    BY <1>3, <2>1, RunBears DEF C
  <2> QED
    BY <1>2, <2>2 DEF t
<1>11. Reaches(flight, C, s, kids, "FAILURE", visit, j)
  BY <1>9, <1>10 DEF Reaches, w
<1>12. Orderly(flight, C \cup {Runner}, s)
  BY DEF C
<1>13. Borne(flight, C \cup {Runner}, s, n.tick[s])
  BY <1>5, <1>11, <1>12, LevelBears
<1> QED
  BY <1>13 DEF C, n

\* Without a problem, the safety branch fails, and changes nothing that matters to a flight.
LEMMA SafetyPasses ==
  ASSUME NEW s \in Good, ~Trips(s)
  PROVE  LET r == SafetyBranch.tick[s] IN
           /\ r.status = "FAILURE" /\ ~Trips(r.s)
           /\ \A flight : Active(flight, s) => Active(flight, r.s)
<1> DEFINE id == <<"SafetyOverride">>
           kids == SafetyKids
           n == SafetyBranch
<1>1. n = Composite(id, FALSE, kids, "SUCCESS", TRUE)
  BY DEF SafetyBranch, Sequence, SafetyKids
<1>2. Len(kids) = 2 /\ kids[1] = SafetyTripped /\ kids[2] = EmergencyLand
  BY DEF SafetyKids
<1>3. Plain(id)
  <2>1. "SafetyOverride" \notin FactNames
    BY DEF FactNames
  <2> QED
    BY <2>1, NoFacts
<1> HIDE DEF id
<1>4. PICK u, visit : Fresh(n, id, kids, "SUCCESS", s, u, visit)
  BY <1>1, <1>3, SafetyNames, SafetyBuilds, FreshTick
<1>5. /\ u \in Good /\ u.board = s.board
      /\ visit[0] = [at |-> 0, status |-> "SUCCESS", s |-> u]
      /\ visit[1] = Visit(kids[1], 1, 1, "SUCCESS", visit[0])
      /\ visit[2] = Visit(kids[2], 2, 1, "SUCCESS", visit[1])
      /\ n.tick[s].status = visit[2].status /\ n.tick[s].s.board = visit[2].s.board
  <2>1. 1 \in 1..2 /\ 2 \in 1..2 /\ 1 - 1 = 0 /\ 2 - 1 = 1
    OBVIOUS
  <2> HIDE DEF kids
  <2>2. \A i \in 1..2 : visit[i] = Visit(kids[i], i, 1, "SUCCESS", visit[i - 1])
    BY <1>2, <1>4 DEF Fresh
  <2>3. visit[1] = Visit(kids[1], 1, 1, "SUCCESS", visit[0])
    BY <2>1, <2>2
  <2>4. visit[2] = Visit(kids[2], 2, 1, "SUCCESS", visit[1])
    BY <2>1, <2>2
  <2> QED
    BY <1>2, <1>4, <2>1, <2>3, <2>4 DEF Fresh
<1> HIDE DEF kids, n
<1> DEFINE a == SafetyTripped.tick[u]
           t == Judged(u)
           d == Done(<<"Emergency?">>, "FAILURE", t)
<1>6. visit[1] = [at |-> 1, status |-> a.status, s |-> a.s]
  BY <1>2, <1>5 DEF Visit
<1>7. a = d /\ t \in Good
  <2>1. ~Trips(u)
    BY <1>5 DEF Trips
  <2>2. /\ SafetyTripped.tick[u] =
             Done(<<"Emergency?">>, IF Trips(u) THEN "SUCCESS" ELSE "FAILURE", Judged(u))
        /\ Moves({<<"Emergency?">>}, EndFacts, u, Judged(u))
    BY <1>5, SafetyTrippedTicks
  <2> QED
    BY <2>1, <2>2 DEF Moves
<1>8. d.status = "FAILURE" /\ d.s.board = t.board
  <2> DEFINE id0 == <<"Emergency?">>
             X == {id0}
  <2>1. id0 \in X
    OBVIOUS
  <2> HIDE DEF a, id0, X, t
  <2>2. Done(id0, "FAILURE", t).status = "FAILURE" /\ Leaves(X, {}, t, Done(id0, "FAILURE", t))
    BY <1>7, <2>1, DoneMoves
  <2> QED
    BY <2>2 DEF Leaves, id0
<1>9. t.board.running = s.board.running /\ t.board.flight_plan = s.board.flight_plan
      /\ FirstProblem(t.board) = FirstProblem(s.board)
  <2> DEFINE problem == IF u.board.running THEN FirstProblem(u.board) ELSE ""
             b == [u.board EXCEPT !.safety_reason = problem]
  <2>1. u = [mem |-> u.mem, board |-> u.board, config |-> u.config] /\ u.board \in Boards
    BY <1>5, GoodIsState, StateParts
  <2> HIDE DEF problem
  <2>2. t.board = b
    BY <2>1 DEF Judged, problem
  <2>3. /\ b.running = u.board.running /\ b.flight_plan = u.board.flight_plan
        /\ b.abort_requested = u.board.abort_requested /\ b.battery = u.board.battery
        /\ b.odom = u.board.odom
    BY <2>1 DEF Boards
  <2> HIDE DEF b, t
  <2>4. FirstProblem(b) = FirstProblem(u.board)
    BY <2>3 DEF FirstProblem
  <2> QED
    BY <1>5, <2>2, <2>3, <2>4
<1> HIDE DEF a, d, t
<1>10. visit[1].status = "FAILURE" /\ visit[1].s.board = t.board
  BY <1>6, <1>7, <1>8
<1>11. visit[2] = visit[1]
  BY <1>2, <1>5, <1>10 DEF Visit
<1>12. n.tick[s].status = "FAILURE" /\ n.tick[s].s.board = t.board
  BY <1>5, <1>10, <1>11
<1> DEFINE r == n.tick[s]
<1> HIDE DEF r
<1>13. r.status = "FAILURE" /\ r.s.board = t.board
  BY <1>12 DEF r
<1>14. r.status = "FAILURE" /\ ~Trips(r.s) /\ \A flight : Active(flight, s) => Active(flight, r.s)
  BY <1>9, <1>13 DEF Trips, Active
<1> QED
  BY <1>14 DEF r, n

\* All the nodes above a flight.
Line(flight) == ({RunOf(flight)} \cup {Runner}) \cup {<<"Root">>}

LEMMA RootPlaces ==
  ASSUME NEW flight \in Flights
  PROVE  Above(flight, {RunOf(flight)} \cup {Runner}, RootKids, 2, <<"Root">>)
<1> DEFINE C == {RunOf(flight)}
           D == C \cup {Runner}
           K == Own(flight, C)
           j == Place(flight)
<1>1. \A z \in Own(flight, D) : z \in K \/ z = Runner
  BY DEF Own
<1>2. PICK other \in Flights : other # flight
  BY DEF Flights
<1>3. \A z \in K : z # Runner /\ z \in RunTree(flight).below
  BY <1>2, RunsApart
<1>4. j \in 1..Len(RunnerKids) /\ RunnerKids[j] = RunTree(flight)
  BY RunnerPlaces DEF Above
<1>5. FlightPlanRunner = Composite(Runner, FALSE, RunnerKids, "FAILURE", TRUE)
      /\ DOMAIN RunnerKids = 1..Len(RunnerKids)
  BY RunnerIsPair
<1> HIDE DEF j, K, C
<1>6. Runner \in FlightPlanRunner.below
      /\ \A i \in 1..Len(RunnerKids) : RunnerKids[i].below \subseteq FlightPlanRunner.below
  BY <1>5, KidsBelow
<1>7. \A z \in Own(flight, D) : z \in FlightPlanRunner.below
  BY <1>1, <1>3, <1>4, <1>6
<1>8. \A z \in Own(flight, D) :
        z = <<flight>> \/ z = Arm(flight) \/ z = RunOf(flight) \/ z = Runner
  BY DEF Own, C
<1> HIDE DEF D
<1>9. SafetyBranch.below = {<<"SafetyOverride">>, <<"Emergency?">>, <<"EmergencyLand">>}
      /\ Idle.below = {<<"Idle">>}
  <2>1. SafetyTripped.below = {<<"Emergency?">>}
    BY DEF SafetyTripped, Leaf
  <2>2. EmergencyLand.below = {<<"EmergencyLand">>} /\ Idle.below = {<<"Idle">>}
    BY DEF EmergencyLand, Idle, Stub, Leaf
  <2>3. SafetyBranch.below = {<<"SafetyOverride">>} \cup SafetyTripped.below \cup EmergencyLand.below
    <3> DEFINE a == SafetyTripped
               b == EmergencyLand
    <3>1. SafetyBranch = Composite(<<"SafetyOverride">>, FALSE, <<a, b>>, "SUCCESS", TRUE)
      BY DEF SafetyBranch, Sequence
    <3> HIDE DEF a, b
    <3> QED
      BY <3>1 DEF Composite, a, b
  <2> QED
    BY <2>1, <2>2, <2>3
<1> DEFINE X == {<<"SafetyOverride">>, <<"Emergency?">>, <<"EmergencyLand">>, <<"Idle">>, <<"Root">>}
<1>10. ASSUME NEW z \in Own(flight, D) PROVE z \notin X
  <2>1. <<"FlightA">> \notin X /\ <<"FlightB">> \notin X /\ <<"Run FlightA">> \notin X
        /\ <<"Run FlightB">> \notin X /\ <<"FlightPlanRunner">> \notin X
    OBVIOUS
  <2>2. <<"FlightA", "ArmAndTakeoff">> \notin X /\ <<"FlightB", "ArmAndTakeoff">> \notin X
    OBVIOUS
  <2> HIDE DEF X
  <2>3. CASE flight = "FlightA"
    <3>1. z = <<"FlightA">> \/ z = <<"FlightA", "ArmAndTakeoff">> \/ z = <<"Run FlightA">>
          \/ z = <<"FlightPlanRunner">>
      BY <1>8, <2>3 DEF Arm, RunOf, Runner
    <3> QED
      BY <2>1, <2>2, <3>1
  <2>4. CASE flight = "FlightB"
    <3>1. z = <<"FlightB">> \/ z = <<"FlightB", "ArmAndTakeoff">> \/ z = <<"Run FlightB">>
          \/ z = <<"FlightPlanRunner">>
      BY <1>8, <2>4 DEF Arm, RunOf, Runner
    <3> QED
      BY <2>1, <2>2, <3>1
  <2> QED
    BY <2>3, <2>4 DEF Flights
<1>11. /\ Len(RootKids) = 3 /\ RootKids[1] = SafetyBranch /\ RootKids[2] = FlightPlanRunner
       /\ RootKids[3] = Idle
  BY DEF RootKids
<1>12. \A i \in 1..3 : i # 2 => i = 1 \/ i = 3
  OBVIOUS
<1>13. \A z \in Own(flight, D) : z # <<"Root">> /\ z \notin SafetyBranch.below /\ z \notin Idle.below
  BY <1>9, <1>10
<1>14. Above(flight, D, RootKids, 2, <<"Root">>)
  BY <1>7, <1>11, <1>12, <1>13 DEF Above
<1> QED
  BY <1>14 DEF D, C

\* The root bears each flight.
LEMMA RootBears ==
  ASSUME NEW flight \in Flights, NEW s \in Good, Orderly(flight, Line(flight), s)
  PROVE  Borne(flight, Line(flight), s, Root.tick[s])
<1> DEFINE C == {RunOf(flight)} \cup {Runner}
           id == <<"Root">>
           n == Root
           kids == RootKids
           on == RootOn
<1>1. /\ n = Composite(id, FALSE, kids, "FAILURE", TRUE) /\ Plain(id)
      /\ DOMAIN kids = 1..Len(kids) /\ Len(kids) = 3
      /\ kids[1] = SafetyBranch /\ kids[2] = FlightPlanRunner
      /\ BuildOn(kids, {}, States, "FAILURE", on, States, EndFacts)
      /\ n.below \subseteq Ids
  <2>1. n = Composite(id, FALSE, kids, "FAILURE", TRUE)
    BY DEF Root, Selector, RootKids
  <2>2. DOMAIN kids = 1..Len(kids) /\ Len(kids) = 3
        /\ kids[1] = SafetyBranch /\ kids[2] = FlightPlanRunner
    BY DEF RootKids
  <2> HIDE DEF kids, on
  <2>3. Plain(id) /\ n.below \subseteq Ids
    BY RootPlain, IdsAssumption
  <2>4. BuildOn(kids, {}, States, "FAILURE", on, States, EndFacts)
    BY RootBuilds DEF kids, on
  <2> QED
    BY <2>1, <2>2, <2>3, <2>4
<1>2. Above(flight, C, kids, 2, id)
  BY RootPlaces
<1>3. FlightPlanRunner.below \subseteq Ids
  <2> HIDE DEF kids, n, id
  <2>1. \A i \in 1..Len(kids) : kids[i].below \subseteq n.below
    BY <1>1, KidsBelow
  <2>2. 2 \in 1..Len(kids)
    BY <1>1
  <2> QED
    BY <1>1, <2>1, <2>2
<1> HIDE DEF C, n, kids, on, id
<1>4. PICK u, visit : Level(flight, C, n, id, kids, "FAILURE", s, u, visit, 2)
  BY <1>1, <1>2, Levels
<1>5. /\ u \in Good /\ u.board = s.board
      /\ visit[0] = [at |-> 0, status |-> "FAILURE", s |-> u]
      /\ visit[1] = Visit(kids[1], 1, 1, "FAILURE", visit[0])
      /\ visit[1].s \in Good
  <2>1. 1 \in 1..3 /\ 1 \in 0..3 /\ 1 - 1 = 0
    OBVIOUS
  <2>2. visit[1] = Visit(kids[1], 1, 1, "FAILURE", visit[1 - 1])
    BY <1>1, <1>4, <2>1 DEF Level, Fresh
  <2>3. visit[1].s \in Good
    BY <1>1, <1>4, <2>1 DEF Level, Fresh
  <2>4. u \in Good /\ u.board = s.board /\ visit[0] = [at |-> 0, status |-> "FAILURE", s |-> u]
    BY <1>4 DEF Level, Fresh
  <2> QED
    BY <2>1, <2>2, <2>3, <2>4
<1> DEFINE a == SafetyBranch.tick[u]
           w == visit[1]
<1>6. w = [at |-> 1, status |-> a.status, s |-> a.s]
  <2>1. visit[0].status = "FAILURE" /\ visit[0].s = u
    BY <1>5
  <2>2. visit[1] = Visit(SafetyBranch, 1, 1, "FAILURE", visit[0])
    BY <1>1, <1>5
  <2> QED
    BY <2>1, <2>2 DEF Visit
<1>7. Active(flight, s) /\ ~Trips(s) =>
        a.status = "FAILURE" /\ ~Trips(a.s) /\ Active(flight, a.s)
  <2>1. (Active(flight, s) <=> Active(flight, u)) /\ (Trips(s) <=> Trips(u))
    BY <1>5 DEF Active, Trips
  <2> QED
    BY <1>5, <2>1, SafetyPasses
<1> HIDE DEF a
<1>8. w.s \in Good /\ w.status = a.status /\ w.s = a.s
  BY <1>5, <1>6
<1> HIDE DEF w
<1>9. Active(flight, s) /\ ~Trips(s) => Comes(flight, "FAILURE", w)
  BY <1>7, <1>8 DEF Comes
<1>10. Orderly(flight, C, w.s) => Borne(flight, C, w.s, kids[2].tick[w.s])
  <2> DEFINE t == w.s
  <2>1. t \in Good
    BY <1>8
  <2> HIDE DEF t
  <2>2. Orderly(flight, C, t) => Borne(flight, C, t, FlightPlanRunner.tick[t])
    BY <1>3, <2>1, RunnerBears DEF C
  <2> QED
    BY <1>1, <2>2 DEF t
<1>11. visit[2 - 1] = w
  <2>1. 2 - 1 = 1
    OBVIOUS
  <2> QED
    BY <2>1 DEF w
<1>12. Reaches(flight, C, s, kids, "FAILURE", visit, 2)
  BY <1>9, <1>10, <1>11 DEF Reaches
<1>13. Orderly(flight, C \cup {id}, s)
  BY DEF C, id, Line
<1>14. Borne(flight, C \cup {id}, s, n.tick[s])
  BY <1>4, <1>12, <1>13, LevelBears
<1> QED
  BY <1>14 DEF C, n, id, Line

\* A running flight that no emergency interrupts is RUNNING: with Orderly, why it never starts over.
FlightsAreOrderly ==
  \A flight \in Flights :
    /\ Orderly(flight, Line(flight), Now)
    /\ cause = "none" /\ Active(flight, Now) /\ "LandNearTurbineBase" \notin DOMAIN config =>
         Running(<<flight>>, Now)

LEMMA FlightsBegin == EngineInit => FlightsAreOrderly
<1> SUFFICES ASSUME EngineInit, NEW flight \in Flights
             PROVE  /\ Orderly(flight, Line(flight), Now)
                    /\ ~(cause = "none" /\ Active(flight, Now))
  BY DEF FlightsAreOrderly
<1>1. Now.mem = {} /\ Now.board = board
  BY DEF EngineInit, Now
<1>2. Orderly(flight, Line(flight), Now)
  BY <1>1 DEF Orderly, Running
<1>3. board.running => cause = "operator"
  <2>1. PICK plan \in Plans, autostart \in BOOLEAN :
          /\ board = [running |-> autostart, flight_plan |-> plan, abort_requested |-> FALSE,
                      battery |-> "none", odom |-> "none", safety_reason |-> "",
                      mission_outcomes |-> [m \in Missions |-> "none"], objectives |-> {}]
          /\ cause = IF autostart THEN "operator" ELSE "none"
    BY DEF EngineInit
  <2>2. board.running = autostart
    BY <2>1
  <2> QED
    BY <2>1, <2>2
<1> QED
  BY <1>1, <1>2, <1>3 DEF Active

\* A takeoff that starts in a tick is one of a flight that was not RUNNING, with no emergency.
LEMMA TickBears ==
  ASSUME EngineInv, FlightsAreOrderly, OnTick, NEW flight \in Flights
  PROVE  /\ Orderly(flight, Line(flight), Now')
         /\ Starts(flight, Now') => Active(flight, Now) /\ ~Running(<<flight>>, Now) /\ ~Emergency
         /\ Active(flight, Now') /\ ~Emergency /\ "LandNearTurbineBase" \notin DOMAIN config =>
              Running(<<flight>>, Now')
<1> DEFINE s == Now
           r == Root.tick[s]
           t == Now'
           f == <<flight>>
<1>1. s \in Good /\ s \in States /\ r.s = t /\ Moves(Root.below, EndFacts, s, t)
  BY TickMoves, GoodIsState DEF EngineInv
<1>2. s.board = board /\ s.config = config /\ t.mem = mem'
  BY DEF Now
<1>3. Trips(s) <=> Emergency
  BY <1>2 DEF Trips, Emergency
<1>4. Orderly(flight, Line(flight), s)
  BY DEF FlightsAreOrderly
<1> HIDE DEF s, r, t
<1>5. Borne(flight, Line(flight), s, r)
  BY <1>1, <1>4, RootBears DEF r
<1>6. Emergency => ~Starts(flight, t)
  <2>1. Arm(flight) \in FlightPlanRunner.below
    <3> DEFINE C == {RunOf(flight)} \cup {Runner}
    <3>1. Arm(flight) \in Own(flight, C)
      BY DEF Own
    <3> HIDE DEF C
    <3>2. \A z \in Own(flight, C) : z \in RootKids[2].below
      BY RootPlaces DEF Above, C
    <3> QED
      BY <3>1, <3>2 DEF RootKids
  <2>2. Trips(s) => \A m \in r.s.mem : m.id \notin FlightPlanRunner.below
    BY <1>1, RootPreempts DEF r
  <2> QED
    BY <1>1, <1>3, <2>1, <2>2 DEF Starts
<1>7. Active(flight, t) => Active(flight, s) /\ t.board.running
  BY <1>1 DEF Moves, Later, Active
<1>8. "LandNearTurbineBase" \notin DOMAIN config => s \in Works("LandNearTurbineBase")
  BY <1>1, <1>2 DEF Works
<1>9. /\ Orderly(flight, Line(flight), t)
      /\ Starts(flight, t) => Active(flight, s) /\ ~Running(f, s) /\ ~Emergency
      /\ Active(flight, t) /\ ~Emergency /\ "LandNearTurbineBase" \notin DOMAIN config =>
           Running(f, t)
  BY <1>1, <1>3, <1>5, <1>6, <1>7, <1>8 DEF Borne
<1> QED
  BY <1>9 DEF s, t

LEMMA TickKeepsOrder ==
  ASSUME EngineInv, FlightsAreOrderly, OnTick
  PROVE  FlightsAreOrderly'
<1>1. ASSUME NEW flight \in Flights
      PROVE  /\ Orderly(flight, Line(flight), Now')
             /\ cause' = "none" /\ Active(flight,
                   Now') /\ "LandNearTurbineBase" \notin DOMAIN config' =>
                  Running(<<flight>>, Now')
  <2>1. /\ Orderly(flight, Line(flight), Now')
        /\ Active(flight, Now') /\ ~Emergency /\ "LandNearTurbineBase" \notin DOMAIN config =>
              Running(<<flight>>, Now')
    BY TickBears
  <2>2. config' = config /\ (Emergency => cause' = "emergency")
    BY DEF OnTick
  <2> QED
    BY <2>1, <2>2
<1> QED
  BY <1>1 DEF FlightsAreOrderly, Orderly, Underway, Armed, NoArm, Running, Active, Line

LEMMA CallsKeepOrder ==
  ASSUME EngineInv, FlightsAreOrderly, Calls
  PROVE  FlightsAreOrderly'
<1>1. config' = config /\ mem' = mem
  BY CallsWrite DEF Event
<1>2. board \in Boards
  BY DEF EngineInv, EngineTypeOK
<1>3. \/ cause' = cause /\ board'.running = board.running
         /\ (board.running => board'.flight_plan = board.flight_plan)
      \/ ~board'.running
      \/ cause' = "operator"
  BY <1>2 DEF Calls, OnOdom, OdomAges, OnBattery, OnAbort, OnSetRunning, OnSetParameters, Boards
<1>4. ASSUME NEW flight \in Flights
      PROVE  /\ Orderly(flight, Line(flight), Now')
             /\ cause' = "none" /\ Active(flight,
                   Now') /\ "LandNearTurbineBase" \notin DOMAIN config' =>
                  Running(<<flight>>, Now')
  <2>1. Now'.mem = Now.mem /\ Now.board = board /\ Now'.board = board'
    BY <1>1 DEF Now
  <2>2. Orderly(flight, Line(flight), Now') /\ (Running(<<flight>>, Now) => Running(<<flight>>, Now'))
    BY <2>1 DEF FlightsAreOrderly, Orderly, Underway, Armed, NoArm, Running
  <2>3. cause' = "none" /\ Active(flight, Now') => cause = "none" /\ Active(flight, Now)
    BY <1>3, <2>1 DEF Active
  <2> QED
    BY <1>1, <2>2, <2>3 DEF FlightsAreOrderly
<1> QED
  BY <1>4 DEF FlightsAreOrderly, Orderly, Underway, Armed, NoArm, Running, Active, Line

LEMMA OrderGoesOn ==
  EngineInv /\ FlightsAreOrderly /\ [EngineNext]_engineVars => FlightsAreOrderly'
<1> SUFFICES ASSUME EngineInv, FlightsAreOrderly, [EngineNext]_engineVars PROVE FlightsAreOrderly'
  OBVIOUS
<1>1. CASE OnTick
  BY <1>1, TickKeepsOrder
<1>2. CASE Calls
  BY <1>2, CallsKeepOrder
<1>3. CASE UNCHANGED engineVars
  BY <1>3 DEF engineVars, FlightsAreOrderly, Orderly, Underway, Armed, NoArm, Running, Active, Now
<1> QED
  BY <1>1, <1>2, <1>3 DEF EngineNext, Calls

\* Whatever the operator and the sensors do, a takeoff is due to the operator or resumes after an
\* emergency: no flight arms again behind the operator's back.
THEOREM TakesOffOnce == EngineSpec => NoSecondTakeoff
<1> DEFINE key == "LandNearTurbineBase"
<1>1. ASSUME EngineInv, FlightsAreOrderly, OnTick, TakeoffStarts, key \notin DOMAIN config
      PROVE  cause # "none"
  <2>1. PICK flight \in Flights : Starts(flight, Now')
    BY <1>1 DEF TakeoffStarts, Takeoffs, Flights, Starts, Arm, Now
  <2>2. Active(flight, Now) /\ ~Running(<<flight>>, Now)
    BY <1>1, <2>1, TickBears
  <2> QED
    BY <1>1, <2>2 DEF FlightsAreOrderly
<1>2. EngineInv /\ FlightsAreOrderly /\ [EngineNext]_engineVars =>
        [OnTick /\ TakeoffStarts /\ key \notin DOMAIN config => cause # "none"]_engineVars
  BY <1>1
<1>3. EngineSpec => []FlightsAreOrderly
  BY FlightsBegin, OrderGoesOn, EngineIsSound, PTL DEF EngineSpec
<1> QED
  BY <1>2, <1>3, EngineIsSound, PTL DEF EngineSpec, NoSecondTakeoff

-----------------------------------------------------------------------------
(* The offboard controller.  What it publishes, for every choice of timeouts, durations and *)
(* altitudes, and for any number of commands in transit.  The invariant ties the clocks to  *)
(* the order they serve: in VELOCITY the target is the order's, and what is left of its     *)
(* time and the silence since it was given do not exceed what it was meant to last.         *)


ServesOrder ==
  current_state = "VELOCITY" =>
    /\ target = order.velocity
    /\ left > 0 => left + silence <= order.lasts

ClockInv == ControllerTypeOK /\ order \in [velocity : Velocities, lasts : Nat]
            /\ ClimbsWithinLimits /\ ServesOrder

ControlInv == LinkTypeOK /\ ClockInv

\* ClimbTo turns every request into an altitude between the limit and the ground.
LEMMA ClimbToRange == \A altitude \in Altitudes : ClimbTo(altitude) \in MaxAltitude..-1
  BY OffboardAssumption DEF ClimbTo, Abs

\* The clocks saturate, and no order lasts for no time.
LEMMA Clocks ==
  /\ NoLimit \in Nat \ {0} /\ HeartbeatTimeout \in Nat /\ SignalTimeout \in Nat
  /\ \A n \in Nat : UpTo(HeartbeatTimeout + 1, n) \in 0..HeartbeatTimeout + 1
  /\ \A n \in Nat : UpTo(HeartbeatTimeout + 1, n) <= n
  /\ \A n \in Nat : UpTo(SignalTimeout, n) \in 0..SignalTimeout
  /\ \A d \in Durations : Lasts(d) \in Nat \ {0}
  BY OffboardAssumption DEF NoLimit, UpTo, Lasts

LEMMA ControlInitInv == Init => ControlInv
<1> SUFFICES ASSUME Init PROVE ControlInv
  OBVIOUS
<1>1. order \in [velocity : Velocities, lasts : Nat]
  BY DEF Init, Velocities
<1>2. ControllerTypeOK
  <2>1. current_state = "INIT" /\ estop_active = FALSE /\ target = "zero"
        /\ takeoff_altitude = -5 /\ left = 0 /\ silence = 0
    BY DEF Init
  <2>2. silence \in 0..HeartbeatTimeout + 1
    BY <2>1, OffboardAssumption
  <2>3. takeoff_altitude \in Int
    BY DEF Init
  <2>4. estop_active \in BOOLEAN
    BY DEF Init
  <2> QED
    BY <2>1, <2>2, <2>3, <2>4 DEF ControllerTypeOK, Velocities
<1>3. ClimbsWithinLimits
  BY OffboardAssumption DEF Init, ClimbsWithinLimits
<1>4. ServesOrder
  BY DEF Init, ServesOrder
<1>5. heard \in [failsafe : BOOLEAN, engaged : BOOLEAN]
  BY DEF Init
<1>6. published \in Setpoints
  BY OffboardAssumption DEF Init, Setpoints, Hover, Velocities
<1>7. px4 \in [mode : {"hold", "offboard", "land"}, quiet : 0..SignalTimeout]
  BY OffboardAssumption DEF Init
<1>8. commands \in Seq({"engage", "land"})
  BY DEF Init
<1> QED
  BY <1>1, <1>2, <1>3, <1>4, <1>5, <1>6, <1>7, <1>8 DEF ControlInv, ClockInv, LinkTypeOK

\* The clocks and targets, action by action.
LEMMA ClockStep == ClockInv /\ [Next]_vars => ClockInv'
<1> SUFFICES ASSUME ClockInv, [Next]_vars PROVE ClockInv'
  OBVIOUS
<1> USE OffboardAssumption DEF ClockInv, ControllerTypeOK, ClimbsWithinLimits, ServesOrder, node
<1>1. CASE UNCHANGED <<node, order>>
  BY <1>1
<1>2. ASSUME NEW good \in BOOLEAN, NEW low \in BOOLEAN, NEW bench \in BOOLEAN,
             NEW altitude \in Altitudes, TakeoffCallback(altitude, good, low, bench)
      PROVE  ClockInv'
  <2>1. takeoff_altitude' \in MaxAltitude..-1
    BY <1>2, ClimbToRange DEF TakeoffCallback
  <2> QED
    BY <1>2, <2>1 DEF TakeoffCallback
<1>3. ASSUME NEW moving \in BOOLEAN, CmdVelCallback(moving)
      PROVE  ClockInv'
  BY <1>3 DEF CmdVelCallback, Velocity, Velocities
<1>4. ASSUME NEW moving \in BOOLEAN, NEW frame \in {"body", "ned"}, NEW duration \in Durations,
             NEW auto_arm \in BOOLEAN, SetVelocityCallback(moving, frame, duration, auto_arm)
      PROVE  ClockInv'
  BY <1>4, Clocks DEF SetVelocityCallback, Velocity, Velocities
<1>5. CASE LandCallback \/ EstopCallback
  BY <1>5 DEF LandCallback, EstopCallback
<1>6. CASE TimerCallback
  BY <1>6 DEF TimerCallback
<1>7. CASE TimePasses
  <2>1. silence' \in 0..HeartbeatTimeout + 1 /\ silence' <= silence + 1
    BY <1>7, Clocks DEF TimePasses
  <2>2. left' \in Nat /\ (left' > 0 => left' = left - 1 /\ left > 0)
    BY <1>7 DEF TimePasses
  <2> QED
    BY <1>7, <2>1, <2>2 DEF TimePasses
<1>8. ASSUME NEW good \in BOOLEAN, NEW bench \in BOOLEAN, ArmCallback(good, bench)
      PROVE  UNCHANGED <<node, order>>
  BY <1>8 DEF ArmCallback
<1>9. CASE Telemetry
  BY <1>1, <1>9 DEF Telemetry, ControlModeCallback, FailsafeFlagsCallback
<1>10. CASE Px4
  BY <1>1, <1>10 DEF Px4, Px4TakesCommand, Px4LosesSignal, PilotSelects
<1>11. CASE UNCHANGED vars
  BY <1>1, <1>11 DEF vars
<1>12. CASE Service
  BY <1>1, <1>2, <1>3, <1>4, <1>5, <1>8, <1>12 DEF Service
<1> QED
  BY <1>6, <1>7, <1>9, <1>10, <1>11, <1>12 DEF Next

\* The link: what is published, in transit and known of PX4.
LEMMA LinkStep == ControlInv /\ [Next]_vars => LinkTypeOK'
<1> SUFFICES ASSUME ControlInv, [Next]_vars PROVE LinkTypeOK'
  OBVIOUS
<1>1. order' \in [velocity : Velocities, lasts : Nat]
  BY ClockStep DEF ControlInv, ClockInv
<1>2. commands' \in Seq({"engage", "land"})
  <2>1. commands \in Seq({"engage", "land"})
    BY DEF ControlInv, LinkTypeOK
  <2>2. \/ UNCHANGED commands
        \/ Send("engage") \/ Send("land")
        \/ commands # << >> /\ commands' = Tail(commands)
    BY DEF Next, Service, ArmCallback, TakeoffCallback, CmdVelCallback, SetVelocityCallback,
       LandCallback, EstopCallback, Telemetry, ControlModeCallback, FailsafeFlagsCallback,
       TimerCallback, TimePasses, Px4, Px4TakesCommand, Px4LosesSignal, PilotSelects, vars
  <2> QED
    BY <2>1, <2>2 DEF Send
<1>3. heard' \in [failsafe : BOOLEAN, engaged : BOOLEAN]
  <2>1. heard \in [failsafe : BOOLEAN, engaged : BOOLEAN]
    BY DEF ControlInv, LinkTypeOK
  <2>2. CASE UNCHANGED heard
    BY <2>1, <2>2
  <2>3. CASE Telemetry
    BY <2>1, <2>3 DEF Telemetry, ControlModeCallback, FailsafeFlagsCallback
  <2>4. UNCHANGED heard \/ Telemetry
    BY DEF Next, Service, ArmCallback, TakeoffCallback, CmdVelCallback, SetVelocityCallback,
       LandCallback, EstopCallback, TimerCallback, TimePasses, Px4, Px4TakesCommand,
       Px4LosesSignal, PilotSelects, vars
  <2> QED
    BY <2>2, <2>3, <2>4
<1>4. published' \in Setpoints
  <2>1. published \in Setpoints /\ silence \in 0..HeartbeatTimeout + 1 /\ target \in Velocities
    BY DEF ControlInv, LinkTypeOK, ClockInv, ControllerTypeOK
  <2>2. UNCHANGED published \/ published' = Setpoint(left')
    BY DEF Next, Service, ArmCallback, TakeoffCallback, CmdVelCallback, SetVelocityCallback,
       LandCallback, EstopCallback, Telemetry, ControlModeCallback, FailsafeFlagsCallback,
       TimerCallback, TimePasses, Px4, Px4TakesCommand, Px4LosesSignal, PilotSelects, vars
  <2>3. Setpoint(left') \in Setpoints
    BY <2>1, OffboardAssumption DEF Setpoint, Setpoints, Hover, Velocities
  <2> QED
    BY <2>1, <2>2, <2>3
<1>5. px4' \in [mode : {"hold", "offboard", "land"}, quiet : 0..SignalTimeout]
  <2>1. px4 \in [mode : {"hold", "offboard", "land"}, quiet : 0..SignalTimeout]
    BY DEF ControlInv, LinkTypeOK
  <2>2. CASE UNCHANGED px4
    BY <2>1, <2>2
  <2>3. CASE TimerCallback
    BY <2>1, <2>3, OffboardAssumption DEF TimerCallback
  <2>4. CASE TimePasses
    BY <2>1, <2>4, Clocks DEF TimePasses
  <2>5. CASE Px4
    BY <2>1, <2>5 DEF Px4, Px4TakesCommand, Px4LosesSignal, PilotSelects
  <2>6. UNCHANGED px4 \/ TimerCallback \/ TimePasses \/ Px4
    BY DEF Next, Service, ArmCallback, TakeoffCallback, CmdVelCallback, SetVelocityCallback,
       LandCallback, EstopCallback, Telemetry, ControlModeCallback, FailsafeFlagsCallback, vars
  <2> QED
    BY <2>2, <2>3, <2>4, <2>5, <2>6
<1> QED
  BY <1>1, <1>2, <1>3, <1>4, <1>5 DEF LinkTypeOK

LEMMA ControlInvariance == Spec => []ControlInv
<1>1. ControlInv /\ [Next]_vars => ControlInv'
  BY ClockStep, LinkStep DEF ControlInv
<1> QED
  BY <1>1, ControlInitInv, PTL DEF Spec

\* Every state of the controller is of its type.
THEOREM ControlTypeCorrect == Spec => []TypeOK
<1>1. ControlInv => TypeOK
  BY DEF ControlInv, ClockInv, TypeOK
<1> QED
  BY <1>1, ControlInvariance, PTL

\* No climb is aimed below the ground or above MAX_ALTITUDE.
THEOREM ClimbsAreLimited == Spec => []ClimbsWithinLimits
<1>1. ControlInv => ClimbsWithinLimits
  BY DEF ControlInv, ClockInv
<1> QED
  BY <1>1, ControlInvariance, PTL

\* Every velocity published serves the order last accepted, within its time.
THEOREM VelocitiesHaveOrders == Spec => VelocityHasAnOrder
<1> DEFINE Due == published' # published /\ published'.flies \in {"body", "ned"} =>
                    /\ published'.flies = order.velocity
                    /\ published'.age < order.lasts /\ published'.age <= HeartbeatTimeout
<1>1. ControlInv /\ [Next]_vars => [Due]_vars
  <2> SUFFICES ASSUME ControlInv, [Next]_vars, published' # published PROVE Due
    BY DEF vars
  <2>1. TimerCallback
    BY DEF Next, Service, ArmCallback, TakeoffCallback, CmdVelCallback, SetVelocityCallback,
       LandCallback, EstopCallback, Telemetry, ControlModeCallback, FailsafeFlagsCallback,
       TimePasses, Px4, Px4TakesCommand, Px4LosesSignal, PilotSelects, vars
  <2>2. CASE published'.flies \in {"body", "ned"}
    <3>1. /\ current_state = "VELOCITY" /\ left' > 0
          /\ published' = [flies |-> target, age |-> silence]
      BY <2>1, <2>2 DEF TimerCallback, Setpoint, Hover
    <3>2. silence <= HeartbeatTimeout /\ left' = left
      BY <2>1, <3>1, OffboardAssumption DEF TimerCallback, ControlInv, ClockInv, ControllerTypeOK
    <3> QED
      BY <3>1, <3>2, OffboardAssumption DEF ControlInv, ClockInv, ControllerTypeOK, ServesOrder
  <2> QED
    BY <2>2
<1> QED
  BY <1>1, ControlInvariance, PTL DEF Spec, VelocityHasAnOrder
=============================================================================
