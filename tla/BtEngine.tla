------------------------------ MODULE BtEngine ------------------------------
(***************************************************************************)
(* The imav_bt node (bt_engine.py): sensor messages and operator services  *)
(* write the blackboard, a timer ticks the tree.  One thread runs it all,  *)
(* so each callback is one action.                                         *)
(*                                                                         *)
(* Abstracted: a sensor's value is what the safety checks tell apart       *)
(* (battery: none, ok or low; odometry: none, stale, inside or outside the *)
(* geofence); the status and snapshot topics are left out.  goal_status    *)
(* and active_goal belong to GotoAnchor, which no tree uses yet.           *)
(***************************************************************************)
EXTENDS FlightTrees

CONSTANT MaxEvents   \* bound: operator calls and sensor changes in a behaviour

ASSUME EngineAssumption == MaxEvents \in Nat

VARIABLES
  config,          \* the `steps:` of missions.yaml
  mem,             \* what the nodes remember, see BehaviourTree
  board,           \* the blackboard
  events,          \* operator calls and sensor changes so far
  \* What the properties need to remember:
  cause,           \* why the next takeoff would start: "operator", "emergency", "none"
  parity           \* of the number of ticks, so that a tick is always a step

engineVars == <<config, mem, board, events, cause, parity>>

Requests == Plans \cup {"flight_c"}     \* what a parameter call may ask for

EngineInit ==
  /\ config \in Configs
  /\ mem = {}
  /\ \E plan \in Plans, autostart \in BOOLEAN :
       /\ board = [running |-> autostart, flight_plan |-> plan, abort_requested |-> FALSE,
                   battery |-> "none", odom |-> "none", safety_reason |-> "",
                   mission_outcomes |-> [m \in Missions |-> "none"], objectives |-> {}]
       /\ cause = IF autostart THEN "operator" ELSE "none"
  /\ events = 0
  /\ parity = 0

-----------------------------------------------------------------------------
(* Subscriptions and services *)

Event ==
  /\ events < MaxEvents
  /\ events' = events + 1
  /\ UNCHANGED <<config, mem, parity>>

\* _on_odom: the pose is fresh again.
OnOdom ==
  /\ Event
  /\ \E where \in {"inside", "outside"} \ {board.odom} :
       board' = [board EXCEPT !.odom = where]
  /\ UNCHANGED cause

\* No odometry for max_odom_age_s.
OdomAges ==
  /\ Event
  /\ board.odom \in {"inside", "outside"}
  /\ board' = [board EXCEPT !.odom = "stale"]
  /\ UNCHANGED cause

OnBattery ==
  /\ Event
  /\ \E level \in {"ok", "low"} \ {board.battery} :
       board' = [board EXCEPT !.battery = level]
  /\ UNCHANGED cause

OnSetRunning(data) ==
  /\ Event
  /\ board' = [board EXCEPT !.running = data, !.abort_requested = FALSE]
  /\ cause' = IF data /\ ~board.running THEN "operator" ELSE cause

OnAbort ==
  /\ Event
  /\ board' = [board EXCEPT !.abort_requested = TRUE]
  /\ UNCHANGED cause

\* _on_set_parameters, for one flight_plan: refused when it is none of the
\* plans, and while running.  A refused call changes nothing.
OnSetParameters(plan) ==
  /\ Event
  /\ plan \in Plans
  /\ ~board.running
  /\ plan # board.flight_plan
  /\ board' = [board EXCEPT !.flight_plan = plan]
  /\ UNCHANGED cause

-----------------------------------------------------------------------------
(* The tick *)

Takeoffs == {<<flight, "ArmAndTakeoff">> : flight \in {"FlightA", "FlightB"}}

\* The takeoff starts in the step from m to n: it counts its first tick.
TakeoffStarts == \E m \in mem' : m.id \in Takeoffs /\ m.number = 1

Emergency == board.running /\ FirstProblem(board) # ""

OnTick ==
  /\ LET t == Root.tick[[mem |-> mem, board |-> board, config |-> config]] IN
       /\ mem' = t.s.mem
       /\ board' = t.s.board
  /\ cause' = CASE Emergency -> "emergency"
                [] ~Emergency /\ TakeoffStarts -> "none"
                [] ~Emergency /\ ~TakeoffStarts -> cause
  /\ parity' = 1 - parity
  /\ UNCHANGED <<config, events>>

EngineNext ==
  \/ OnOdom
  \/ OdomAges
  \/ OnBattery
  \/ \E data \in BOOLEAN : OnSetRunning(data)
  \/ OnAbort
  \/ \E plan \in Requests : OnSetParameters(plan)
  \/ OnTick

EngineSpec == EngineInit /\ [][EngineNext]_engineVars

\* The timer fires for as long as the node runs.  OnTick is always enabled and
\* alone changes parity, so this is WF_engineVars(OnTick).
EngineFairSpec == EngineSpec /\ WF_parity(parity' = 1 - parity)

-----------------------------------------------------------------------------
(* Properties *)

\* The type of every variable; a node that is not in the tree remembers nothing.
EngineTypeOK ==
  /\ config \in Configs
  /\ mem \subseteq [id : Root.below, number : Nat]
  /\ \A m, n \in mem : m.id = n.id => m = n
  /\ board \in Boards
  /\ events \in 0..MaxEvents
  /\ cause \in {"operator", "emergency", "none"}
  /\ parity \in {0, 1}

\* A tick that finds an emergency leaves no node of a flight RUNNING, however
\* deep in a mission the tree was, and says why (the root has no memory).
SafetyPreempts ==
  [][OnTick /\ Emergency =>
       /\ \A m \in mem' : m.id \notin FlightPlanRunner.below
       /\ board'.safety_reason = FirstProblem(board)]_engineVars

\* A flight never takes off twice for one start: a takeoff is due to the
\* operator, or resumes after an emergency that went away; only a landing at
\* the turbine base that fails makes the flight start over.
NoSecondTakeoff ==
  [][OnTick /\ TakeoffStarts /\ "LandNearTurbineBase" \notin DOMAIN config =>
       cause # "none"]_engineVars

Impaired(keys) == \E key \in keys \cap DOMAIN config : config[key].outcome # "success"

\* A flight that declares itself over has landed, and has an outcome for each
\* of its missions: "success" only if no step the mission depends on failed.
Ended == OnTick /\ board.running /\ ~board'.running
Flown == IF board.flight_plan = "flight_a" THEN {"mission1", "mission2", "mission3"}
         ELSE {"mission4"}
Needed == [mission1 |-> {},
           mission2 |-> {"ApproachRoom", "Illuminate", "SweepAndCount", "PublishCount"},
           mission3 |-> {"ApproachBoxArea", "ScanBoxes", "SelectHotBox", "HoverOverBox",
                         "BlinkHotspotLed", "DropCone"},
           mission4 |-> {"ApproachRingSupport", "VisualServoToRing", "GrabRing", "VerifyGrab",
                         "ApproachBlade", "TouchCopperDisc", "RetreatFromBlade"}]
MovingSteps == {"FindMovingMarker", "TrackMovingPlatform", "DescendMoving",
                "ConfirmMovingTouchdown"}
StaticSteps == {"FindStaticMarker", "TrackStaticPlatform", "DescendStatic",
                "ConfirmStaticTouchdown"}

FlightsEndLanded ==
  [][Ended =>
       /\ \A m \in Flown \cap Enabled :
            /\ board'.mission_outcomes[m] # "none"
            /\ board'.mission_outcomes[m] = "success" => ~Impaired(Needed[m])
       /\ board.flight_plan = "flight_a" =>
            \/ "landing.moving" \in board'.objectives
            \/ Impaired(MovingSteps) /\ "landing.static" \in board'.objectives
            \/ Impaired(MovingSteps) /\ Impaired(StaticSteps)]_engineVars

\* The score sheet is one the rules allow: one opening per window panel, one
\* height per bar, one platform, and no cone dropped before the hot box was
\* shown; whatever was interrupted, retried or flown again.
ScoresOnce ==
  /\ \A pair \in {{"m1.window_a_red", "m1.window_a_blue"}, {"m1.window_b_red", "m1.window_b_blue"},
                  {"m1.bar_red_high", "m1.bar_red_middle"},
                  {"m1.bar_blue_low", "m1.bar_blue_middle"},
                  {"m2.enter_red", "m2.enter_blue"}, {"m2.exit_red", "m2.exit_blue"},
                  {"landing.moving", "landing.static"}} :
       ~(pair \subseteq board.objectives)
  /\ "m3.cone_dropped" \in board.objectives => "m3.hotbox_detected" \in board.objectives
BtInv == EngineTypeOK /\ ScoresOnce

\* The deadlines and the attempts bound every mission, even one whose step
\* never answers: whoever is in a mission leaves it.
IsRunning(id) == \E m \in mem : m.id = id
InMission == \E m \in Missions : IsRunning(<<m, "Skip">>)
MissionsEnd == InMission ~> ~InMission

\* "A tripped abort cannot be shrugged off without a deliberate stop first":
\* the call that clears the latch leaves the tree stopped.
AbortNeedsStop ==
  [][board.abort_requested /\ ~board'.abort_requested => ~board'.running]_engineVars

\* landing.build: "A tickable behaviour that always finishes with the drone on
\* the ground": who starts landing stops landing.
InLanding == IsRunning(<<"Precision Landing">>)
LandingFinishes == InLanding ~> ~InLanding
=============================================================================
