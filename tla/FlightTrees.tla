----------------------------- MODULE FlightTrees -----------------------------
(***************************************************************************)
(* The trees of imav_bt/trees: the four missions, the landing ladder, the  *)
(* two flights and the root.  Steps are the stubs of the source, which     *)
(* missions.yaml configures.                                               *)
(***************************************************************************)
EXTENDS BehaviourTree

CONSTANTS
  Enabled,         \* the missions with enabled: true
  Attempts         \* mission -> attempts

ASSUME MissionsAssumption ==
  /\ Enabled \subseteq Missions
  /\ Attempts \in [Missions -> Nat \ {0}]

-----------------------------------------------------------------------------
(* Missions *)

\* Detect it, cross it, record it.
GateOption(label, objective, detect, traverse) ==
  Sequence(<<label>>, TRUE,
       <<Step(<<label, detect>>, detect), Step(<<label, traverse>>, traverse),
         MarkObjective(objective)>>)

\* Options by decreasing score, then the skip.
Ladder(name, options) ==
  Selector(<<name>>, TRUE, Append(options, Stub(<<name, "skip">>, "success", 1)))

WindowPanel(name, red, blue) == Ladder(name, <<red, blue>>)

Mission1 ==
  Sequence(<<"Mission 1">>, TRUE, <<
    WindowPanel("Window A",
      GateOption("Window A red", "m1.window_a_red", "DetectWindowARed", "TraverseWindowARed"),
      GateOption("Window A blue", "m1.window_a_blue", "DetectWindowABlue", "TraverseWindowABlue")),
    Ladder("Red bar", <<
      GateOption("Red bar high", "m1.bar_red_high", "DetectRedBar", "CrossRedBarHigh"),
      GateOption("Red bar middle", "m1.bar_red_middle", "DetectRedBar", "CrossRedBarMiddle")>>),
    Ladder("Blue bars", <<
      GateOption("Blue bars low", "m1.bar_blue_low", "DetectBlueBars", "CrossBlueBarsLow"),
      GateOption("Blue bars middle", "m1.bar_blue_middle", "DetectBlueBars",
                 "CrossBlueBarsMiddle")>>),
    Ladder("Tube passage", <<GateOption("Tubes", "m1.tubes", "DetectTubes", "CrossTubes")>>),
    WindowPanel("Window B",
      GateOption("Window B red", "m1.window_b_red", "DetectWindowBRed", "TraverseWindowBRed"),
      GateOption("Window B blue", "m1.window_b_blue", "DetectWindowBBlue",
                 "TraverseWindowBBlue"))>>)

\* No skip: without a window there is nothing to count.
WindowLadder(name, red, blue) == Selector(<<name>>, TRUE, <<red, blue>>)

Mission2 ==
  Sequence(<<"Mission 2">>, TRUE, <<
    Step(<<"ApproachRoom">>, "ApproachRoom"),
    WindowLadder("Enter room",
      GateOption("Enter room via red", "m2.enter_red", "AlignEnterRed", "FlyEnterRed"),
      GateOption("Enter room via blue", "m2.enter_blue", "AlignEnterBlue", "FlyEnterBlue")),
    Step(<<"Illuminate">>, "Illuminate"),
    Step(<<"SweepAndCount">>, "SweepAndCount"),
    MarkObjective("m2.counted"),
    WindowLadder("Exit room",
      GateOption("Exit room via red", "m2.exit_red", "AlignExitRed", "FlyExitRed"),
      GateOption("Exit room via blue", "m2.exit_blue", "AlignExitBlue", "FlyExitBlue")),
    Step(<<"PublishCount">>, "PublishCount")>>)

\* Mutant: the cone is dropped before the hot box is shown.
Mission3ConeFirst ==
  Sequence(<<"Mission 3">>, TRUE, <<
    Step(<<"ApproachBoxArea">>, "ApproachBoxArea"),
    Step(<<"ScanBoxes">>, "ScanBoxes"),
    Step(<<"SelectHotBox">>, "SelectHotBox"),
    Step(<<"HoverOverBox">>, "HoverOverBox"),
    Step(<<"DropCone">>, "DropCone"),
    MarkObjective("m3.cone_dropped"),
    Step(<<"BlinkHotspotLed">>, "BlinkHotspotLed"),
    MarkObjective("m3.hotbox_detected")>>)

Mission3 ==
  Sequence(<<"Mission 3">>, TRUE, <<
    Step(<<"ApproachBoxArea">>, "ApproachBoxArea"),
    Step(<<"ScanBoxes">>, "ScanBoxes"),
    Step(<<"SelectHotBox">>, "SelectHotBox"),
    Step(<<"HoverOverBox">>, "HoverOverBox"),
    Step(<<"BlinkHotspotLed">>, "BlinkHotspotLed"),
    MarkObjective("m3.hotbox_detected"),
    Step(<<"DropCone">>, "DropCone"),
    MarkObjective("m3.cone_dropped")>>)

Mission4 ==
  Sequence(<<"Mission 4">>, TRUE, <<
    Step(<<"ApproachRingSupport">>, "ApproachRingSupport"),
    Step(<<"VisualServoToRing">>, "VisualServoToRing"),
    Step(<<"GrabRing">>, "GrabRing"),
    Step(<<"VerifyGrab">>, "VerifyGrab"),
    MarkObjective("m4.ring_grabbed"),
    Step(<<"ApproachBlade">>, "ApproachBlade"),
    Step(<<"TouchCopperDisc">>, "TouchCopperDisc"),
    MarkObjective("m4.disc_touched"),
    Step(<<"RetreatFromBlade">>, "RetreatFromBlade")>>)

-----------------------------------------------------------------------------
(* Flights *)

ArmAndTakeoff(flight) == Stub(<<flight, "ArmAndTakeoff">>, "success", 3)
Land == Stub(<<"Land">>, "success", 3)

Approach(label, objective, find, track, descend, confirm) ==
  Sequence(<<label>>, TRUE,
       <<Step(<<find>>, find), Step(<<track>>, track), Step(<<descend>>, descend),
         Step(<<confirm>>, confirm), MarkObjective(objective)>>)

\* Moving platform, static platform, plain descent.
Landing ==
  Selector(<<"Precision Landing">>, TRUE, <<
    Approach("Land on Moving platform", "landing.moving", "FindMovingMarker",
             "TrackMovingPlatform", "DescendMoving", "ConfirmMovingTouchdown"),
    Approach("Land on Static platform", "landing.static", "FindStaticMarker",
             "TrackStaticPlatform", "DescendStatic", "ConfirmStaticTouchdown"),
    Land>>)

MissionSlot(mission, tree) ==
  IF mission \in Enabled THEN guarded(mission, tree, Attempts[mission])
  ELSE Stub(<<mission, "disabled">>, "success", 1)

FlightA ==
  Sequence(<<"FlightA">>, TRUE,
       <<ArmAndTakeoff("FlightA"), MissionSlot("mission1", Mission1), MissionSlot("mission2", Mission2),
         MissionSlot("mission3", Mission3), Landing, StopRunning>>)

FlightB ==
  Sequence(<<"FlightB">>, TRUE,
       <<ArmAndTakeoff("FlightB"), MissionSlot("mission4", Mission4),
         Step(<<"LandNearTurbineBase">>, "LandNearTurbineBase"), StopRunning>>)

-----------------------------------------------------------------------------
(* The root *)

EmergencyLand == Stub(<<"EmergencyLand">>, "success", 5)
Idle == Stub(<<"Idle">>, "running", 1)

SafetyBranch == Sequence(<<"SafetyOverride">>, FALSE, <<SafetyTripped, EmergencyLand>>)

FlightPlanRunner ==
  Selector(<<"FlightPlanRunner">>, FALSE,
      <<Sequence(<<"Run FlightA">>, FALSE, <<FlightPlanIs("flight_a"), FlightA>>),
        Sequence(<<"Run FlightB">>, FALSE, <<FlightPlanIs("flight_b"), FlightB>>)>>)

\* Mutant: the flights are asked before the safety branch.
RootUnsafe == Selector(<<"Root">>, FALSE, <<FlightPlanRunner, SafetyBranch, Idle>>)

Root == Selector(<<"Root">>, FALSE, <<SafetyBranch, FlightPlanRunner, Idle>>)

ASSUME IdsAssumption == Root.below \subseteq Ids
=============================================================================
