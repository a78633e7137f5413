----------------------------- MODULE MCBtEngine -----------------------------
(***************************************************************************)
(* BtEngine with every configuration that makes one step fail, hang or     *)
(* take two ticks, some that make two fail, and the shipped one.           *)
(***************************************************************************)
EXTENDS BtEngine, TLC

FailingKeys == {
  "DetectWindowARed", "CrossRedBarHigh", "FlyEnterRed", "SweepAndCount", "AlignExitBlue",
  "BlinkHotspotLed", "TouchCopperDisc", "DescendMoving", "LandNearTurbineBase"}
HangingKeys == {"TraverseWindowARed", "DropCone", "VerifyGrab"}
SlowKeys == {"SweepAndCount", "DropCone", "DescendMoving"}

One(keys, outcome, n) == {(key :> [outcome |-> outcome, ticks |-> n]) : key \in keys}
Fail(keys) == [key \in keys |-> [outcome |-> "failure", ticks |-> 1]]

MCConfigs ==
  {<< >>} \cup One(FailingKeys, "failure", 1) \cup One(HangingKeys, "running", 1)
  \cup One(SlowKeys, "success", 2)
  \cup {Fail({"DetectWindowARed", "TraverseWindowABlue"}), Fail({"FlyEnterRed", "AlignEnterBlue"}),
        Fail({"DescendMoving", "TrackStaticPlatform"})}
MCIds == Seq(STRING)
MCEnabled == {"mission1", "mission2", "mission3", "mission4"}
MCAttempts == [mission1 |-> 1, mission2 |-> 1, mission3 |-> 2, mission4 |-> 1]
MCHung == One({"DescendMoving"}, "running", 1)
MCShipped == {<< >>}
=============================================================================
