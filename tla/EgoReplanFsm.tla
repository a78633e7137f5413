---------------------------- MODULE EgoReplanFsm ----------------------------
(***************************************************************************)
(* The planner's state machine: EGOReplanFSM (ego_replan_fsm.cpp) with     *)
(* what it needs of EGOPlannerManager and GridMap.  The node spins on one  *)
(* thread, so every subscription and timer callback is one action.         *)
(*                                                                         *)
(* Abstracted: positions become the points the FSM compares (goals, the    *)
(* horizon point Mid, a point never written NoPt); the optimiser and the   *)
(* collision scan answer nondeterministically; time is the part of the     *)
(* local trajectory that has elapsed (see Phases).  have_new_target_ and   *)
(* continously_called_times_ only choose how the optimiser is seeded and   *)
(* are left out.                                                           *)
(***************************************************************************)
EXTENDS Integers, Sequences

CONSTANTS
  Goals,        \* points a goal message may carry: [x, y, z] in decimetres
  GateEnable,   \* fsm/goal_gate_enable
  GateMin,      \* fsm/goal_gate_{x,y,z}_min, a point
  GateMax,      \* fsm/goal_gate_{x,y,z}_max, a point
  Keepouts,     \* fsm/keepout_*: a set of [x, y, r]
  Wps,          \* the preset waypoints, a sequence of points
  Mid,          \* a point of the global trajectory at the planning horizon
  NoPt,         \* the content of a point nobody wrote
  Uninit,       \* the content of a flag nobody wrote
  Roles,        \* the drone is "lone", the "leader" of a swarm or a "follower"
  MaxGoals      \* bound: goal messages in a behaviour

Coordinates == [x : Int, y : Int, z : Int]

ASSUME PointsAssumption ==
  /\ Goals \subseteq Coordinates
  /\ {Mid, NoPt} \cap Coordinates = {}
  /\ Mid # NoPt
ASSUME WpsAssumption == Wps \in Seq(Coordinates) /\ Wps # << >>
ASSUME FlagsAssumption ==
  /\ GateEnable \in BOOLEAN
  /\ Uninit \notin BOOLEAN
ASSUME RolesAssumption == Roles \subseteq {"lone", "leader", "follower"}
ASSUME BoundAssumption == MaxGoals \in Nat

VARIABLES
  role,                   \* manager/drone_id: below 0, 0, or 1 and above
  target_type,            \* fsm/flight_type: 1 MANUAL or 2 PRESET
  exec_state,
  have_odom, have_target, have_trigger, have_recv_pre_agent,
  enable_fail_safe,
  flag_escape_emergency,  \* no initial value in the code
  end_pt,                 \* the goal
  local_target_pt,        \* the point the last planning attempt aimed at
  progress,               \* last_progress_time_: "open", or "end" of the global trajectory
  wp_id,                  \* index in Wps of the preset waypoint flown to
  booted,                 \* PRESET: init() has read the waypoints
  local_data,             \* the local trajectory, see NoTraj
  phase,                  \* how much of it has elapsed
  depth_lost,             \* GridMap's flag_depth_odom_timeout_
  \* What the properties need to remember:
  received,               \* goal messages taken so far
  goal_no,                \* number of the goal message end_pt comes from
  said                    \* the statuses of the callback that published last

params  == <<role, target_type>>
flags   == <<have_odom, have_target, have_trigger, have_recv_pre_agent>>
goal    == <<end_pt, wp_id, goal_no>>
traj    == <<local_data, phase>>
target  == <<local_target_pt, progress>>
history == <<received, said>>
vars == <<params, exec_state, flags, enable_fail_safe, flag_escape_emergency,
          goal, target, booted, traj, depth_lost, history>>

States == {"INIT", "WAIT_TARGET", "GEN_NEW_TRAJ", "REPLAN_TRAJ", "EXEC_TRAJ",
           "EMERGENCY_STOP", "SEQUENTIAL_START"}

\* t_cur against the local trajectory: up to replan_thresh_ ("early"), past it
\* ("late"), in the last 10 ms ("end"), and at or past its duration ("over").
Phases == {"early", "late", "end", "over"}

MANUAL == target_type = 1
PRESET == target_type = 2

Peers == role # "lone"            \* other drones broadcast their trajectories
Follower == role = "follower"     \* drone_id >= 1: wait for the previous agent

Points == Coordinates \cup {Mid, NoPt}

\* kind: a plan or a stop; to: where a plan ends; long: it lasts longer than
\* replan_thresh_; for: the goal message it was planned for.
NoTraj == [kind |-> "none", to |-> NoPt, long |-> FALSE, for |-> 0]
StopTraj == [kind |-> "stop", to |-> NoPt, long |-> TRUE, for |-> 0]
Accepted == << <<"accepted:safety_bubble">>, <<"accepted">> >>
Rejected(reason) == << <<"rejected", reason>> >>
Reached == << <<"reached">> >>
Reasons == {"z", "zone", "keepout", "not_ready"}
Replies == {<< >>, Accepted, Reached} \cup {Rejected(reason) : reason \in Reasons}

\* pubGoalStatus, of one callback: the statuses in order and the number of the
\* goal message they are about, which the topic does not carry.  The bit tells
\* two equal publications apart.
Silence == [bit |-> 0, statuses |-> << >>, about |-> 0]
Publish(statuses, n) ==
  said' = [bit |-> 1 - said.bit, statuses |-> statuses, about |-> n]

HaveTraj == local_data.kind # "none"     \* start_time_ has been set

-----------------------------------------------------------------------------
(* The goal gate *)

InBox(p) ==
  /\ GateMin.x <= p.x /\ p.x <= GateMax.x
  /\ GateMin.y <= p.y /\ p.y <= GateMax.y
  /\ GateMin.z <= p.z /\ p.z <= GateMax.z

InKeepout(p) ==
  \E k \in Keepouts :
    (p.x - k.x) * (p.x - k.x) + (p.y - k.y) * (p.y - k.y) < k.r * k.r

GoalAllowed(p) == GateEnable => InBox(p) /\ ~InKeepout(p)

\* z is in decimetres: the code's end_wp(2) < -0.1
TooLow(p) == p.z < -1

RejectReason(p) ==
  IF TooLow(p) THEN "z" ELSE IF ~InBox(p) THEN "zone" ELSE "keepout"

-----------------------------------------------------------------------------
(* Planning *)

\* getLocalTarget.  The scan stops at the horizon, or runs to the end of the
\* global trajectory; when t steps exactly on global_duration_ (always so once
\* last_progress_time_ is there) neither branch writes the target.
GetLocalTarget ==
  \/ UNCHANGED target
  \/ /\ progress = "open"
     /\ local_target_pt' = Mid
     /\ UNCHANGED progress
  \/ /\ progress = "open"
     /\ local_target_pt' = end_pt
     /\ progress' = "end"

NewTraj(data) ==
  /\ local_data' = data
  /\ phase' = "early"

\* callReboundReplan succeeds: the plan becomes the local trajectory and is
\* published on planning/bspline.
PlanSucceeds ==
  /\ GetLocalTarget
  /\ \E long \in BOOLEAN :
       NewTraj([kind |-> "plan", to |-> local_target_pt', long |-> long,
                for |-> goal_no])

\* Every attempt failed; the local target has been moved all the same.
PlanFails ==
  /\ GetLocalTarget
  /\ UNCHANGED traj

\* reboundReplan refuses to start within 0.2 m of the local target, which is
\* where a plan that has run out leaves planFromCurrentTraj.
CloseToGoal ==
  /\ local_data.kind = "plan"
  /\ local_data.to # Mid
  /\ local_target_pt' = local_data.to
  /\ phase \in {"end", "over"}

PlanFromCurrentTraj(ok) == IF ok THEN PlanSucceeds /\ ~CloseToGoal ELSE PlanFails
PlanFromGlobalTraj(ok)  == IF ok THEN PlanSucceeds ELSE PlanFails

\* planNextWaypoint up to its state change.  planGlobalTraj has two points at
\* least and never fails, so "failed:plan" is never published.
SetGlobalTraj(p) ==
  /\ end_pt' = p
  /\ progress' = "open"
  /\ UNCHANGED local_target_pt

\* The state planNextWaypoint leaves, and whether the target is kept.
ReadyForGoal == exec_state \in {"WAIT_TARGET", "EXEC_TRAJ"}
\* Mutant: a goal taken in flight does not ask for a replan.
StateAfterGoalKeepsFlying ==
  IF exec_state = "WAIT_TARGET" THEN "GEN_NEW_TRAJ" ELSE exec_state

StateAfterGoal ==
  CASE exec_state = "WAIT_TARGET" -> "GEN_NEW_TRAJ"
    [] exec_state = "EXEC_TRAJ"   -> "REPLAN_TRAJ"
    [] OTHER                      -> exec_state

-----------------------------------------------------------------------------
Init ==
  /\ role \in Roles
  /\ target_type \in {1, 2}
  /\ exec_state = "INIT"
  /\ have_odom = FALSE
  /\ have_target = FALSE
  /\ have_trigger \in BOOLEAN          \* !fsm/realworld_experiment
  /\ have_recv_pre_agent = FALSE
  /\ enable_fail_safe \in BOOLEAN      \* fsm/fail_safe
  /\ flag_escape_emergency = Uninit
  /\ end_pt = NoPt
  /\ wp_id = 1
  /\ goal_no = 0
  /\ local_target_pt = NoPt
  /\ progress = "open"
  /\ booted = FALSE
  /\ local_data = NoTraj
  /\ phase = "early"
  /\ depth_lost = FALSE
  /\ received = 0
  /\ said = Silence

-----------------------------------------------------------------------------
(* Subscriptions *)

OdometryCallback ==
  /\ ~have_odom
  /\ have_odom' = TRUE
  /\ UNCHANGED <<params, exec_state, have_target, have_trigger, have_recv_pre_agent,
                 enable_fail_safe, flag_escape_emergency, goal, target, booted,
                 traj, depth_lost, history>>

TriggerCallback ==
  /\ PRESET
  /\ ~have_trigger
  /\ have_trigger' = TRUE
  /\ UNCHANGED <<params, exec_state, have_odom, have_target, have_recv_pre_agent,
                 enable_fail_safe, flag_escape_emergency, goal, target, booted,
                 traj, depth_lost, history>>


\* waypointCallback: the goal is turned down and nothing else changes.
RejectGoal(p) ==
  /\ MANUAL
  /\ received < MaxGoals
  /\ received' = received + 1
  /\ \/ /\ TooLow(p) \/ ~GoalAllowed(p)
        /\ Publish(Rejected(RejectReason(p)), received')
     \/ /\ ~TooLow(p) /\ GoalAllowed(p)
        /\ ~have_odom \/ ~ReadyForGoal
        /\ Publish(Rejected("not_ready"), received')
  /\ UNCHANGED <<params, exec_state, flags, enable_fail_safe, flag_escape_emergency,
                 goal, target, booted, traj, depth_lost>>

\* waypointCallback: the goal replaces the one being flown.
AcceptGoal(p) ==
  /\ MANUAL
  /\ received < MaxGoals
  /\ ~TooLow(p) /\ GoalAllowed(p)
  /\ have_odom /\ ReadyForGoal
  /\ received' = received + 1
  /\ Publish(Accepted, received')
  /\ SetGlobalTraj(p)
  /\ goal_no' = received'
  /\ have_target' = TRUE
  /\ exec_state' = StateAfterGoal
  /\ UNCHANGED <<params, have_odom, have_trigger, have_recv_pre_agent, enable_fail_safe,
                 flag_escape_emergency, wp_id, booted, traj, depth_lost>>

\* init() in PRESET mode, once odometry and trigger are there: readGivenWps.
\* While the first exec tick is still due the target is discarded.
ReadGivenWps ==
  /\ PRESET
  /\ ~booted
  /\ have_odom /\ have_trigger
  /\ booted' = TRUE
  /\ wp_id' = 1
  /\ SetGlobalTraj(Wps[1])
  /\ have_target' = ReadyForGoal
  /\ exec_state' = StateAfterGoal
  /\ UNCHANGED <<params, have_odom, have_trigger, have_recv_pre_agent, enable_fail_safe,
                 flag_escape_emergency, goal_no, traj, depth_lost, history>>

\* BroadcastBsplineCallback: a peer's trajectory crosses ours.
BroadcastBsplineCallback ==
  /\ Peers
  /\ HaveTraj
  /\ exec_state' = "REPLAN_TRAJ"
  /\ UNCHANGED <<params, flags, enable_fail_safe, flag_escape_emergency, goal, target,
                 booted, traj, depth_lost, history>>

\* swarmTrajsCallback: the previous agent has published.
SwarmTrajsCallback ==
  /\ Follower
  /\ have_odom
  /\ have_recv_pre_agent' = TRUE
  /\ UNCHANGED <<params, exec_state, have_odom, have_target, have_trigger,
                 enable_fail_safe, flag_escape_emergency, goal, target, booted,
                 traj, depth_lost, history>>

-----------------------------------------------------------------------------
(* execFSMCallback, one action per state *)

ExecInit ==
  /\ exec_state = "INIT"
  /\ have_odom
  /\ exec_state' = "WAIT_TARGET"
  /\ UNCHANGED <<params, flags, enable_fail_safe, flag_escape_emergency, goal, target,
                 booted, traj, depth_lost, history>>

ExecWaitTarget ==
  /\ exec_state = "WAIT_TARGET"
  /\ have_target /\ have_trigger
  /\ exec_state' = "SEQUENTIAL_START"
  /\ UNCHANGED <<params, flags, enable_fail_safe, flag_escape_emergency, goal, target,
                 booted, traj, depth_lost, history>>

ExecSequentialStart ==
  /\ exec_state = "SEQUENTIAL_START"
  /\ Follower => have_recv_pre_agent
  /\ have_odom /\ have_target /\ have_trigger
  /\ \E ok \in BOOLEAN :
       /\ PlanFromGlobalTraj(ok)
       /\ exec_state' = IF ok THEN "EXEC_TRAJ" ELSE "SEQUENTIAL_START"
  /\ UNCHANGED <<params, flags, enable_fail_safe, flag_escape_emergency, goal, booted,
                 depth_lost, history>>

\* Mutant: the escape flag is not raised again.
ExecGenNewTrajNoFlag ==
  /\ exec_state = "GEN_NEW_TRAJ"
  /\ \E ok \in BOOLEAN :
       /\ PlanFromGlobalTraj(ok)
       /\ exec_state' = IF ok THEN "EXEC_TRAJ" ELSE "GEN_NEW_TRAJ"
  /\ UNCHANGED <<params, flags, enable_fail_safe, flag_escape_emergency, goal, booted,
                 depth_lost, history>>

ExecGenNewTraj ==
  /\ exec_state = "GEN_NEW_TRAJ"
  /\ \E ok \in BOOLEAN :
       /\ PlanFromGlobalTraj(ok)
       /\ exec_state' = IF ok THEN "EXEC_TRAJ" ELSE "GEN_NEW_TRAJ"
       /\ flag_escape_emergency' = IF ok THEN TRUE ELSE flag_escape_emergency
  /\ UNCHANGED <<params, flags, enable_fail_safe, goal, booted, depth_lost, history>>

ExecReplanTraj ==
  /\ exec_state = "REPLAN_TRAJ"
  /\ \E ok \in BOOLEAN :
       /\ PlanFromCurrentTraj(ok)
       /\ exec_state' = IF ok THEN "EXEC_TRAJ" ELSE "REPLAN_TRAJ"
  /\ UNCHANGED <<params, flags, enable_fail_safe, flag_escape_emergency, goal, booted,
                 depth_lost, history>>

AtEnd == phase \in {"end", "over"}
PastReplanThresh == phase = "late" \/ (AtEnd /\ local_data.long)
AimedAtGoal == local_target_pt = end_pt

\* PRESET: close enough to this waypoint, go on to the next.  The distance is
\* free, but a plan to the waypoint that has run out has arrived.
ExecNextWaypoint ==
  /\ exec_state = "EXEC_TRAJ"
  /\ PRESET
  /\ wp_id < Len(Wps)
  /\ wp_id' = wp_id + 1
  /\ SetGlobalTraj(Wps[wp_id + 1])
  /\ have_target' = TRUE
  /\ exec_state' = "REPLAN_TRAJ"
  /\ UNCHANGED <<params, have_odom, have_trigger, have_recv_pre_agent, enable_fail_safe,
                 flag_escape_emergency, goal_no, booted, traj, depth_lost, history>>

NoNextWaypoint == MANUAL \/ wp_id >= Len(Wps) \/ ~(AtEnd /\ AimedAtGoal)

\* Mutant: the arrival keeps the goal.
ExecReachedKeepsTarget ==
  /\ exec_state = "EXEC_TRAJ"
  /\ NoNextWaypoint
  /\ AimedAtGoal /\ AtEnd
  /\ exec_state' = "WAIT_TARGET"
  /\ Publish(Reached, local_data.for)
  /\ UNCHANGED <<params, flags, enable_fail_safe, flag_escape_emergency, goal, target,
                 booted, traj, depth_lost, received>>

ExecReached ==
  /\ exec_state = "EXEC_TRAJ"
  /\ NoNextWaypoint
  /\ AimedAtGoal /\ AtEnd
  /\ exec_state' = "WAIT_TARGET"
  /\ have_trigger' = FALSE
  /\ \/ /\ MANUAL
        /\ have_target' = FALSE
        /\ Publish(Reached, local_data.for)
        /\ UNCHANGED <<goal, target>>
     \/ /\ PRESET
        /\ wp_id' = 1
        /\ SetGlobalTraj(Wps[1])
        /\ have_target' = TRUE
        /\ UNCHANGED <<goal_no, said>>
  /\ UNCHANGED <<params, have_odom, have_recv_pre_agent, enable_fail_safe,
                 flag_escape_emergency, booted, traj, depth_lost, received>>

ExecReplanDue ==
  /\ exec_state = "EXEC_TRAJ"
  /\ NoNextWaypoint
  /\ PastReplanThresh
  /\ AimedAtGoal => ~AtEnd       \* and still far from the goal
  /\ exec_state' = "REPLAN_TRAJ"
  /\ UNCHANGED <<params, flags, enable_fail_safe, flag_escape_emergency, goal, target,
                 booted, traj, depth_lost, history>>

\* The flag is read whatever it holds.
ExecEmergencyStop ==
  /\ exec_state = "EMERGENCY_STOP"
  /\ \E escape \in IF flag_escape_emergency = Uninit THEN BOOLEAN
                   ELSE {flag_escape_emergency} :
       \/ /\ escape                         \* callEmergencyStop(odom_pos_)
          /\ NewTraj(StopTraj)
          /\ UNCHANGED exec_state
       \/ /\ ~escape
          /\ enable_fail_safe               \* and odom_vel_ below 0.1 m/s
          /\ exec_state' = "GEN_NEW_TRAJ"
          /\ UNCHANGED traj
       \/ /\ ~escape                        \* still moving, or no fail-safe
          /\ UNCHANGED <<exec_state, traj>>
  /\ flag_escape_emergency' = FALSE
  /\ UNCHANGED <<params, flags, enable_fail_safe, goal, target, booted, depth_lost,
                 history>>

ExecFSMCallback ==
  \/ ExecInit \/ ExecWaitTarget \/ ExecSequentialStart \/ ExecGenNewTraj
  \/ ExecReplanTraj \/ ExecNextWaypoint \/ ExecReached \/ ExecReplanDue
  \/ ExecEmergencyStop

-----------------------------------------------------------------------------
(* checkCollisionCallback: a lost depth stream forces EMERGENCY_STOP, and    *)
(* the trajectory is scanned in any case.                                    *)

Checking == exec_state # "WAIT_TARGET" /\ HaveTraj
AfterDepthCheck == IF depth_lost THEN "EMERGENCY_STOP" ELSE exec_state

SafetyClear ==
  /\ Checking
  /\ exec_state' = AfterDepthCheck
  /\ enable_fail_safe' = (enable_fail_safe /\ ~depth_lost)
  /\ UNCHANGED <<params, flags, flag_escape_emergency, goal, target, booted, traj,
                 depth_lost, history>>

SafetyReplanned ==
  /\ Checking
  /\ phase # "over"
  /\ PlanFromCurrentTraj(TRUE)
  /\ exec_state' = "EXEC_TRAJ"
  /\ enable_fail_safe' = (enable_fail_safe /\ ~depth_lost)
  /\ UNCHANGED <<params, flags, flag_escape_emergency, goal, booted, depth_lost, history>>

\* Nearer than emergency_time_ the FSM stops; further away it replans.
SafetyNoWayOut ==
  /\ Checking
  /\ phase # "over"
  /\ PlanFromCurrentTraj(FALSE)
  /\ \/ exec_state' = "EMERGENCY_STOP"
     \/ phase # "end" /\ exec_state' = "REPLAN_TRAJ"
  /\ enable_fail_safe' = (enable_fail_safe /\ ~depth_lost)
  /\ UNCHANGED <<params, flags, flag_escape_emergency, goal, booted, depth_lost, history>>

CheckCollisionCallback == SafetyClear \/ SafetyReplanned \/ SafetyNoWayOut

-----------------------------------------------------------------------------
(* Time and the map *)

TimePasses ==
  /\ HaveTraj
  /\ \/ phase = "early" /\ local_data.long /\ phase' = "late"
     \/ phase = "early" /\ ~local_data.long /\ phase' = "end"
     \/ phase = "late" /\ phase' = "end"
     \/ phase = "end" /\ phase' = "over"
  /\ UNCHANGED <<params, exec_state, flags, enable_fail_safe, flag_escape_emergency,
                 goal, target, booted, local_data, depth_lost, history>>

\* updateOccupancyCallback: no usable depth for odom_depth_timeout.  Nothing
\* ever clears the flag.
OdomDepthTimeout ==
  /\ ~depth_lost
  /\ depth_lost' = TRUE
  /\ UNCHANGED <<params, exec_state, flags, enable_fail_safe, flag_escape_emergency,
                 goal, target, booted, traj, history>>

Next ==
  \/ OdometryCallback
  \/ TriggerCallback
  \/ \E p \in Goals : RejectGoal(p) \/ AcceptGoal(p)
  \/ ReadGivenWps
  \/ BroadcastBsplineCallback
  \/ SwarmTrajsCallback
  \/ ExecFSMCallback
  \/ CheckCollisionCallback
  \/ TimePasses
  \/ OdomDepthTimeout

Spec == Init /\ [][Next]_vars

-----------------------------------------------------------------------------
(* Properties *)

Data == [kind : {"none", "plan", "stop"}, to : Points, long : BOOLEAN, for : Nat]

\* The type of every variable.
TypeOK ==
  /\ role \in Roles
  /\ target_type \in {1, 2}
  /\ exec_state \in States
  /\ {have_odom, have_target, have_trigger, have_recv_pre_agent, enable_fail_safe}
       \subseteq BOOLEAN
  /\ flag_escape_emergency \in BOOLEAN \cup {Uninit}
  /\ end_pt \in Points
  /\ local_target_pt \in Points
  /\ progress \in {"open", "end"}
  /\ wp_id \in 1..Len(Wps)
  /\ booted \in BOOLEAN
  /\ local_data \in Data
  /\ phase \in Phases
  /\ depth_lost \in BOOLEAN
  /\ received \in 0..MaxGoals
  /\ goal_no \in 0..received
  /\ said \in [bit : {0, 1}, statuses : Replies, about : Nat]

\* flag_escape_emergency_ has no initialiser; the EMERGENCY_STOP tick reads it.
\* Whatever path leads there, some GEN_NEW_TRAJ success has written it before.
FlagWrittenBeforeRead ==
  exec_state = "EMERGENCY_STOP" => flag_escape_emergency # Uninit

\* In EXEC_TRAJ the vehicle follows a plan, never a stop trajectory or nothing;
\* the plan ends at the point the arrival test compares with the goal, and it
\* was made for the goal accepted last, however goals, replans, collisions and
\* emergencies interleave.
ExecFollowsPlan ==
  exec_state = "EXEC_TRAJ" =>
    /\ local_data.kind = "plan"
    /\ local_data.to = local_target_pt
    /\ local_data.for = goal_no

\* A lone drone flown by goals is out of INIT and WAIT_TARGET exactly while it
\* has a goal, so a planner that answers not_ready is working on one; and the
\* swarm start is not reached.
BusyIffTarget ==
  MANUAL /\ ~Peers =>
    /\ have_target <=> exec_state \notin {"INIT", "WAIT_TARGET"}
    /\ exec_state # "SEQUENTIAL_START"

\* What makes the invariants above inductive.  A state that plans from the
\* current trajectory has one; so does a preset tour waiting for its trigger;
\* and whoever has a trajectory went through a GEN_NEW_TRAJ success.
TrajWhereNeeded ==
  /\ exec_state \in {"REPLAN_TRAJ", "EXEC_TRAJ", "EMERGENCY_STOP", "SEQUENTIAL_START"}
       => HaveTraj
  /\ exec_state = "WAIT_TARGET" /\ have_target => HaveTraj /\ PRESET
  /\ exec_state = "INIT" => ~have_target /\ ~HaveTraj
  /\ exec_state = "SEQUENTIAL_START" => PRESET
  /\ HaveTraj => flag_escape_emergency # Uninit
  /\ MANUAL /\ have_target => goal_no # 0

IInv ==
  /\ TypeOK
  /\ TrajWhereNeeded
  /\ ExecFollowsPlan

\* What the clients see of a lone drone; a swarm has no clients.
Service == INSTANCE GoalService WITH
  Reasons  <- Reasons,
  received <- IF Peers THEN 0 ELSE received,
  said     <- IF Peers THEN Silence ELSE said,
  current  <- IF MANUAL /\ have_target /\ ~Peers THEN goal_no ELSE 0

\* The statuses a lone drone publishes keep the promise the clients rely on: each goal
\* message answered, "reached" once and only for the goal accepted last.
KeepsGoalPromise == Service!Spec

\* "Avoiding repeated calls": the tick in EMERGENCY_STOP that does not call
\* callEmergencyStop finds the stop trajectory of this emergency in place.
EmergencyCommandsStop ==
  [][ExecEmergencyStop => local_data'.kind = "stop"]_vars

\* "Depth Lost! EMERGENCY_STOP": a safety tick that finds the depth stream
\* lost leaves the machine in EMERGENCY_STOP.
DepthLossStops ==
  [][depth_lost /\ CheckCollisionCallback => exec_state' = "EMERGENCY_STOP"]_vars
=============================================================================
