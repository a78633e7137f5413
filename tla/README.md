# A specification of VLN on the Fly

TLA+ modules, TLC configurations and TLAPS proofs for the navigation stack of this
repository: a vision-language model names a place in the camera image, a gate turns it into
a goal, ego-planner flies to the goal through the obstacles of the depth image, and a behaviour
tree runs the competition flights. The modules model the control of the nodes (which callback
changes what, in which order, under which guard) and abstract the numbers to what the
properties tell apart. Paths below are relative to the repository; `…/planner` stands for
`ego-planner-swarm/src/planner`.

## 1. Inventory

Each node is a ROS 2 process with one thread that runs one callback at a time, unless noted.
So a callback is one action; concurrency is between nodes, through topics and services.

| Component | Source | State | Operations | Hard behaviours | Correct when |
|---|---|---|---|---|---|
| ego-planner state machine | `…/planner/plan_manage/src/ego_replan_fsm.cpp` | seven states, goal, target and trigger flags, local target, trajectory | goal, trigger, odometry and swarm callbacks; exec tick; safety tick | goals replace each other in any phase; two timers fight over the state | executes only plans for the goal accepted last; answers every goal; stops in an emergency |
| planner manager | `…/plan_manage/src/planner_manager.cpp` | local and global trajectory, failure count | `reboundReplan`, `EmergencyStop`, `planGlobalTraj` | three attempts in a row, from a start read before the first | a new trajectory takes over where the vehicle is |
| trajectory server | `…/plan_manage/src/traj_server.cpp` | trajectory received, last yaw | B-spline callback, 10 ms command timer | trajectories in transit, replaced or over between two commands | commands are continuous, rest at the end, turn no faster than the limit |
| trajectory optimiser | `…/planner/bspline_opt` | control points with pushes, stop requests, solver state | `initControlPoints`, `rebound_optimize`, `refine_optimize`, L-BFGS and its line search | the cost callback stops the solver, which is started again | a success hands out the solution; every call ends; no collision left without a push |
| path search | `…/planner/path_searching/src/dyn_a_star.cpp` | a pool of nodes reused for ever | `AstarSearch` | stale nodes of earlier searches | finds a free path if there is one, and returns |
| grid map | `…/planner/plan_env` | log-odds, inflated occupancy, ray marks, camera pose | depth (3 modes), odometry and cloud callbacks; 50 ms timer | callbacks share one pose; 8-bit ray counter; moving local box | obstacles seen stay blocked; the map follows the world |
| B-splines, polynomials, obstacle predictor | `…/planner/traj_utils`, `bspline_opt/src/uniform_bspline.cpp`, `plan_env/src/obj_predictor.cpp` | – | closed-form numerics | evaluation beyond the ends | (numeric) |
| behaviour tree library | `imav_bt/imav_bt/behaviors`, `decorators` | what each node remembers; the blackboard | ticks of leaves, decorators, composites | a tick interrupted by a higher branch; retries, deadlines | an outcome is booked once and truly |
| flight trees | `imav_bt/imav_bt/trees` | (structure) | `build_root` | a step may fail, hang or be interrupted anywhere | flights end landed; the score sheet is legal |
| imav_bt node | `imav_bt/imav_bt/bt_engine.py`, `blackboard.py` | blackboard | sensor callbacks, `set_running`, `abort`, `flight_plan`, tick timer | operator calls between any two ticks | emergencies pre-empt; no second takeoff |
| `GotoAnchor` | `imav_bt/imav_bt/behaviors/flight.py` | goal and time of publication | publish, wait for a status | a status of the previous goal | success means *this* goal was reached |
| VLM node | `edgellm_vlm_ros/src/vlm_node.cpp` | latest frame, prompt mode, worker thread, running flag | image callback, timer, mode service, worker | **two threads** | one inference at a time; a result is labelled with the mode it was asked in |
| VLM region gate | `edgellm_vlm_ros/scripts/vlm_region_gate.py` | decision, agreement, active goal, unsafe count | result, `execute_next`, planner status | statuses carry no goal id; the depth watchdog lets a goal go that the planner flies | one goal at a time, on fresh agreement; no answer missed |
| VLM point and primitive gates | `vlm_point_gate.py`, `vlm_primitive_gate.py` | last proposal | result, `execute_next` | a proposal kept for a later call | what is executed is what was proposed |
| VLM navigation supervisor | `vlm_nav_supervisor.py` | four states, proposals and their age, counters, service calls in flight | proposals, timer, manual services, answers | answers that come late, mode requests dropped | its state and the prompt mode agree in the end; one move, then it settles |
| simulated offboard controller | `mobile_flight/mobile_gazebo/src/offboard_velocity_control.cpp` | INIT, TAKEOFF, VELOCITY; target, deadlines | services, `/cmd_vel`, telemetry, 100 ms timer | commands lost; orders in any state | every velocity flown was ordered; an emergency stop ends offboard mode |
| visual-inertial bridges | `vio_bridge/src` | alignment, ready flag, last sample | pose, attitude and flag callbacks | map resets; samples lost or out of order | PX4 is told of the motion the vehicle made |
| PX4 setpoint relay, goal and odometry relays, neural planners, velocity bridge, bench helpers, depth estimator, camera driver, mocks | `pos_cmd_to_raptor.py`, `relative_goal_to_map.py`, `navdp.py`, `realsense-ros`, … | – | – | – | stateless, numeric, vendored or test-only (section 5) |

How they interact, in the flown configuration: camera → VLM node → (`/edgellm_vlm_node/result`)
→ region gate → (`/move_base_simple/goal`, depth 1 at the reader) → ego-planner →
(`planning/bspline`) → trajectory server → PX4. Inside ego-planner the state machine calls the
planner manager, which calls the optimiser, which calls the path search; all of them read the
grid map's inflated buffer. The planner answers on `planning/goal_status` with bare strings
(`accepted`, `rejected:…`, `reached`), which the gate and `GotoAnchor` read. In supervised mode the
supervisor switches the VLM node's prompt and asks the point or the primitive gate to execute.
The visual-inertial bridges feed PX4's estimator; the behaviour tree shares its blackboard with
its node's callbacks.

`PROJECT.json` lists the hazards of this code by line, with the properties that cover them.
Some more that no property covers, because the data that would show them is abstracted
or the behaviour is plainly what the code does:
a goal with a NaN coordinate passes every comparison of the gate (`ego_replan_fsm.cpp:286`);
a goal within 0.2 m of the vehicle makes every plan fail and GEN_NEW_TRAJ repeats
(`planner_manager.cpp:55`); in PRESET mode the first waypoint is read in another branch when odometry
and trigger come before the first tick (`ego_replan_fsm.cpp:262`); the objectives booked in one
flight are there in the next (`bookkeeping.py:66`); the planner is never told that the
watchdog let its goal go (`vlm_region_gate.py:626`), and a goal that is accepted and never
reached holds the gate for ever (`:691`); the VLM node asks again about a frame it
has asked about (`vlm_node.cpp:572`); an execute call that is never answered blocks
the next ones (`vlm_nav_supervisor.py:259`).

## 2. Modules

| Module | Models | Theorems in |
|---|---|---|
| `GoalService` | abstract: what the planner promises its clients (`imav_bt/interfaces.py`) | |
| `EgoReplanFsm` | the planner's state machine | `EgoReplanFsm_proofs` |
| `PlannerLink` | the two topics between a client and a planner that keeps `GoalService` | |
| `RegionGate` | the VLM region gate, with `PlannerLink` | `VlmNodeAndGate_proofs` |
| `BehaviourTree`, `FlightTrees`, `BtEngine` | node types and a tick interpreter; the tree of `build_root`; the imav_bt node | `BtEngineAndControl_proofs` |
| `VlmService` | abstract: what the VLM node promises its clients | |
| `VlmNode` | the executor and the worker thread of the VLM node | `VlmNodeAndGate_proofs` |
| `NavSupervisor`, `VlmStack` | the supervisor; the supervisor with both gates and a VLM node that keeps `VlmService` | `VlmStack_proofs` |
| `OffboardControl` | the offboard controller and PX4 as it commands it | `BtEngineAndControl_proofs` |
| `Rotations`, `VisualBridge` | quarter-turn rotations; the three pose bridges | `BridgeAndWalk_proofs` |
| `GridMap` | depth images to occupancy to inflation | `MapSearch_proofs` |
| `DynAStar`, `ControlPoints` | the path search; the obstacle handling of the optimiser over it | `MapSearch_proofs` |
| `GuideWalk` | the optimiser's walk along a guide path, for control points anywhere | `BridgeAndWalk_proofs` |
| `Lbfgs`, `ReboundOptimizer` | the solver; the two loops that call it, with their cost callbacks | `ReboundOptimizer_proofs` |
| `PlannerManager`, `TrajServer` | how one local trajectory becomes the next; the server that flies it | `TrajServer_proofs` |
| `MC…` | constants for TLC | |

Definitions keep the names of the source where TLA+ allows it (`exec_state` for `exec_state_`).
Definitions marked "Mutant" are plausible mistakes that no specification uses: each
property was confronted with one, and fails on it (`PROJECT.json`, "mutants").

### EgoReplanFsm, GoalService
`local_data` is what the state machine can tell of a trajectory: a plan or a stop, where it ends,
whether it lasts longer than the replan threshold, and (a history field) the goal message it
was planned for. `phase` is the elapsed time against the thresholds the code compares it
with; it only moves on (`TimePasses`). `reboundReplan` succeeds or fails freely; `getLocalTarget`
picks the end of the global trajectory, a point on the way, or leaves the old local target, which
the code does when its scan steps over the end. Each subscription and each timer is an action;
`ExecFSMCallback` and `CheckCollisionCallback` have one per branch. In PRESET mode the waypoints
are read by `init` before the timers run (`ReadGivenWps`), with odometry and trigger possibly in
between. `said`, `received` and `goal_no` record which goal a status is about. A drone is alone, the
leader of a swarm, or a follower (`Roles`).

### RegionGate, PlannerLink
`goal_topic` is the planner's subscription, of depth 1: a newer goal replaces an unread
one. `status_topic` is the gate's FIFO. The planner on the other side is any that keeps
`GoalService`, which `EgoReplanFsm` is proved to do, so the composition does not
repeat its states. `OnResult` is the whole callback: decision, agreement, depth watchdog, then
the publication if `auto_execute` is on. Everything `_can_publish_goal` and `_build_goal` ask
of clocks, sensors and transforms can only refuse, without changing state; the model lets any
publication be refused. Depth is what each cell's median says.

### BehaviourTree, FlightTrees, BtEngine
A node is an object as in py_trees: a record of its identity, the identities of its subtree
(`below`) and its `tick`, a function from the states of a tree to status, memory and blackboard. A leaf,
a decorator and a composite each build that function from those of their children, so a tree of any depth is a value
and no definition recurs over trees; only the walk of a composite over its children is a recursive
function (`Walk`). What a node remembers (the current child, ticks left, attempts)
lives in `mem`, under its identity, exactly while the node is RUNNING. This covers the py_trees composites with and
without memory, `stop(INVALID)` of what a tick leaves behind, and the project's decorators. `Ids` is any set that holds the
identities of the shipped tree (`IdsAssumption`). Every mission step is a stub, as in
the source, whose outcome (success, failure, running) and number of ticks come from a
configuration. `OnTick` is one tick of the root. Deadlines are counted in ticks.

### VlmNode, VlmService, NavSupervisor, VlmStack
`executor` says where the callback thread is, `worker` where the thread object's thread is. The
timer callback is three steps: it joins a worker that ended (`TimerReaps`), copies the frame
(`TimerClones`), and wins the compare-exchange and starts a thread (`TimerLaunches`), which terminates
the process when the thread object is still joinable. The worker reads mode and prompt under the
mutex, infers, publishes, and lowers the flag. The refinement maps `question` to the mode the
worker read, from there to the publication.

The supervisor's state is one record, and each of its shared methods an operator from record to
record, called by the actions in the order the callbacks call them. Service calls are
requests with an answer that comes whenever the other side acts. `VlmStack` adds both gates, which read every
result whatever prompt it answers; what the gates' own checks could refuse, they may refuse.

### OffboardControl
Time counts in 100 ms timer periods: `left` is what remains of the time limit of an order, `silence` the
time since the last command. The timer callback is `TimePasses`, per state. PX4 is external: it takes
a vehicle command (`Px4TakesCommand`), or the link loses it; it leaves offboard mode when no
setpoint came for `SignalTimeout` periods. `order` is history: the last velocity accepted, as its sender meant it.

### Rotations, VisualBridge
Rotations are the quarter turns as integer matrices, so every frame change, the lever arm and the
scale of ORB-SLAM3 are computed exactly: a transposed or swapped conversion is seen. `Sample` is a pose of
the vehicle as the source in use would report it. Time stamps are words of `Word` values and
wrap in subtraction as the code's unsigned numbers do. OpenVINS gives a velocity in the IMU's frame, which
its bridge turns into NED and publishes with every sample (`publish_velocity`, true by default), with no check of the
stamps and without the term that would move it from the IMU to the FC centre. The ready flag travels on another topic than
the poses (`ready_topic`), a queue of one.

### GridMap
A vertical slice with the code's addressing, log-odds clamps, ray casting with its marks,
local box, forgotten ring, inflation, and a ray counter that wraps at `CharMax`. `Change` moves the vehicle or
the world, `DepthCallback` takes an image in one of the three modes, `OccTimer` projects and casts the image
that is there by then. A ray is the list of voxels of the caster; depth is exact. Assumed of the callbacks that get the
pose from a transform or with the depth image: the camera is in the map when they take an image. Only
`depthPoseCallback` checks that; `grid_map.cpp:1143` to `:1228` do not, and a ray from outside the map is not modelled.

### DynAStar, ControlPoints, GuideWalk
`DynAStar` is one search, expansion by expansion, over nodes that keep what earlier searches left
in them; the wall clock may end it at any expansion. `ControlPoints` is `initControlPoints`
(segments, searches, pushes), `distinctiveTrajs`, and `check_collision_and_rebound` after the solver
moved the points; each of its searches is a run of `DynAStar`. The path runs along a row of the map. The plane of a
control point is normal to the line between its neighbours, so where these lie in one row a guide path
crosses it in a column of the slice. The first three points are fixed, so when the solver has moved the others to another
row, planes at the bend lean: a segment that holds the bend ends the behaviour (`LeaveRow`, a bound). `Scanned`
is one sample of the first scan, `Checked` one point of a rebound's, `Split` the cut between neighbouring segments,
`Crossed` where the walk along a guide path may end. Some things the code lets happen show at the distances flown: between two neighbours that both touch it
a segment is cut to nothing (`distinctiveTrajs` drops it); a point next to a segment between neighbouring points is pushed
from where it is, in the obstacle; the check of a rebound steps over the point after a segment (`i = j + 1` in a loop that
adds one), whose collision gets no push before the next evaluation; and where two segments of a rebound meet, the cut
may leave the first without a point between its ends, and then it gets no push at all ("Failed to generate direction. It
doesn't matter.", `:1486`). The properties say so. Denser samples than those flown let two segments of the first scan end at the
same point, which then has a push of each and is the "wrong number" of `distinctiveTrajs`: `PushedOnce` claims a single push
where the ends differ (`EndsDiffer`), and that there is a push everywhere.

`GuideWalk` has no row: one segment of control points anywhere and one guide path. For each point in turn the walk
starts in the middle of the path and moves away from the side of the plane it is on; it reads the next cell before the
loop's guard sees the index, and the first value of `val` stays in `last_val`. `got` survives from one point to the next
while `intersection_point` is declared afresh, without a value. A cell read outside the path is on any side, and what an
unset intersection says is anything. `WalkIsSound` says that this does not happen where segment and path `Advance`
through the planes; where they turn back it does (section 6).

### Lbfgs, ReboundOptimizer
One step of `Lbfgs` is one evaluation of the objective, with any value and slope of small sets, in
the order of the code: line search with its bracket, convergence and error tests, the
ring of corrections. `ReboundOptimizer` adds what the evaluations do besides (stop requests, the points
written into `cps_`) and the loop of passes around the solver. That value and
slope are free makes the model a superset of what a real cost can do.

### PlannerManager, TrajServer
Places on a line one sampling step apart. A planning reads its start, may take ticks for each of its
attempts, and writes `local`; the trajectory is in transit for up to `MaxDelay` ticks; the server commands in every tick.
`taken` in a trajectory is history: when its start was read. Two behaviours of the code are modelled
as they are: a start read from an exhausted trajectory leaves `segment_point` empty and reads its
first element (the model's outcome is then "undefined", from which nothing follows), and the
yaw computation has its eight branches.

## 3. Runs

| Run | Distinct states | Shows |
|---|---|---|
| `ego` | 738,410 | `FlagWrittenBeforeRead`, `ExecFollowsPlan`, `BusyIffTarget` and the refinement `KeepsGoalPromise`, for a lone drone (MANUAL and PRESET), a leader and a follower |
| `region_gate` | 220,544 | the gate holds a goal only while the planner's last word on it is to come (`WaitsForAnAnswer`); without watchdog interventions gate and planner speak of the same goal (`InStep`); goals leave only after enough equal decisions since the last release (`FreshAgreement`); a goal not flown does not stay (`UnflownGoalEnds`) |
| `bt_engine` | 132,372 | score sheet and order of steps (`BtInv`), `SafetyPreempts`, `NoSecondTakeoff`, `FlightsEndLanded`, `MissionsEnd` for 19 stub configurations |
| `vlm_node` | 174 | `OneInference`; a node with a frame keeps asking (`KeepsAsking`); it implements `VlmService` (`KeepsVlmPromise`) |
| `vlm_stack` | 278,872 | one move, then the supervisor settles (`StackInv`); the prompt mode ends up being the one its state calls for (`ModesAgree`) |
| `vehicle_link` | 346,800 | climbs stay between limit and ground (`ClimbsWithinLimits`); every velocity was ordered, in that frame and for that long (`VelocityHasAnOrder`); an emergency stop ends offboard mode though LAND may be lost (`EstopEndsOffboard`) |
| `bridge_and_walk` | 194,881 | the bridges (36,900 states): PX4 is told of the motion the vehicle made, with finite differences of samples in order and OpenVINS's velocity as the IMU has it (`OdometryIsTrue`), and of the true vertical (`BridgeInv`); misaligned poses go out only while the news of the reset is in transit (`MisalignedOnlyInTransit`). The walk: on a segment and path that advance it stays on the path, and a point is pushed by a crossing of its own plane only (`WalkIsSound`) |
| `grid_map` | 25,184 | what the log-odds call occupied blocks (`MapInv`); odometry never displaces the pose of an image (`FallbackKeepsPose`); the map ends up being the world (`MapFollowsWorld`) |
| `control_points` | 192,977 | searches find free paths and miss none (`SearchIsSound`), and return (`SearchEnds`); cut segments lie in the trajectory, in order and apart (`SegmentsInOrder`); every point of a pushed segment has a push and a colliding one is pushed from a free cell, alternatives differ, a rebound pushes what it finds (`GuidanceIsSound`) |
| `optimizer` | 1,192,536 | the line search keeps its bracket unless a cubic falls behind its trial (`BracketKept`); the ring holds the latest corrections (`CorrectionsAreLatest`); a success hands out the solution (`SuccessIsTheSolution`); passes are limited (`OptimizerInv`); stop requests act at once and do not outlive their pass (`StopsAreHonoured`) |
| `replan` | 1,020,287 | nothing is commanded before its start and the vehicle rests at the end (`ServerInv`); a takeover moves the command no farther than delays explain (`JumpsAreDelays`); the yaw keeps its rate across the turn, from the first command on (`YawKeepsItsRate`) |
| `region_gate_status` | – | a disagreement: section 6 |

Bounds, and why they are enough:
- `ego`: `MaxGoals = 3` goal messages: a goal being planned, its replacement, and a refused one;
  two goals the gate lets in, and one for each way to be turned down.
- `region_gate`: 3 goals (one let go, one ended by its answer, one that should not be), two cells (agree
  and differ), two places (near the last goal or not), both thresholds 2 (counts below, at and
  beyond). The shipped consistency is 3: one more decision of the same kind.
- `bt_engine`: three operator calls or sensor changes interleaved with any number of ticks; one step of
  each kind fails, hangs or takes two ticks, or two steps fail. The deadline of 3 ticks
  is longer than the slow steps and ends the hanging ones.
- `vlm_node`: none; the state space is finite.
- `vlm_stack`: one unread message per topic (a gate that is behind holds one result more than it has
  judged), rejection limits 2 and 1: a counter that goes on and one that trips at once.
- `vehicle_link`: two commands in transit (LAND behind an engage), timeouts of 1, 2 and 1 periods in the
  order the code has them, orders without limit and longer than the command timeout.
- `bridge_and_walk`: the two share no state, only exact vectors, so a behaviour is of one or of the other
  (`MCSpec`). The bridges: five attitudes (level in two headings, rolled, nose up, combined), two positions, two
  velocities, two maps, a tilted camera with a lever arm; `MaxStamp` 4 against `MaxGap` 3, so that a gap may be too long, and words of 100 so that
  a wrapped difference is no valid gap.
  The walk: every segment of two to four points in six cells of a plane and every path of three or four cells between its
  ends, 10,836 scenes: straight, bent, standing still and turning back. Two points have the one plane midway,
  four have two planes, so that one point's intersection can be left to the next.
- `grid_map`: 4 × 4 voxels with an inflation of one, so that the local box has an edge and the ring around it lies inside
  the map; a ray counter of four values that wraps after four images instead of 256; one change of
  world or vehicle, which the images before and after it surround.
- `control_points`: 13 control points at the distances flown (`control_points_distance` of 0.4 m on a map of 0.1 m: four
  cells and six samples between two), 14 worlds: one to five obstacles, thin, wide, leaning or as high as the
  pool, on the path or beside it, close enough to share points or far apart; three passes of the solver, each until a
  segment holds the bend next to the fixed points.
- `optimizer`: a ring of 2 with 4 iterations (the ring fills and wraps), 5 trials per line search, one
  restart and one rebound before each limit, four values and slopes: falling fast,
  falling slowly, rising slightly, rising.
- `replan`: two trajectories after one another in five ticks, five places, eight directions, a delay of one tick.

Deadlock checking is off where the system may stop in the model: the goal budget, the ticks or the stamps
run out, a planning returns, a process ends. `bt_engine` and `vehicle_link` check it: there a tick is always possible.

Fairness, and why the code justifies it:
- `BtEngine!EngineFairSpec`: the tick timer fires for as long as the node runs. It is stated on `parity`,
  which only `OnTick` changes.
- `RegionGate!FairSpec`: both nodes read their topics; nothing about the VLM answering or the planner arriving.
- `VlmNode!NodeFairSpec`: the timer fires, both threads run, and the inference returns or throws.
- `VlmStack!FairSpec`: the supervisor's timer fires, clients discover their servers, the VLM node's executor
  takes requests. Nothing about results: the VLM may be silent for ever.
- `OffboardControl!FairSpec`: time passes, PX4 takes the commands it got, and leaves offboard mode by itself when
  the stream is gone, which is its documented failsafe.
- `GridMap!Spec`: the camera goes on publishing and the timer is served.
- `ControlPoints!CpsSpec`: a search goes on once begun (it is one function call).
- `EgoReplanFsm`, `VisualBridge`, `GuideWalk`, `ReboundOptimizer`, `TrajServer` have none: no liveness is claimed for
  them. Nothing in the code guarantees that planning succeeds.

## 4. What is proved

Eight modules of proofs, for every value of the constants under the named assumptions of the
component's module. An invariant is seldom inductive alone; what was added and why:

**`EgoReplanFsm_proofs`**, for every set of goals, gate, keep-out set and tour, and for drones
with and without peers (`PointsAssumption`, `WpsAssumption`, `FlagsAssumption`, `RolesAssumption`,
`BoundAssumption`): `TypeCorrect`, `FlagSafe`, `ExecCorrect`, `BusyCorrect` are the
invariants of the run `ego`; `Refinement` is its `KeepsGoalPromise`: each goal message is answered by
one rejection or acceptance, and `reached` is said once, for the last accepted goal.
`ExecFollowsPlan` needs to know that whoever enters EXEC_TRAJ has a trajectory, and
`FlagWrittenBeforeRead` that whoever has a trajectory went through a success of GEN_NEW_TRAJ.
`TrajWhereNeeded` says which states have one, and `IInv` conjoins it with the type and `ExecFollowsPlan`.
The proof has a lemma per conjunct with one step per action; `Invariance` combines
them. `BusyIffTarget` is inductive relative to `IInv`. The refinement maps the goal being flown to
`IF MANUAL /\ have_target /\ ~Peers THEN goal_no ELSE 0` and splits each action into an answer, an
arrival or a stutter. It says nothing of a drone with peers, whose broadcasts can send a planner without
a target into REPLAN_TRAJ.

**`VlmNodeAndGate_proofs`**, of `RegionGate`: for every grid, set of places, thresholds and number of goals, against any
planner that keeps `GoalService` (`RegionsAssumption`, `ThresholdsAssumption`): `TypeCorrect`,
`AlwaysAnswered`, `StaysInStep` and `FreshlyAgreed`. `IInv` adds three facts. `NewestOnly`: only the
newest goal is ever held or unread; without it `WaitsForAnAnswer` could be lost when an acceptance
replaces the goal flown. `OnePlace`: before the watchdog acts the goal held is unread, flown or
answered by one status, and only one of the three; without it a first answer could free the gate while
a second is in the queue. `AgreementIsRecent`: the filter's count is no longer than the run of equal
decisions at the end of `lately`, which turns `count >= consistency_required` into what
`FreshAgreement` says.

Of `VlmNode`: for every interleaving of the two threads: `NodeInv`, the types and `OneInference`
together, is inductive, since the flag decides for each thread what the other may be doing. `OneInferenceHolds`
follows; `NodeKeepsPromise` proves the refinement of `VlmService` step by step: reading the mode asks, the end of
`infer` without a result and the publication answer, closing or terminating stops serving.

**`BtEngineAndControl_proofs`**, of the behaviour tree: for every configuration of the steps (each may succeed, fail or
hang after any number of ticks), number of attempts, deadline, set of enabled missions and number of events
(`TreeAssumption`, `IdsAssumption`, `EngineAssumption`): `ScoresAreSound`, `FlightsDoEndLanded`, `SafetyDoesPreempt`
and `TakesOffOnce` are `BtInv`, `FlightsEndLanded`, `SafetyPreempts` and `NoSecondTakeoff` of the run `bt_engine`. They need to know what the
number of a composite with memory means, three sequences deep: that each child before it has left its
fact behind (`FactsOf`: a step works, an objective is scored, an outcome told). A state in which all numbers say
the truth, identities remember one thing at a time, and the score sheet and the outcomes have their reasons is
`Good`, and the invariant `EngineInv` adds that to the types. Facts are sets of states that no tick takes back (`Lasting`).
Each node is proved to keep a contract (`Contract(n, Z, P, S, F, E)`: from a good state in `P` it leaves a good one, in
`S` on success and in `F` on failure, leaves alone what nodes outside its subtree remember, and stops a flight only in `E`),
first each kind of node from the contracts of its children (`CompositeMeets`, with `Walk` unfolded
by induction; `DeadlineContract`, `RetryContract`, `SkipContract`; one per leaf), then each tree of the rules from the bottom up to
`RootContract`, which is the engine's tick. `E` is what makes `FlightsDoEndLanded`: a flight is over only where
`EndFacts` hold, which are the facts of the children before `StopRunning`. For `SafetyDoesPreempt` the root's walk is
followed once more: it starts afresh, the safety branch runs or fails to land, and what is behind it is
forgotten (`SafetyTakesOver`, `RootPreempts`). `TakesOffOnce` rests on `FlightsAreOrderly`. While a flight is RUNNING, so is
each node above it, and either it is at its first child, whose takeoff has counted a tick, or beyond, with the takeoff
forgotten (`Orderly`, `Underway`); a node of the line that stopped would start the flight over. And a flight that is
called for and has taken off since the operator's last start or the last emergency (`cause = "none"`) is RUNNING. What a tick may do to a flight (`Borne`) is carried up from the
flight (`AloftBears`, `FlightCarries`) through each composite above it: its other children leave the line alone, and the walk
comes to the flight unless the flight is not called for (`LevelBears`, from `RunBears` over `RunnerBears` to `RootBears`).

Of `OffboardControl`, for any timeouts, durations, altitudes and number of commands in transit
(`OffboardAssumption`): `ControlTypeCorrect`, `ClimbsAreLimited`, `VelocitiesHaveOrders`. What is
published now depends on deadlines set earlier, so the invariant `ControlInv` adds `ServesOrder`: in
VELOCITY the target is the order's, and what is left of its time plus the silence since it was given do not
exceed what it was meant to last.

**`ReboundOptimizer_proofs`**, for every objective, coefficients `0 < FDec < SCurv < 1` in quarters, length
of the ring and limit (the assumptions of `Lbfgs` and `LimitsAssumption`): all five properties of the run
`optimizer`. `IInv` has four parts. `RingInv` says which place of the ring each of the last `Mem`
corrections is in; a new one goes where the oldest was because numbers less than a turn apart have
different remainders (`LessThanATurn`, `Wrap`, `Turn`), and its curvature is positive because a step is accepted only
with a slope that has flattened. `Guided` is why the bracket is kept: in its first stage the
search has seen nothing as low as its best end that does not also decrease enough, so the modified
function, whenever it guides, finds the trial higher; the stage ends with a turned slope, hence
with an interval; and from then on every trial as low as the best end decreases enough, so that a
flat one is accepted. `ControlInv` is what the two loops leave to one another. `CountInv` charges each call
of the solver to a restart or a rebound, except while the peers are close.

**`VlmStack_proofs`**, for every rejection limit and any number of unread messages
(`LimitsAssumption`, `MaxUnreadAssumption`): `MovesAreSingle` is the invariant of the run `vlm_stack`, the types of
supervisor, gates and topics with `OneMovePerSettle`. That an executed primitive is followed by a settle
depends on what the supervisor knows of the call, so `OutstandingMove` is added: a primitive that was executed
since the last settle is the one whose successful answer the supervisor has yet to take, and while a primitive's
call is out the supervisor does not settle. The supervisor is a record that its methods map to records; a lemma per
method says whether it leaves the call alone (`Quiet`) or sends one (`Sends`).

**`TrajServer_proofs`**, for every interval of places, rate, set of headings and delay, and any
number of attempts (`PlacesAssumption`, `BoundsAssumption`, `AnglesAssumption`): all three properties of the run
`replan`. The invariant follows a trajectory from the planning that read its start to the
command. `CallInv` and `LinkInv` say that what is planned or published goes on from the trajectory before it, at the time
its start was read, unless that one could still be in transit then (`GoesOn`); `CmdInv` that the server can have
commanded before a trajectory began, or within the delay after (`Behind`), and, once it is received, how
far its first place is from the command before. With `AlongTrajectory` (no more than a place per tick, by
`Progress` on the division that `PositionAt` makes) and the triangle inequality this bounds every jump. The yaw
needs no more than its range.

**`MapSearch_proofs`** opens with induction. The library's induction theorem takes a predicate as an argument,
which no prover here can instantiate, so induction is proved for sets of naturals: `<` is well founded
(`NatLessThanWellFounded`), so a set of naturals that is not empty has a least element, and a set that holds 0 and
every successor holds them all. From it follows that a function defined by recursion over `0 .. N` exists
(`Recursion`), which is what lets a proof unfold the recursive functions of the two models.

Of `GridMap`: for every map, inflation, margin, update range, set of pixels and worlds
(`MapAssumption`): `MapSound` is the invariant of the run `grid_map`, `FallbackPose` its `FallbackKeepsPose`. An
occupied voxel stays blocked because casting an image counts no voxel outside the local box that is then inflated.
So the proof follows a ray: `RayStays` (it never leaves the box of its two ends, since a step goes on along an axis only
while a boundary is left there, `BoundaryLeft`), `BoxIs` and `BoxHoldsBetween` (the local box holds points, camera and
what lies between), `CastPointKeeps` and `CastAllKeeps` (what an image counts lies in the box); outside it the
log-odds can only be forgotten, and inside it `Inflated` looks at every voxel (`InflatedIs`), no two of which
share an address (`AddressApart`). `CameraInv` is added because a ray from outside the map would not end in
it: an image is cast only from a pose in the map, which for the callbacks that fall back on odometry is the
one it was taken at.

Of `DynAStar`: for every pool, set of solid cells and pair of ends, called by anyone who waits for an answer
(`AStarSpec`: between two searches the map may change in any way): `SearchSound` is the invariant
`SearchIsSound` of the run `control_points`. The pool is never cleared between searches, so `SearchInv` is about the nodes
this search has reached only: each came from a closed one that is nearer to the start (`Linked`), which makes
the walk back along `cameFrom` end at the start within `gScore` steps (`TrailLeadsBack`, by induction), and a closed
one has no free neighbour left (`Done`), so that when the queue runs dry the flood from the start is
contained in the closed nodes (`FloodStays`, by induction) and does not hold the end.

Of `ControlPoints`: for every number of points, spacing, sampling, world and set of rows the solver may choose
(`SizeAssumption`, `StepsAssumption`, `RowsAssumption`). `OptimiserCallsAStar` shows that the optimiser implements the caller
`AStarSpec` describes: it asks for two points that differ, one search at a time, and takes each answer before the next call;
so `SearchSound` holds of every search it asks for (`GuidedSearchSound`). `PiecesInOrder` is the run's
`SegmentsInOrder`. What both scans yield (`SegmentsOK`) is weaker than what is pushed: segments
that are not empty and share a step at most, `segs[k][2] <= segs[l][1] + 1`; the cut turns that into pieces apart (`PieceIs`,
`SplitInOrder`). The first scan keeps it because whoever is in an obstacle has opened a segment and the next one opens
no earlier than the step the last one ended in (`ScanOK`, `ScannedKeeps`, by induction over the samples); the second because it goes on
from a free point (`CheckOK`, `CheckedKeeps`). A guide path begins at most a step of the grid past its segment's first point and ends
at its last one or past it (`Leads`, from `NodeColumnIs` and `EndsOfSearch`: ends are pushed outwards and rounded to a node), so
from its middle the walk goes to an end on the other side of the column (`WalkStays`). That needs a point
farther than that step. `WalkStays` is a lemma, of segments along a row; for others see `WalksAreSound`.

`GuidanceSound` is `GuidanceIsSound` of the same run, with control points an even number of cells apart (`Even(Spacing)`; four
are flown): then the nodes of a guide path (`Smooth`, from `PathIsSmooth` and `GuideCenter`) lie in the columns of the points, a walk ends in the
point's own column (`CrossingIs`), and a base point found from there is free where the point is not
(`BaseIs`, `OwnPush`). With an odd spacing the nodes of some searches lie halfway between the columns, where the model's crossing is approximate.
`SegmentPushed` says what a segment does to the pushes: each point gets one more or is left alone (`Pushed1`), those inside get
their own, and if any did, the others of the piece get a neighbour's (`SpreadIs`, `EndsPushed`). Carried through
the recursion over the segments (`PushAllKeeps`), this yields three facts. On the first call no point is pushed twice
unless ends coincide, since pieces are apart (`FirstPushes`, `TouchApart`): `PushedOnce`. A rebound's segments are solid
but for their ends and hold every collision the check found (`ChecksCover`, by induction over its points), what it pushes
clears the point (`Answered`) and no push is ever taken back (`StillClear`): `ReboundPushes`. And each piece that is
varied has a point in which its two sides differ, because the other side's push has the opposite sign (`ReversedIs`, `OtherSideIs`),
and which no other piece touches (`AssembledShows`), so that two numbers that differ in a bit give two alternatives
(`BitsDiffer`, `DistinctiveIs`): `VariantsDiffer`. `GuidanceInv`, inductive with `CpsIInv`, adds what must hold until these
are due: no pushes before the first call (`StartsFresh`), pieces in order for `distinctiveTrajs` (`VaryReady`), segments that
hold what was found while a rebound searches (`ReboundReady`), and smooth paths all along.

**`BridgeAndWalk_proofs`**, of `VisualBridge`: for every set of rotations the vehicle, the maps and the camera may take,
any velocities, any positions that are exact in the units of the map, any lever arm, scale and word (`FramesAssumption`, `PositionsAssumption`, `VelocitiesAssumption`,
`BridgeAssumption`): `VerticalKept` is the invariant of the run `bridge_and_walk`, `MisalignmentPasses` its
`MisalignedOnlyInTransit` and `MotionIsTrue` its `OdometryIsTrue`. `SlamAligned` says that a bridge is aligned with the map it publishes from or the news that it is not
is in transit, and `AnchoredUpright` that the anchor's last row is the world's down; then the last row of what
is published is that of the attitude shown, because `Times` takes rows through from left to right.
For the motion, the algebra of rotations is proved first: the transpose is the adjoint (`Adjoint`), hence products
associate (`TimesAssociates`) and a rotation and its inverse cancel (`Cancels`). `AlignInv` then says that all
three nodes publish `K A` and `K P - c` of the vehicle's attitude `A` and position `P`, with one turn `K` (`TurnOf`)
and one origin `c` (`OriginOf`) for as long as the anchor stays: the map's frame, the optical axes, the scale and the lever arm cancel
(`SlamShows`, `UprightShows`, `CentreOf`). `K` is a rotation because the heading of an integer rotation
is an axis, or the second choice is (`UnitIsAxis`, `HeadingIs`); a level start is undone exactly (`LevelStart`). The IMU's
velocity goes through the same turn as the attitude, so the body sees the one it has (`SeenFromBody`).

Of `GuideWalk`: for every segment and guide path of integer places (`ScenesAssumption`): `WalksAreSound` is the invariant
`WalkIsSound` of the run `bridge_and_walk`. A segment and path that advance have the ends of the path on either side of each
plane (`PlanesSeparate`), and the invariant `WalkInv` adds `OneSided`: as long as the walk goes on, every cell so far was on the
side of the first. So a walk backwards has met a crossing at the first cell at the latest, and forwards at
the last; each point then has an intersection of its own, which is why none is pushed by its predecessor's.

## 5. What is only model-checked, and what is not modelled

Only model-checked: all liveness (`MissionsEnd`, `UnflownGoalEnds`, `KeepsAsking`, `ModesAgree`,
`EstopEndsOffboard`, `MapFollowsWorld`, `SearchEnds`). Every safety property of the passing runs is a theorem;
`GuidanceIsSound` is claimed for control points an even number of cells apart only, as they are flown.

Not modelled:
- The cost terms of the optimiser and their gradients, spline and polynomial algebra, the obstacle
  predictor and the gradient descent optimiser (floating point; the last two unused by the planner flown).
- `initControlPoints` of a restart within the solver's loop: `ControlPoints` and `ReboundOptimizer` each
  have their side, not the composition.
- `GotoAnchor`: no shipped tree contains it.
- What the point and primitive gates do outside supervised mode (`auto_execute`, velocity output), and
  their depth, clock and transform checks beyond the refusal they may cause.
- PX4 setpoint relay, goal and odometry relays, velocity bridge: one message in, one out, no state
  beyond the latest odometry. The flown configuration publishes map goals.
- Neural planners with their model-predictive controller, depth estimator: numeric, alternatives.
- `realsense-ros`: a vendored driver. Arena and payload mocks, bench helpers: test equipment.
- The speed of a swarm follower's trajectory: the code checks and refines it for `drone_id <= 0` only
  (`planner_manager.cpp:297`). `PlannerManager` lets no trajectory make more than a place per tick, so for followers
  `JumpsAreDelays` rests on the optimiser having kept to that.
- An image taken from outside the map in the callbacks that do not check it (section 2, GridMap).
- Pushes of segments that hold the bend next to the fixed points, and guide walks off their path beyond what
  `GuideWalk` says of them.
- NaN coordinates (coordinates are integers); node restarts (no node persists state); message loss where the
  topics are reliable. Losses are modelled for PX4 commands and setpoints, for pose samples and for overwritten queues.

## 6. Where code and documents disagree

The run `region_gate_status` shows one: **somebody else's answer** (`OwnStatusEndsGoal`,
`vlm_region_gate.py:555`). The README of the package says that a goal remains active until a status
reports its end or depth checks mark its cell unsafe. After the depth watchdog let a goal go, the planner's answer
to that goal ends the goal published next.

Configurations kept beside the runs show the others; TLC reports each of these properties violated:
- `MCEgoEmergency.cfg`, **second emergency** (`EmergencyCommandsStop`, `ego_replan_fsm.cpp:860`): after an
  emergency that the safety tick replans out of, `flag_escape_emergency_` stays false, and the next
  emergency publishes no stop trajectory.
- `MCEgoDepth.cfg`, **depth lost** (`DepthLossStops`, `:957`): "Depth Lost! EMERGENCY_STOP" does not
  return; the collision check of the same callback can put the machine back into EXEC_TRAJ.
- `MCBtAbort.cfg`, **abort latch** (`AbortNeedsStop`, `bt_engine.py:263`): `set_running(true)` clears an
  abort that comments and docs say only `set_running(false)` clears.
- `MCBtLanding.cfg`, **landing** (`LandingFinishes`, `landing.py:76`): "always finishes with the drone on
  the ground", but a landing step that never answers is waited for without a deadline.
- `VlmNodeBusy.cfg`, **busy ticks** (`BusyTicksAreSkipped`, `vlm_node.cpp:577`): `config/vlm_node.yaml` says that
  ticks are skipped while inference is busy. A worker that lowers the flag between the timer's join test and its
  compare-exchange is still joinable when its thread object is assigned to, which terminates the process.
- `MCGridMapPose.cfg`, **pose of an image** (`ImagesKeepTheirPose`, `grid_map.cpp:1155`): the launch file resolves the
  camera pose "at the depth measurement stamp". A frame that is rejected for its encoding has written its pose
  by then (`:1155`), and the image still waiting for the timer is cast from that pose.
- `MCOffboardFailsafe.cfg`, **takeoff under failsafe** (`FailsafeBlocksTakeoff`,
  `offboard_velocity_control.cpp:172`): failsafes are commented "critical blockers for arming/takeoff", but the
  takeoff service does not look at them.

Met while modelling, without a property of their own: where a segment or its guide path turns back, the walk along the path
can run off it, and reads `a_star_pathes[i][-1]` or past the end (`bspline_optimizer.cpp:711`, `:1424`), and a
point whose walk found nothing is pushed by an uninitialised `intersection_point` if one before it found
something (`:729`); without its hypothesis `Advances`, TLC finds `WalkIsSound` violated. The OpenVINS bridge
moves the position to the FC centre but not the velocity, which turning makes differ (`openvins_bridge_node.cpp:134`). A trajectory that ran out before planning leaves
`segment_point` empty, whose first element is then read (`planner_manager.cpp:150`); the restart for a
peer that comes too close tests the smallest shortfall of a pass, so it is decided by the peer that is
farthest away (`bspline_optimizer.cpp:918`, `:1718`); a failed line search restores the solver's vector but not `cps_`.

## 7. What the plan has left

1. `GotoAnchor` over `PlannerLink`: its time stamps against statuses in transit; the same abstract planner,
   a second client.
2. `ControlPoints` within `ReboundOptimizer`: the segments and pushes of a restart, with the solver's real stops.
