---------------------------- MODULE OffboardControl ----------------------------
(***************************************************************************)
(* mobile_gazebo/src/offboard_velocity_control.cpp: turns services and     *)
(* /cmd_vel into the setpoint stream PX4's offboard mode needs.  PX4 is    *)
(* external, known by what the node asks of it: it flies the stream while  *)
(* in offboard mode, and leaves that mode by itself when the stream stops. *)
(*                                                                         *)
(* Time counts in timer periods.  A velocity is zero, or moves in the body *)
(* frame (and is rotated) or in the world frame.  The offboard request and *)
(* the arming that always follows it are one message, "engage".  What the  *)
(* node was last told of the estimator and the battery may be anything, so *)
(* the gates take it as a parameter; telemetry it only logs is left out.   *)
(***************************************************************************)
EXTENDS Integers, Sequences

CONSTANTS
  CmdVelTimeout, HeartbeatTimeout,   \* in timer periods: 0.5 s and 5 s
  Durations,                         \* what set_velocity may ask for; 0: no limit
  Altitudes, MaxAltitude,            \* what takeoff may ask for, and MAX_ALTITUDE (up is negative)
  SignalTimeout,                     \* PX4: periods without a heartbeat before it leaves offboard
  MaxInFlight                        \* bound: vehicle commands in transit

ASSUME OffboardAssumption ==
  /\ CmdVelTimeout \in Nat \ {0} /\ HeartbeatTimeout \in Nat \ {0}
  /\ CmdVelTimeout < HeartbeatTimeout
  /\ Durations \subseteq Nat
  /\ Altitudes \subseteq Int /\ MaxAltitude \in Int /\ MaxAltitude <= -5
  /\ SignalTimeout \in Nat \ {0} /\ MaxInFlight \in Nat

NoLimit == HeartbeatTimeout + 2     \* "a very far future time"
UpTo(limit, n) == IF n > limit THEN limit ELSE n

VARIABLES
  current_state,
  estop_active,
  target,            \* target_v* in frame_id_
  takeoff_altitude,  \* target_takeoff_altitude_
  left,              \* velocity_end_time_ - now, not below 0
  silence,           \* now - last_command_time_, counted up to where it no longer matters
  heard,             \* critical_failsafe_active_ and offboard_mode_engaged_
  published,         \* the setpoint last published
  commands,          \* vehicle commands in transit
  px4,               \* mode, and periods since the last heartbeat it took
  \* What the properties need to remember:
  order              \* the velocity command last accepted, as its sender meant it

node == <<current_state, estop_active, target, takeoff_altitude, left, silence>>
vars == <<node, heard, published, commands, px4, order>>

Velocities == {"zero", "body", "ned"}
Setpoints == [flies : Velocities \cup {"climb"}, age : 0..HeartbeatTimeout + 1]

ControllerTypeOK ==
  /\ current_state \in {"INIT", "TAKEOFF", "VELOCITY"}
  /\ estop_active \in BOOLEAN
  /\ target \in Velocities
  /\ takeoff_altitude \in Int
  /\ left \in Nat
  /\ silence \in 0..HeartbeatTimeout + 1

LinkTypeOK ==
  /\ heard \in [failsafe : BOOLEAN, engaged : BOOLEAN]
  /\ published \in Setpoints
  /\ commands \in Seq({"engage", "land"})
  /\ px4 \in [mode : {"hold", "offboard", "land"}, quiet : 0..SignalTimeout]
  /\ order \in [velocity : Velocities, lasts : Nat]

TypeOK == ControllerTypeOK /\ LinkTypeOK

Hover == [flies |-> "zero", age |-> 0]

Init ==
  /\ current_state = "INIT"
  /\ estop_active = FALSE
  /\ target = "zero"
  /\ takeoff_altitude = -5
  /\ left = 0 /\ silence = 0
  /\ heard = [failsafe |-> FALSE, engaged |-> FALSE]
  /\ published = Hover
  /\ commands = << >>
  /\ px4 = [mode |-> "hold", quiet |-> SignalTimeout]
  /\ order = [velocity |-> "zero", lasts |-> 0]

-----------------------------------------------------------------------------
(* Telemetry                                                               *)

ControlModeCallback ==
  /\ heard' = [heard EXCEPT !.engaged = (px4.mode = "offboard")]
  /\ UNCHANGED <<node, published, commands, px4, order>>

\* A lost signal counts only for a node that thinks it is in control.
FailsafeFlagsCallback(critical) ==
  LET signal_lost == px4.quiet = SignalTimeout
  IN  /\ heard' = [heard EXCEPT !.failsafe = critical \/ (signal_lost /\ heard.engaged)]
      /\ UNCHANGED <<node, published, commands, px4, order>>

-----------------------------------------------------------------------------
(* Commands.  A call that is refused changes nothing.                      *)

Send(command) ==
  /\ Len(commands) < MaxInFlight
  /\ commands' = Append(commands, command)

EstimatorReady(estimator_good, bench_mode) == estimator_good \/ bench_mode
BatteryReady(battery_low, bench_mode) == ~battery_low \/ bench_mode

ArmCallback(estimator_good, bench_mode) ==
  /\ ~estop_active /\ EstimatorReady(estimator_good, bench_mode) /\ ~heard.failsafe
  /\ Send("engage")
  /\ UNCHANGED <<node, heard, published, px4, order>>

Abs(n) == IF n < 0 THEN -n ELSE n

\* Mutant: the sign is turned without regard to what was asked.
ClimbToNegated(altitude) ==
  LET ned == IF altitude = 0 THEN -5 ELSE -altitude
  IN  IF ned < MaxAltitude THEN MaxAltitude ELSE ned

\* Positive altitudes become NED, 0 stands for the default.
ClimbTo(altitude) ==
  LET ned == IF altitude = 0 THEN -5 ELSE -Abs(altitude)
  IN  IF ned < MaxAltitude THEN MaxAltitude ELSE ned

TakeoffCallback(altitude, estimator_good, battery_low, bench_mode) ==
  /\ ~estop_active
  /\ EstimatorReady(estimator_good, bench_mode) /\ BatteryReady(battery_low, bench_mode)
  /\ Send("engage")
  /\ current_state' = "TAKEOFF"
  /\ takeoff_altitude' = ClimbTo(altitude)
  /\ silence' = 0
  /\ UNCHANGED <<estop_active, target, left, heard, published, px4, order>>

\* A velocity that is not zero is in the frame of its interface.
Velocity(moving, frame) == IF moving THEN frame ELSE "zero"

\* Mutant: frame_id_ stays what set_velocity left in it.
CmdVelKeepsFrame(moving) ==
  /\ ~estop_active
  /\ current_state' = "VELOCITY"
  /\ target' = Velocity(moving, IF target = "ned" THEN "ned" ELSE "body")
  /\ left' = CmdVelTimeout
  /\ silence' = 0
  /\ order' = [velocity |-> Velocity(moving, "body"), lasts |-> CmdVelTimeout]
  /\ UNCHANGED <<estop_active, takeoff_altitude, heard, published, commands, px4>>

CmdVelCallback(moving) ==
  /\ ~estop_active
  /\ current_state' = "VELOCITY"
  /\ target' = Velocity(moving, "body")
  /\ left' = CmdVelTimeout
  /\ silence' = 0
  /\ order' = [velocity |-> Velocity(moving, "body"), lasts |-> CmdVelTimeout]
  /\ UNCHANGED <<estop_active, takeoff_altitude, heard, published, commands, px4>>

Lasts(duration) == IF duration > 0 THEN duration ELSE NoLimit

SetVelocityCallback(moving, frame, duration, auto_arm) ==
  /\ ~estop_active
  /\ current_state' = "VELOCITY"
  /\ target' = Velocity(moving, frame)
  /\ left' = Lasts(duration)
  /\ silence' = 0
  /\ order' = [velocity |-> Velocity(moving, frame), lasts |-> Lasts(duration)]
  /\ IF auto_arm THEN Send("engage") ELSE UNCHANGED commands
  /\ UNCHANGED <<estop_active, takeoff_altitude, heard, published, px4>>

LandCallback ==
  /\ Send("land")
  /\ current_state' = "INIT"
  /\ UNCHANGED <<estop_active, target, takeoff_altitude, left, silence, heard, published,
                 px4, order>>

EstopCallback ==
  /\ Send("land")
  /\ current_state' = "INIT"
  /\ estop_active' = TRUE
  /\ UNCHANGED <<target, takeoff_altitude, left, silence, heard, published, px4, order>>

-----------------------------------------------------------------------------
(* The timer                                                               *)

\* publish_trajectory_setpoint, with velocity_end_time_ as the timer leaves it.
Setpoint(time_left) ==
  CASE current_state = "TAKEOFF" -> [flies |-> "climb", age |-> 0]
    [] current_state = "VELOCITY" /\ time_left > 0 /\ target # "zero" ->
         [flies |-> target, age |-> silence]
    [] OTHER -> Hover

\* Mutant: the stream goes on after an emergency stop.
TimerIgnoresEstop ==
  /\ left' = IF current_state = "VELOCITY" /\ silence > HeartbeatTimeout THEN 0 ELSE left
  /\ published' = Setpoint(left')
  /\ px4' \in {px4, [px4 EXCEPT !.quiet = 0]}
  /\ UNCHANGED <<current_state, estop_active, target, takeoff_altitude, silence, heard,
                 commands, order>>

\* The mode heartbeat and the setpoint reach PX4 or are lost with the link.
TimerCallback ==
  /\ ~estop_active
  /\ left' = IF current_state = "VELOCITY" /\ silence > HeartbeatTimeout THEN 0 ELSE left
  /\ published' = Setpoint(left')
  /\ px4' \in {px4, [px4 EXCEPT !.quiet = 0]}
  /\ UNCHANGED <<current_state, estop_active, target, takeoff_altitude, silence, heard,
                 commands, order>>

TimePasses ==
  /\ left' = IF left > 0 THEN left - 1 ELSE 0
  /\ silence' = UpTo(HeartbeatTimeout + 1, silence + 1)
  /\ px4' = [px4 EXCEPT !.quiet = UpTo(SignalTimeout, @ + 1)]
  /\ UNCHANGED <<current_state, estop_active, target, takeoff_altitude, heard, published,
                 commands, order>>

-----------------------------------------------------------------------------
(* PX4                                                                     *)

\* The link is best effort: a command is taken in its turn, or lost.
Px4TakesCommand ==
  /\ commands # << >>
  /\ commands' = Tail(commands)
  /\ \/ /\ Head(commands) = "engage" /\ px4.quiet < SignalTimeout
        /\ px4' = [px4 EXCEPT !.mode = "offboard"]
     \/ Head(commands) = "land" /\ px4' = [px4 EXCEPT !.mode = "land"]
     \/ UNCHANGED px4
  /\ UNCHANGED <<node, heard, published, order>>

\* The failsafe for a lost offboard signal.
Px4LosesSignal ==
  /\ px4.mode = "offboard" /\ px4.quiet = SignalTimeout
  /\ \E mode \in {"hold", "land"} : px4' = [px4 EXCEPT !.mode = mode]
  /\ UNCHANGED <<node, heard, published, commands, order>>

\* The pilot's switch; PX4 refuses offboard without a signal.
PilotSelects(mode) ==
  /\ mode = "offboard" => px4.quiet < SignalTimeout
  /\ px4' = [px4 EXCEPT !.mode = mode]
  /\ UNCHANGED <<node, heard, published, commands, order>>

-----------------------------------------------------------------------------
Service ==
  \/ \E estimator_good, battery_low, bench_mode \in BOOLEAN :
       \/ ArmCallback(estimator_good, bench_mode)
       \/ \E altitude \in Altitudes :
            TakeoffCallback(altitude, estimator_good, battery_low, bench_mode)
  \/ \E moving \in BOOLEAN :
       \/ CmdVelCallback(moving)
       \/ \E frame \in {"body", "ned"}, duration \in Durations, auto_arm \in BOOLEAN :
            SetVelocityCallback(moving, frame, duration, auto_arm)
  \/ LandCallback
  \/ EstopCallback

Telemetry == ControlModeCallback \/ \E critical \in BOOLEAN : FailsafeFlagsCallback(critical)

Px4 == Px4TakesCommand \/ Px4LosesSignal \/ \E mode \in {"hold", "offboard"} : PilotSelects(mode)

Next == Service \/ Telemetry \/ TimerCallback \/ TimePasses \/ Px4

Spec == Init /\ [][Next]_vars

\* Time passes, and PX4 serves its command topic and its own failsafe.
FairSpec ==
  Spec /\ WF_vars(TimePasses) /\ WF_vars(Px4TakesCommand) /\ WF_vars(Px4LosesSignal)

-----------------------------------------------------------------------------
(* Properties                                                              *)

\* A velocity goes out only on behalf of the command last accepted, in the
\* frame that command's interface stands for, and never longer than it was
\* meant to last, nor past the heartbeat failsafe, whatever climbs, landings
\* and commands of the other interface came between.
VelocityHasAnOrder ==
  [][published' # published /\ published'.flies \in {"body", "ned"} =>
       /\ published'.flies = order.velocity
       /\ published'.age < order.lasts /\ published'.age <= HeartbeatTimeout]_vars

\* A climb is aimed above the ground and not above MAX_ALTITUDE, whatever was asked.
ClimbsWithinLimits == takeoff_altitude \in MaxAltitude..-1

\* After an emergency stop PX4 comes to rest outside offboard mode, also when
\* the one LAND is lost, and whatever was in transit before it.
EstopEndsOffboard == estop_active ~> [](px4.mode # "offboard")

\* "Failsafe state (critical blockers for arming/takeoff)" (:172).
FailsafeBlocksTakeoff ==
  [][current_state # "TAKEOFF" /\ current_state' = "TAKEOFF" => ~heard.failsafe]_vars
=============================================================================
