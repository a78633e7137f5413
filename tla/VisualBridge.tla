----------------------------- MODULE VisualBridge -----------------------------
(***************************************************************************)
(* vio_bridge: the three nodes that turn an external pose source into the  *)
(* /fmu/in/vehicle_visual_odometry PX4 fuses: ORB-SLAM3 (vio_bridge_node), *)
(* OpenVINS (openvins_bridge_node), motion capture (optitrack_bridge_node).*)
(* One of them runs.  Rotations are quarter turns, so what each frame      *)
(* conversion does is computed exactly.                                    *)
(*                                                                         *)
(* The source is external: a sample is the pose the vehicle has (attitude  *)
(* NED<-FRD, position in NED), and Measure* is how that source reports it  *)
(* in a frame of its own.  ORB-SLAM3 announces on another topic whether    *)
(* its map is metric, and starts new maps; the flag may be read late.      *)
(* OpenVINS reports the velocity of its IMU with every pose; publish_      *)
(* velocity is at its default, true.                                       *)
(***************************************************************************)
EXTENDS Rotations

CONSTANTS
  Attitudes, Positions,      \* of the vehicle
  Velocities,                \* of the sensor, in NED
  ImuAttitudes,              \* what PX4 may report of it
  SlamFrames,                \* NED <- map, of the maps SLAM may build
  UpFrames,                  \* NED <- world, of the Z-up sources
  BodyOffset, SlamScale, CameraPitch, SettleFrames,   \* parameters of the nodes
  MaxStamp,                  \* bound: sample stamps of the motion capture
  MaxGap,                    \* a finite difference wants 0 < dt < MaxGap (0.1 s)
  Word                       \* stamps are unsigned: differences are modulo Word (2^64)

ASSUME BridgeAssumption ==
  /\ SlamScale \in Nat \ {0} /\ SettleFrames \in Nat \ {0}
  /\ MaxStamp \in Nat /\ MaxGap \in Nat /\ Word \in Nat /\ MaxStamp + MaxGap < Word

\* The worlds of the gravity-aligned sources have their Z axis up.
ASSUME FramesAssumption ==
  /\ Attitudes \cup ImuAttitudes \cup SlamFrames \cup UpFrames \cup {CameraPitch} \subseteq Turns
  /\ \A f \in UpFrames : Rotate(f, <<0, 0, 1>>) = <<0, 0, -1>>

\* Positions are exact in the units of the map.
ASSUME PositionsAssumption ==
  \A P \in Positions \cup {BodyOffset} :
    P \in Vectors /\ \A i \in Axes : P[i] % SlamScale = 0
ASSUME VelocitiesAssumption == Velocities \subseteq Vectors

VARIABLES
  source,              \* which of the three nodes runs
  frame,               \* the source's frame: NED <- map
  ready_topic,         \* inertial_ready in transit
  q_imu,               \* PX4's attitude, once received
  inertial_ready, frames_since_ready, initialized,
  anchor,              \* what the node keeps of the sample it aligned with
  published,           \* the odometry last published
  prev_ts,
  \* What the properties need to remember:
  shown                \* the vehicle's pose and, where the source reports it, velocity
                       \* in that odometry, its stamp and its map

link == <<source, frame, ready_topic>>
align == <<inertial_ready, frames_since_ready, initialized>>
vars == <<link, q_imu, align, anchor, published, prev_ts, shown>>

\* Optical to FRD axes; the camera may be tilted about the body's Y axis.
OpticalToFrd == <<<<0, 0, 1>>, <<1, 0, 0>>, <<0, 1, 0>>>>
CamToBody == Times(CameraPitch, OpticalToFrd)
\* The capture's rigid body has X left, Y back, Z up.
BodyToFlu == InverseOf(Yaw)
FluToFrd == Times(Roll, Roll)
RigidBodyInFrd == <<<<0, -1, 0>>, <<-1, 0, 0>>, <<0, 0, -1>>>>

NotYet == << >>                     \* no attitude received
NoVelocity == [by |-> Zero, dt |-> 0]      \* a displacement and the time it took

Odometry(q, p, velocity) == [q |-> q, p |-> p, velocity |-> velocity]
Shown(A, P, V, ts, lock) ==
  [A |-> A, P |-> P, V |-> V, ts |-> ts, frame |-> frame, lock |-> lock]

TypeOK ==
  /\ source \in {"vio", "openvins", "optitrack"}
  /\ frame \in SlamFrames \cup UpFrames
  /\ ready_topic \in {"none", "lost", "ready"}
  /\ q_imu \in ImuAttitudes \cup {NotYet}
  /\ inertial_ready \in BOOLEAN /\ initialized \in BOOLEAN
  /\ frames_since_ready \in 0..SettleFrames
  /\ prev_ts \in 0..MaxStamp

Init ==
  /\ source \in {"vio", "openvins", "optitrack"}
  /\ frame \in IF source = "vio" THEN SlamFrames ELSE UpFrames
  /\ ready_topic = "none"
  /\ q_imu = NotYet
  /\ inertial_ready = FALSE /\ frames_since_ready = 0 /\ initialized = FALSE
  /\ anchor = [frame |-> frame]
  /\ published = Odometry(Identity, Zero, NoVelocity)
  /\ prev_ts = 0
  /\ shown = Shown(Identity, Zero, Zero, 0, frame)

\* Mutant: the lever arm is not turned with the vehicle.
AtCentreFixed(q, p) == Minus(p, BodyOffset)

\* FC centre = sensor - R lever.
AtCentre(q, p) == Minus(p, Rotate(q, BodyOffset))
SensorAt(A, P) == Plus(P, Rotate(A, BodyOffset))

-----------------------------------------------------------------------------
(* ORB-SLAM3                                                               *)

\* A new map is not metric until its second inertial BA; that takes seconds,
\* in which the node has read that the flag fell.
SlamNewMap(f) ==
  /\ source = "vio" /\ f # frame
  /\ frame' = f
  /\ ready_topic' = "lost"
  /\ UNCHANGED <<source, q_imu, align, anchor, published, prev_ts, shown>>

SlamMetric ==
  /\ source = "vio" /\ ready_topic = "none"
  /\ ready_topic' = "ready"
  /\ UNCHANGED <<source, frame, q_imu, align, anchor, published, prev_ts, shown>>

OnAttitude(A) ==
  /\ source = "vio"
  /\ q_imu' = A
  /\ UNCHANGED <<link, align, anchor, published, prev_ts, shown>>

\* Mutant: only the rise of the flag resets the alignment.
OnReadyRises ==
  /\ ready_topic # "none"
  /\ ready_topic' = "none"
  /\ inertial_ready' = (ready_topic = "ready")
  /\ IF inertial_ready' /\ ~inertial_ready
     THEN initialized' = FALSE /\ frames_since_ready' = 0
     ELSE UNCHANGED <<initialized, frames_since_ready>>
  /\ UNCHANGED <<source, frame, q_imu, anchor, published, prev_ts, shown>>

OnReady ==
  /\ ready_topic # "none"
  /\ ready_topic' = "none"
  /\ inertial_ready' = (ready_topic = "ready")
  /\ IF inertial_ready' # inertial_ready
     THEN initialized' = FALSE /\ frames_since_ready' = 0
     ELSE UNCHANGED <<initialized, frames_since_ready>>
  /\ UNCHANGED <<source, frame, q_imu, anchor, published, prev_ts, shown>>

\* Tcw of the camera: map to camera, in SLAM units.
MeasureSlam(A, P) ==
  LET R_cw == Times(InverseOf(CamToBody), Times(InverseOf(A), frame))
      metric == Rotate(InverseOf(frame), SensorAt(A, P))
      p_wc == [i \in Axes |-> metric[i] \div SlamScale]
  IN  [q_cw |-> R_cw, t_cw |-> Scaled(-1, Rotate(R_cw, p_wc))]

\* The odometry of a pose under an alignment.
VioOdometry(q_cw, p_wc, a) ==
  LET q_slam_delta == Times(a.q_slam_init, InverseOf(q_cw))
      q_body_delta == Times(CamToBody, Times(q_slam_delta, InverseOf(CamToBody)))
      q == Times(a.q_imu_init, q_body_delta)
      q_ned_world == Times(a.q_imu_init, Times(CamToBody, a.q_slam_init))
      p_cam_ned == Rotate(q_ned_world, Scaled(SlamScale, Minus(p_wc, a.p_wc_init)))
  IN  Odometry(q, AtCentre(q, p_cam_ned), NoVelocity)

OnSlamPose(A, P) ==
  LET msg  == MeasureSlam(A, P)
      p_wc == Scaled(-1, Rotate(InverseOf(msg.q_cw), msg.t_cw))
      lock == [q_imu_init |-> q_imu, q_slam_init |-> msg.q_cw, p_wc_init |-> p_wc, frame |-> frame]
  IN  /\ source = "vio" /\ q_imu # NotYet
      /\ \/ /\ initialized
            /\ published' = VioOdometry(msg.q_cw, p_wc, anchor)
            /\ shown' = Shown(A, P, Zero, 0, anchor.frame)
            /\ UNCHANGED <<align, anchor>>
         \/ /\ ~initialized /\ inertial_ready
            /\ frames_since_ready' = frames_since_ready + 1
            /\ IF frames_since_ready' < SettleFrames
               THEN UNCHANGED <<initialized, anchor, published, shown>>
               ELSE /\ initialized' = TRUE
                    /\ anchor' = lock
                    /\ published' = VioOdometry(msg.q_cw, p_wc, lock)
                    /\ shown' = Shown(A, P, Zero, 0, frame)
            /\ UNCHANGED inertial_ready
      /\ UNCHANGED <<link, q_imu, prev_ts>>

-----------------------------------------------------------------------------
(* The sources with a gravity-aligned, Z-up frame                          *)

\* The heading of a vector, or zero for a vertical one.
Horizontal(v) == IF v[1] = 0 /\ v[2] = 0 THEN Zero ELSE <<v[1], v[2], 0>>

\* Mutant: the Z-up frame is taken for Z-down.
AnchorUpright(north) == <<north, Cross(<<0, 0, 1>>, north), <<0, 0, 1>>>>

\* North is the heading, down is down: the rows that take source vectors to NED.
AnchorAt(north) == <<north, Cross(<<0, 0, -1>>, north), <<0, 0, -1>>>>

AnchorOnce(p, north) ==
  LET a == IF initialized THEN anchor ELSE [p0 |-> p, R |-> AnchorAt(north), frame |-> frame]
  IN  /\ anchor' = a
      /\ initialized' = TRUE
      /\ UNCHANGED <<inertial_ready, frames_since_ready>>

\* The pose in a frame of its own, the velocity in the IMU's.
MeasureOpenVins(A, P, V) ==
  [q_GI |-> Times(InverseOf(frame), Times(A, OpticalToFrd)),
   p_GI |-> Rotate(InverseOf(frame), SensorAt(A, P)),
   v_local |-> Rotate(InverseOf(Times(A, OpticalToFrd)), V)]

\* North is the optical Z axis, or X when that one is vertical.  The velocity is
\* the IMU's as it is: with every sample, and not moved to the FC centre.
OnOpenVinsOdom(A, P, V) ==
  LET msg == MeasureOpenVins(A, P, V)
      fwd == Horizontal(Rotate(msg.q_GI, <<0, 0, 1>>))
      alt == Horizontal(Rotate(msg.q_GI, <<1, 0, 0>>))
      q_ned_frd == Times(anchor'.R, Times(msg.q_GI, InverseOf(OpticalToFrd)))
      p_imu_N == Rotate(anchor'.R, Minus(msg.p_GI, anchor'.p0))
      v_N == Rotate(Times(anchor'.R, msg.q_GI), msg.v_local)
  IN  /\ source = "openvins"
      /\ AnchorOnce(msg.p_GI, IF fwd # Zero THEN fwd ELSE alt)
      /\ published' = Odometry(q_ned_frd, AtCentre(q_ned_frd, p_imu_N),
                               [by |-> v_N, dt |-> 1])
      /\ shown' = Shown(A, P, V, 0, frame)
      /\ UNCHANGED <<link, q_imu, prev_ts>>

MeasureOptitrack(A, P) ==
  [q_W_B |-> Times(InverseOf(frame), Times(A, RigidBodyInFrd)),
   p_W |-> Rotate(InverseOf(frame), SensorAt(A, P))]

\* A displacement over dt, when the samples are in order and close together.
FiniteDifference(ts, p) ==
  LET dt == (ts - prev_ts) % Word
  IN  IF prev_ts > 0 /\ 0 < dt /\ dt < MaxGap THEN [by |-> Minus(p, published.p), dt |-> dt]
      ELSE NoVelocity

OnOptitrackPose(A, P, ts) ==
  LET msg == MeasureOptitrack(A, P)
      q_W_B == Times(msg.q_W_B, BodyToFlu)
      fwd == Horizontal(Rotate(q_W_B, <<1, 0, 0>>))
      q_ned_frd == Times(anchor'.R, Times(q_W_B, InverseOf(FluToFrd)))
      p_fc == AtCentre(q_ned_frd, Rotate(anchor'.R, Minus(msg.p_W, anchor'.p0)))
  IN  /\ source = "optitrack"
      /\ AnchorOnce(msg.p_W, IF fwd # Zero THEN fwd ELSE <<1, 0, 0>>)
      /\ published' = Odometry(q_ned_frd, p_fc, FiniteDifference(ts, p_fc))
      /\ prev_ts' = ts
      /\ shown' = Shown(A, P, Zero, ts, frame)
      /\ UNCHANGED <<link, q_imu>>

-----------------------------------------------------------------------------
Slam == OnReady \/ SlamMetric \/ \E f \in SlamFrames : SlamNewMap(f)
Sample(A, P) ==
  \/ OnSlamPose(A, P)
  \/ \E V \in Velocities : OnOpenVinsOdom(A, P, V)
  \/ \E ts \in 1..MaxStamp : OnOptitrackPose(A, P, ts)

Next ==
  \/ Slam
  \/ \E A \in ImuAttitudes : OnAttitude(A)
  \/ \E A \in Attitudes, P \in Positions : Sample(A, P)

Spec == Init /\ [][Next]_vars

-----------------------------------------------------------------------------
(* Properties                                                              *)

\* Between two odometries of one alignment and one map PX4 sees the motion the
\* vehicle made, as seen from its body: every frame change, the lever arm and
\* the scale included.
RigidMotion ==
  initialized /\ shown'.frame = shown'.lock /\ shown.frame = shown'.frame =>
    /\ Times(InverseOf(published.q), published'.q) = Times(InverseOf(shown.A), shown'.A)
    /\ Rotate(InverseOf(published.q), Minus(published'.p, published.p)) =
         Rotate(InverseOf(shown.A), Minus(shown'.P, shown.P))

\* A gravity-aligned source anchors a level vehicle with zero yaw.
StartsNorth ==
  ~initialized /\ source # "vio" /\ shown'.A[3] = <<0, 0, 1>> => published'.q = Identity

\* A finite difference is the true displacement between two samples in order;
\* samples out of order, whose unsigned difference wraps, give none.
VelocityOfOrderedSamples ==
  source # "openvins" /\ published'.velocity # NoVelocity =>
    /\ shown'.ts > shown.ts /\ published'.velocity.dt = shown'.ts - shown.ts
    /\ Rotate(InverseOf(published.q), published'.velocity.by) =
         Rotate(InverseOf(shown.A), Minus(shown'.P, shown.P))

\* OpenVINS's velocity is, as seen from the body, the one the IMU has: not that of
\* the FC centre, which a turning vehicle moves differently.
VelocityOfTheImu ==
  source = "openvins" =>
    /\ published'.velocity.dt = 1
    /\ Rotate(InverseOf(published'.q), published'.velocity.by) =
         Rotate(InverseOf(shown'.A), shown'.V)

\* What PX4 is told of the vehicle's motion is what the vehicle did.  (All
\* three pose callbacks)
OdometryIsTrue ==
  [][published' # published =>
       /\ RigidMotion /\ StartsNorth
       /\ VelocityOfOrderedSamples /\ VelocityOfTheImu]_vars

\* A gravity-aligned source keeps the true vertical, at any attitude it starts
\* with.  (on_odom, on_pose)
GravityKept == initialized /\ source # "vio" => published.q[3] = shown.A[3]
BridgeInv == TypeOK /\ GravityKept

\* Poses of a map the node is not aligned with go out only while the news that
\* the old one is gone is in transit.  (inertial_ready's callback)
MisalignedOnlyInTransit ==
  [][published' # published /\ shown'.frame # shown'.lock => ready_topic = "lost"]_vars
=============================================================================
