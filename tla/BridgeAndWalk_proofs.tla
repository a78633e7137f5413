-------------------------- MODULE BridgeAndWalk_proofs --------------------------
(***************************************************************************)
(* Two pieces of geometry, for vectors of any size.  The pose bridges, for *)
(* any attitudes, Z-up worlds, SLAM maps, lever arm, camera, scale and     *)
(* parameters: the vertical is kept, poses that are not aligned go out only*)
(* while the news of the reset is in transit, and what is published is the *)
(* vehicle's motion under one turn and one origin.  The vertical is the    *)
(* third row of a rotation, and the third row of a product depends on the  *)
(* third row of its left factor alone; the motion follows from the algebra *)
(* of rotations, which the sections in the middle prove.  And the walk     *)
(* along a guide path, for any segment that advances: the last section.    *)
(***************************************************************************)
EXTENDS VisualBridge, GuideWalk, TLAPS

Down == <<0, 0, -1>>

\* The alignment SLAM's poses are published under is of the current map, or the
\* news that there is another is in transit.
SlamAligned ==
  source = "vio" /\ initialized => inertial_ready /\ (anchor.frame = frame \/ ready_topic = "lost")

AnchoredUpright == source # "vio" /\ initialized => anchor.R[3] = Down

IInv ==
  /\ BridgeInv
  /\ ~initialized => frames_since_ready < SettleFrames
  /\ source # "vio" => frame \in UpFrames
  /\ SlamAligned
  /\ AnchoredUpright

-----------------------------------------------------------------------------
(* Rows of products *)

LEMMA ThirdRow == ASSUME NEW R, NEW S PROVE Times(R, S)[3] = Rotate(InverseOf(S), R[3])
  BY DEF Times

LEMMA VectorIs ==
  ASSUME NEW u \in Vectors
  PROVE  u = <<u[1], u[2], u[3]>> /\ u[1] \in Int /\ u[2] \in Int /\ u[3] \in Int
  BY DEF Vectors

LEMMA MatrixIs ==
  ASSUME NEW R \in Matrices
  PROVE  R = <<R[1], R[2], R[3]>> /\ R[1] \in Vectors /\ R[2] \in Vectors /\ R[3] \in Vectors
  BY DEF Matrices

LEMMA DotType == ASSUME NEW u \in Vectors, NEW v \in Vectors PROVE Dot(u, v) \in Int
<1>1. /\ u[1] \in Int /\ u[2] \in Int /\ u[3] \in Int
      /\ v[1] \in Int /\ v[2] \in Int /\ v[3] \in Int
  BY VectorIs
<1>2. u[1] * v[1] \in Int /\ u[2] * v[2] \in Int /\ u[3] * v[3] \in Int
  BY <1>1
<1> QED
  BY <1>2 DEF Dot

LEMMA InverseType == ASSUME NEW R \in Matrices PROVE InverseOf(R) \in Matrices
<1>1. R[1] \in Vectors /\ R[2] \in Vectors /\ R[3] \in Vectors
  BY MatrixIs
<1>2. \A i \in {1, 2, 3} : <<R[1][i], R[2][i], R[3][i]>> \in Vectors
  BY <1>1, VectorIs DEF Vectors
<1> QED
  BY <1>2 DEF InverseOf, Matrices

LEMMA RotateType ==
  ASSUME NEW R \in Matrices, NEW v \in Vectors
  PROVE  Rotate(R, v) \in Vectors
<1>1. Dot(R[1], v) \in Int /\ Dot(R[2], v) \in Int /\ Dot(R[3], v) \in Int
  BY MatrixIs, DotType
<1> QED
  BY <1>1 DEF Rotate, Vectors

LEMMA TimesType ==
  ASSUME NEW R \in Matrices, NEW S \in Matrices
  PROVE  Times(R, S) \in Matrices
<1>1. \A i \in {1, 2, 3} : Rotate(InverseOf(S), R[i]) \in Vectors
  BY MatrixIs, InverseType, RotateType
<1> QED
  BY <1>1 DEF Times, Matrices

LEMMA ConstantsAreMatrices ==
  /\ OpticalToFrd \in Matrices /\ RigidBodyInFrd \in Matrices
  /\ BodyToFlu \in Matrices /\ InverseOf(FluToFrd) \in Matrices
  /\ InverseOf(OpticalToFrd) \in Matrices
<1>1. OpticalToFrd \in Matrices /\ RigidBodyInFrd \in Matrices /\ Yaw \in Matrices /\ Roll \in Matrices
  BY DEF OpticalToFrd, RigidBodyInFrd, Yaw, Roll, Matrices, Vectors
<1> QED
  BY <1>1, InverseType, TimesType DEF BodyToFlu, FluToFrd

\* Whatever is seen from a frame whose Z axis is up has its third row turned over.
LEMMA TurnedOver ==
  ASSUME NEW X \in Matrices
  PROVE  Rotate(InverseOf(X), Down) = Scaled(-1, X[3])
<1>1. /\ X[1][1] \in Int /\ X[1][2] \in Int /\ X[1][3] \in Int
      /\ X[2][1] \in Int /\ X[2][2] \in Int /\ X[2][3] \in Int
      /\ X[3][1] \in Int /\ X[3][2] \in Int /\ X[3][3] \in Int
  BY MatrixIs, VectorIs
<1> QED
  BY <1>1 DEF Rotate, InverseOf, Dot, Scaled, Down

LEMMA DotAxis ==
  ASSUME NEW x \in Int, NEW y \in Int, NEW z \in Int
  PROVE  /\ Dot(<<1, 0, 0>>, <<x, y, z>>) = x
         /\ Dot(<<0, 1, 0>>, <<x, y, z>>) = y
         /\ Dot(<<0, 0, 1>>, <<x, y, z>>) = z
         /\ Dot(<<x, y, z>>, <<0, 0, 1>>) = z
<1> DEFINE u == <<x, y, z>>
<1>1. u[1] = x /\ u[2] = y /\ u[3] = z
  OBVIOUS
<1>2. \A a, b, c \in Int : a * x + b * y + c * z = x * a + y * b + z * c
  OBVIOUS
<1>3. /\ 1 * x + 0 * y + 0 * z = x
      /\ 0 * x + 1 * y + 0 * z = y
      /\ 0 * x + 0 * y + 1 * z = z
      /\ x * 0 + y * 0 + z * 1 = z
  OBVIOUS
<1> QED
  BY <1>1, <1>3 DEF Dot

LEMMA UpFrameRow ==
  ASSUME NEW f \in UpFrames
  PROVE  f \in Matrices /\ InverseOf(f) \in Matrices /\ InverseOf(f)[3] = Down
<1>1. f \in Matrices /\ Rotate(f, <<0, 0, 1>>) = <<0, 0, -1>>
  BY FramesAssumption DEF Turns, Orthogonal
<1>2. /\ f[1][1] \in Int /\ f[1][2] \in Int /\ f[1][3] \in Int
      /\ f[2][1] \in Int /\ f[2][2] \in Int /\ f[2][3] \in Int
      /\ f[3][1] \in Int /\ f[3][2] \in Int /\ f[3][3] \in Int
  BY <1>1, MatrixIs, VectorIs
<1>3. Dot(f[1], <<0, 0, 1>>) = 0 /\ Dot(f[2], <<0, 0, 1>>) = 0 /\ Dot(f[3], <<0, 0, 1>>) = -1
  BY <1>1 DEF Rotate
<1>4. f[1][3] = 0 /\ f[2][3] = 0 /\ f[3][3] = -1
  <2>1. \A i \in {1, 2, 3} : f[i] = <<f[i][1], f[i][2], f[i][3]>>
    BY <1>1, MatrixIs, VectorIs
  <2>2. \A i \in {1, 2, 3} : Dot(f[i], <<0, 0, 1>>) = f[i][3]
    <3>1. \A i \in {1, 2, 3} : f[i][1] \in Int /\ f[i][2] \in Int /\ f[i][3] \in Int
      BY <1>2
    <3> TAKE i \in {1, 2, 3}
    <3>2. Dot(<<f[i][1], f[i][2], f[i][3]>>, <<0, 0, 1>>) = f[i][3]
      BY <3>1, DotAxis
    <3> QED
      BY <2>1, <3>2
  <2> QED
    BY <1>3, <2>2
<1> QED
  BY <1>1, <1>4, InverseType DEF InverseOf, Down

-----------------------------------------------------------------------------
(* The vertical through the conversions *)

LEMMA OpticalRows ==
  ASSUME NEW x \in Int, NEW y \in Int, NEW z \in Int
  PROVE  /\ Rotate(InverseOf(OpticalToFrd), <<x, y, z>>) = <<y, z, x>>
         /\ Rotate(InverseOf(InverseOf(OpticalToFrd)), <<x, y, z>>) = <<z, x, y>>
<1>1. InverseOf(OpticalToFrd) = <<<<0, 1, 0>>, <<0, 0, 1>>, <<1, 0, 0>>>>
  BY DEF InverseOf, OpticalToFrd
<1>2. InverseOf(InverseOf(OpticalToFrd)) = <<<<0, 0, 1>>, <<1, 0, 0>>, <<0, 1, 0>>>>
  BY <1>1 DEF InverseOf
<1> QED
  BY <1>1, <1>2, DotAxis DEF Rotate

LEMMA OpenVinsVertical ==
  ASSUME NEW f \in UpFrames, NEW A \in Matrices, NEW R, R[3] = Down
  PROVE  Times(R, Times(Times(InverseOf(f), Times(A, OpticalToFrd)), InverseOf(OpticalToFrd)))[3]
           = A[3]
<1> DEFINE X == Times(A, OpticalToFrd)
           G == Times(InverseOf(f), X)
           B == Times(G, InverseOf(OpticalToFrd))
           a == A[3]
<1>1. X \in Matrices /\ G \in Matrices /\ B \in Matrices
  BY UpFrameRow, TimesType, ConstantsAreMatrices
<1>2. X[3] = Rotate(InverseOf(OpticalToFrd), a)
  BY ThirdRow
<1>3. G[3] = Rotate(InverseOf(X), Down)
  BY ThirdRow, UpFrameRow
<1>4. B[3] = Rotate(InverseOf(InverseOf(OpticalToFrd)), G[3])
  BY ThirdRow
<1>5. Times(R, B)[3] = Rotate(InverseOf(B), Down)
  BY ThirdRow
<1>6. a = <<a[1], a[2], a[3]>> /\ a[1] \in Int /\ a[2] \in Int /\ a[3] \in Int
  BY MatrixIs, VectorIs
<1> HIDE DEF X, G, B, a
<1>7. G[3] = Scaled(-1, X[3]) /\ Times(R, B)[3] = Scaled(-1, B[3])
  BY <1>1, <1>3, <1>5, TurnedOver
<1>8. X[3] = <<a[2], a[3], a[1]>>
  BY <1>2, <1>6, OpticalRows
<1>9. G[3] = <<-a[2], -a[3], -a[1]>>
  BY <1>6, <1>7, <1>8 DEF Scaled
<1>10. B[3] = <<-a[1], -a[2], -a[3]>>
  <2>1. -a[1] \in Int /\ -a[2] \in Int /\ -a[3] \in Int
    BY <1>6
  <2> QED
    BY <1>4, <1>9, <2>1, OpticalRows
<1>11. Times(R, B)[3] = <<a[1], a[2], a[3]>>
  BY <1>6, <1>7, <1>10 DEF Scaled
<1> QED
  BY <1>6, <1>11 DEF X, G, B, a

LEMMA CaptureConstants ==
  /\ InverseOf(RigidBodyInFrd) = <<<<0, -1, 0>>, <<-1, 0, 0>>, <<0, 0, -1>>>>
  /\ InverseOf(BodyToFlu) = <<<<0, -1, 0>>, <<1, 0, 0>>, <<0, 0, 1>>>>
  /\ InverseOf(InverseOf(FluToFrd)) = <<<<1, 0, 0>>, <<0, -1, 0>>, <<0, 0, -1>>>>
<1>1. InverseOf(RigidBodyInFrd) = <<<<0, -1, 0>>, <<-1, 0, 0>>, <<0, 0, -1>>>>
  BY DEF InverseOf, RigidBodyInFrd
<1>2. InverseOf(BodyToFlu) = <<<<0, -1, 0>>, <<1, 0, 0>>, <<0, 0, 1>>>>
  BY DEF InverseOf, BodyToFlu, Yaw
<1>3. FluToFrd = <<<<1, 0, 0>>, <<0, -1, 0>>, <<0, 0, -1>>>>
  <2>1. InverseOf(Roll) = <<<<1, 0, 0>>, <<0, 0, 1>>, <<0, -1, 0>>>>
    BY DEF InverseOf, Roll
  <2>2. \A x, y, z \in Int : Rotate(InverseOf(Roll), <<x, y, z>>) = <<x, z, -y>>
    <3> SUFFICES ASSUME NEW x \in Int, NEW y \in Int, NEW z \in Int
                 PROVE  Rotate(InverseOf(Roll), <<x, y, z>>) = <<x, z, -y>>
      OBVIOUS
    <3> DEFINE u == <<x, y, z>>
    <3>1. u[1] = x /\ u[2] = y /\ u[3] = z
      OBVIOUS
    <3>2. Dot(<<1, 0, 0>>, u) = x /\ Dot(<<0, 0, 1>>, u) = z /\ Dot(<<0, -1, 0>>, u) = -y
      BY <3>1 DEF Dot
    <3> QED
      BY <2>1, <3>2 DEF Rotate
  <2>3. Roll[1] = <<1, 0, 0>> /\ Roll[2] = <<0, 0, -1>> /\ Roll[3] = <<0, 1, 0>>
    BY DEF Roll
  <2>4. /\ Rotate(InverseOf(Roll), Roll[1]) = <<1, 0, 0>>
        /\ Rotate(InverseOf(Roll), Roll[2]) = <<0, -1, 0>>
        /\ Rotate(InverseOf(Roll), Roll[3]) = <<0, 0, -1>>
    BY <2>2, <2>3
  <2> QED
    BY <2>4 DEF FluToFrd, Times
<1>4. InverseOf(InverseOf(FluToFrd)) = <<<<1, 0, 0>>, <<0, -1, 0>>, <<0, 0, -1>>>>
  BY <1>3 DEF InverseOf
<1> QED
  BY <1>1, <1>2, <1>4

LEMMA CaptureRows ==
  ASSUME NEW x \in Int, NEW y \in Int, NEW z \in Int
  PROVE  /\ Rotate(InverseOf(RigidBodyInFrd), <<x, y, z>>) = <<-y, -x, -z>>
         /\ Rotate(InverseOf(BodyToFlu), <<x, y, z>>) = <<-y, x, z>>
         /\ Rotate(InverseOf(InverseOf(FluToFrd)), <<x, y, z>>) = <<x, -y, -z>>
<1> DEFINE u == <<x, y, z>>
<1>1. u[1] = x /\ u[2] = y /\ u[3] = z
  OBVIOUS
<1>2. /\ Dot(<<1, 0, 0>>, u) = x /\ Dot(<<0, 0, 1>>, u) = z
      /\ Dot(<<-1, 0, 0>>, u) = -x /\ Dot(<<0, -1, 0>>, u) = -y /\ Dot(<<0, 0, -1>>, u) = -z
  BY <1>1 DEF Dot
<1> HIDE DEF u
<1>3. /\ Rotate(InverseOf(RigidBodyInFrd), u) = <<-y, -x, -z>>
      /\ Rotate(InverseOf(BodyToFlu), u) = <<-y, x, z>>
      /\ Rotate(InverseOf(InverseOf(FluToFrd)), u) = <<x, -y, -z>>
  BY <1>2, CaptureConstants DEF Rotate
<1> QED
  BY <1>3 DEF u

LEMMA OptitrackVertical ==
  ASSUME NEW f \in UpFrames, NEW A \in Matrices, NEW R, R[3] = Down
  PROVE  Times(R, Times(Times(Times(InverseOf(f), Times(A, RigidBodyInFrd)), BodyToFlu),
                        InverseOf(FluToFrd)))[3] = A[3]
<1> DEFINE X == Times(A, RigidBodyInFrd)
           G == Times(InverseOf(f), X)
           H == Times(G, BodyToFlu)
           B == Times(H, InverseOf(FluToFrd))
           a == A[3]
<1>1. X \in Matrices /\ G \in Matrices /\ H \in Matrices /\ B \in Matrices
  BY UpFrameRow, TimesType, ConstantsAreMatrices
<1>2. X[3] = Rotate(InverseOf(RigidBodyInFrd), a)
  BY ThirdRow
<1>3. G[3] = Rotate(InverseOf(X), Down)
  BY ThirdRow, UpFrameRow
<1>4. H[3] = Rotate(InverseOf(BodyToFlu), G[3])
  BY ThirdRow
<1>5. B[3] = Rotate(InverseOf(InverseOf(FluToFrd)), H[3])
  BY ThirdRow
<1>6. Times(R, B)[3] = Rotate(InverseOf(B), Down)
  BY ThirdRow
<1>7. a = <<a[1], a[2], a[3]>> /\ a[1] \in Int /\ a[2] \in Int /\ a[3] \in Int
  BY MatrixIs, VectorIs
<1> HIDE DEF X, G, H, B, a
<1>8. G[3] = Scaled(-1, X[3]) /\ Times(R, B)[3] = Scaled(-1, B[3])
  BY <1>1, <1>3, <1>6, TurnedOver
<1>9. X[3] = <<-a[2], -a[1], -a[3]>>
  BY <1>2, <1>7, CaptureRows
<1>10. G[3] = <<a[2], a[1], a[3]>>
  BY <1>7, <1>8, <1>9 DEF Scaled
<1>11. H[3] = <<-a[1], a[2], a[3]>>
  BY <1>4, <1>7, <1>10, CaptureRows
<1>12. B[3] = <<-a[1], -a[2], -a[3]>>
  <2>1. -a[1] \in Int
    BY <1>7
  <2> QED
    BY <1>5, <1>7, <1>11, <2>1, CaptureRows
<1>13. Times(R, B)[3] = <<a[1], a[2], a[3]>>
  BY <1>7, <1>8, <1>12 DEF Scaled
<1> QED
  BY <1>7, <1>13 DEF X, G, H, B, a

-----------------------------------------------------------------------------
(* The invariant *)

LEMMA InitIInv == Init => IInv
<1> SUFFICES ASSUME Init PROVE IInv
  OBVIOUS
<1>1. TypeOK
  <2>1. 0 \in 0 .. SettleFrames /\ 0 \in 0 .. MaxStamp
    BY BridgeAssumption
  <2>2. frame \in SlamFrames \cup UpFrames
    BY DEF Init
  <2> QED
    BY <2>1, <2>2, Zenon DEF Init, TypeOK
<1>2. GravityKept
  BY DEF Init, GravityKept
<1>3. 0 < SettleFrames
  BY BridgeAssumption
<1> QED
  BY <1>1, <1>2, <1>3 DEF Init, IInv, BridgeInv, SlamAligned, AnchoredUpright

\* A step of SLAM or of PX4 leaves what was published and the anchor alone.
LEMMA NotASampleKeeps ==
  ASSUME IInv, Slam \/ \E A \in ImuAttitudes : OnAttitude(A)
  PROVE  IInv'
<1> USE DEF IInv, BridgeInv, TypeOK, GravityKept, SlamAligned, AnchoredUpright
<1>0. SettleFrames \in Nat /\ 0 < SettleFrames
  BY BridgeAssumption
<1>1. CASE OnReady
  <2>1. /\ source' = source /\ frame' = frame /\ q_imu' = q_imu /\ anchor' = anchor
        /\ published' = published /\ prev_ts' = prev_ts /\ shown' = shown
        /\ ready_topic' = "none" /\ inertial_ready' \in BOOLEAN
    BY <1>1 DEF OnReady
  <2>2. 0 \in 0 .. SettleFrames /\ 0 < SettleFrames
    BY <1>0
  <2>3. CASE inertial_ready' # inertial_ready
    <3>1. initialized' = FALSE /\ frames_since_ready' = 0
      BY <1>1, <2>3 DEF OnReady
    <3> QED
      BY <2>1, <2>2, <3>1
  <2>4. CASE inertial_ready' = inertial_ready
    <3>1. initialized' = initialized /\ frames_since_ready' = frames_since_ready
      BY <1>1, <2>4 DEF OnReady
    <3>2. inertial_ready => ready_topic = "ready"
      BY <1>1, <2>4 DEF OnReady
    <3> QED
      BY <2>1, <2>4, <3>1, <3>2
  <2> QED
    BY <2>3, <2>4
<1>2. CASE SlamMetric
  BY <1>2 DEF SlamMetric, align
<1>3. CASE \E f \in SlamFrames : SlamNewMap(f)
  BY <1>3 DEF SlamNewMap, align
<1>4. CASE \E A \in ImuAttitudes : OnAttitude(A)
  BY <1>4 DEF OnAttitude, align, link
<1> QED
  BY <1>1, <1>2, <1>3, <1>4 DEF Slam

LEMMA SlamPoseKeeps ==
  ASSUME IInv, NEW A, NEW P, OnSlamPose(A, P)
  PROVE  IInv'
<1> USE DEF IInv, BridgeInv, TypeOK, SlamAligned, AnchoredUpright
<1>0. SettleFrames \in Nat /\ 0 < SettleFrames
  BY BridgeAssumption
<1>1. source' = "vio" /\ frame' = frame /\ ready_topic' = ready_topic /\ q_imu' = q_imu
  BY DEF OnSlamPose, link
<1>2. GravityKept'
  BY <1>1 DEF GravityKept
<1>3. inertial_ready' = inertial_ready /\ prev_ts' = prev_ts
  BY DEF OnSlamPose, align
<1>4. CASE initialized
  BY <1>0, <1>1, <1>2, <1>3, <1>4 DEF OnSlamPose, align
<1>5. CASE ~initialized
  <2>1. /\ inertial_ready
        /\ frames_since_ready' = frames_since_ready + 1
        /\ frames_since_ready' < SettleFrames => initialized' = FALSE
        /\ ~(frames_since_ready' < SettleFrames) => initialized' = TRUE /\ anchor'.frame = frame
    BY <1>5 DEF OnSlamPose
  <2>2. frames_since_ready' \in 0 .. SettleFrames
    BY <1>0, <1>5, <2>1
  <2>3. CASE frames_since_ready' < SettleFrames
    BY <1>1, <1>2, <1>3, <2>1, <2>2, <2>3
  <2>4. CASE ~(frames_since_ready' < SettleFrames)
    BY <1>1, <1>2, <1>3, <2>1, <2>2, <2>4
  <2> QED
    BY <2>3, <2>4
<1> QED
  BY <1>4, <1>5

LEMMA AnchorOnceKeeps ==
  ASSUME NEW p, NEW north, AnchoredUpright, source # "vio", AnchorOnce(p, north)
  PROVE  anchor'.R[3] = Down
<1>1. AnchorAt(north)[3] = Down
  BY DEF AnchorAt, Down
<1> QED
  BY <1>1 DEF AnchoredUpright, AnchorOnce

LEMMA OpenVinsKeeps ==
  ASSUME IInv, NEW A \in Attitudes, NEW P, NEW V, OnOpenVinsOdom(A, P, V)
  PROVE  IInv'
<1>1. /\ source = "openvins" /\ source' = source /\ frame' = frame /\ ready_topic' = ready_topic
      /\ q_imu' = q_imu /\ prev_ts' = prev_ts
  BY DEF OnOpenVinsOdom, link
<1>2. /\ initialized' = TRUE /\ inertial_ready' = inertial_ready
      /\ frames_since_ready' = frames_since_ready
  BY DEF OnOpenVinsOdom, AnchorOnce
<1>3. anchor'.R[3] = Down
  BY <1>1, AnchorOnceKeeps DEF OnOpenVinsOdom, IInv
<1>4. published'.q[3] = shown'.A[3]
  <2>1. frame \in UpFrames /\ A \in Matrices
    BY <1>1, FramesAssumption DEF IInv, Turns, Orthogonal
  <2>2. published'.q = Times(anchor'.R, Times(Times(InverseOf(frame), Times(A, OpticalToFrd)),
                                              InverseOf(OpticalToFrd)))
    BY DEF OnOpenVinsOdom, MeasureOpenVins, Odometry
  <2>3. shown'.A = A
    BY DEF OnOpenVinsOdom, Shown
  <2> QED
    BY <1>3, <2>1, <2>2, <2>3, OpenVinsVertical
<1> QED
  BY <1>1, <1>2, <1>3, <1>4 DEF IInv, BridgeInv, TypeOK, GravityKept, SlamAligned, AnchoredUpright

LEMMA OptitrackKeeps ==
  ASSUME IInv, NEW A \in Attitudes, NEW P, NEW ts \in 1 .. MaxStamp, OnOptitrackPose(A, P, ts)
  PROVE  IInv'
<1>1. /\ source = "optitrack" /\ source' = source /\ frame' = frame /\ ready_topic' = ready_topic
      /\ q_imu' = q_imu /\ prev_ts' = ts
  BY DEF OnOptitrackPose, link
<1>2. /\ initialized' = TRUE /\ inertial_ready' = inertial_ready
      /\ frames_since_ready' = frames_since_ready
  BY DEF OnOptitrackPose, AnchorOnce
<1>3. anchor'.R[3] = Down
  BY <1>1, AnchorOnceKeeps DEF OnOptitrackPose, IInv
<1>4. published'.q[3] = shown'.A[3]
  <2>1. frame \in UpFrames /\ A \in Matrices
    BY <1>1, FramesAssumption DEF IInv, Turns, Orthogonal
  <2>2. published'.q = Times(anchor'.R,
          Times(Times(Times(InverseOf(frame), Times(A, RigidBodyInFrd)), BodyToFlu),
                InverseOf(FluToFrd)))
    BY DEF OnOptitrackPose, MeasureOptitrack, Odometry
  <2>3. shown'.A = A
    BY DEF OnOptitrackPose, Shown
  <2> QED
    BY <1>3, <2>1, <2>2, <2>3, OptitrackVertical
<1>5. ts \in 0 .. MaxStamp
  BY BridgeAssumption
<1> QED
  BY <1>1, <1>2, <1>3, <1>4, <1>5
  DEF IInv, BridgeInv, TypeOK, GravityKept, SlamAligned, AnchoredUpright

LEMMA StepIInv == IInv /\ [Next]_vars => IInv'
<1> SUFFICES ASSUME IInv, [Next]_vars PROVE IInv'
  OBVIOUS
<1>1. CASE Slam \/ \E A \in ImuAttitudes : OnAttitude(A)
  BY <1>1, NotASampleKeeps
<1>2. CASE \E A \in Attitudes, P \in Positions : Sample(A, P)
  <2>1. PICK A \in Attitudes, P \in Positions : Sample(A, P)
    BY <1>2
  <2> QED
    BY <2>1, SlamPoseKeeps, OpenVinsKeeps, OptitrackKeeps DEF Sample
<1>3. CASE UNCHANGED vars
  BY <1>3 DEF vars, link, align, IInv, BridgeInv, TypeOK, GravityKept, SlamAligned, AnchoredUpright
<1> QED
  BY <1>1, <1>2, <1>3 DEF Next

\* Whatever its parameters, a bridge is aligned with the map it publishes from or
\* about to hear that it is not, and the sources with a vertical have the anchor's
\* last row down. (the alignments of the three nodes)
THEOREM BridgeInvariance == Spec => []IInv
<1> QED
  BY InitIInv, StepIInv, PTL DEF Spec

\* The vertical of a gravity-aligned source survives every conversion, at any
\* attitude it starts with, for any world frame that is Z-up. (on_odom, on_pose)
THEOREM VerticalKept == Spec => []BridgeInv
<1>1. IInv => BridgeInv
  BY DEF IInv
<1> QED
  BY <1>1, BridgeInvariance, PTL

\* No pose is published under the alignment of another map, but while the news of
\* the reset is in transit. (inertial_ready's callback)
THEOREM MisalignmentPasses == Spec => MisalignedOnlyInTransit
<1> DEFINE Seen == published' # published /\ shown'.frame # shown'.lock => ready_topic = "lost"
<1>1. IInv /\ [Next]_vars => [Seen]_vars
  <2> SUFFICES ASSUME IInv, [Next]_vars, published' # published, shown'.frame # shown'.lock
               PROVE  ready_topic = "lost"
    OBVIOUS
  <2>1. PICK A \in Attitudes, P \in Positions : Sample(A, P)
    BY DEF Next, Slam, vars, OnReady, SlamMetric, SlamNewMap, OnAttitude
  <2>2. \A V \in Velocities : ~OnOpenVinsOdom(A, P, V)
    BY DEF OnOpenVinsOdom, Shown
  <2>3. \A ts \in 1 .. MaxStamp : ~OnOptitrackPose(A, P, ts)
    BY DEF OnOptitrackPose, Shown
  <2>4. OnSlamPose(A, P)
    BY <2>1, <2>2, <2>3 DEF Sample
  <2>5. initialized
    BY <2>4 DEF OnSlamPose, Shown
  <2>6. shown' = Shown(A, P, Zero, 0, anchor.frame)
    BY <2>4, <2>5 DEF OnSlamPose
  <2>7. anchor.frame # frame
    BY <2>6 DEF Shown
  <2> QED
    BY <2>4, <2>5, <2>7 DEF OnSlamPose, IInv, SlamAligned
<1> QED
  BY <1>1, BridgeInvariance, PTL DEF Spec, MisalignedOnlyInTransit
-----------------------------------------------------------------------------
(* The algebra of rotations *)

LEMMA EntriesAre ==
  ASSUME NEW R \in Matrices
  PROVE  /\ R = <<<<R[1][1], R[1][2], R[1][3]>>, <<R[2][1], R[2][2], R[2][3]>>,
                  <<R[3][1], R[3][2], R[3][3]>>>>
         /\ R[1][1] \in Int /\ R[1][2] \in Int /\ R[1][3] \in Int
         /\ R[2][1] \in Int /\ R[2][2] \in Int /\ R[2][3] \in Int
         /\ R[3][1] \in Int /\ R[3][2] \in Int /\ R[3][3] \in Int
  BY MatrixIs, VectorIs

LEMMA DotCommutes == ASSUME NEW u \in Vectors, NEW v \in Vectors PROVE Dot(u, v) = Dot(v, u)
<1>1. /\ u[1] \in Int /\ u[2] \in Int /\ u[3] \in Int
      /\ v[1] \in Int /\ v[2] \in Int /\ v[3] \in Int
  BY VectorIs
<1>2. u[1] * v[1] = v[1] * u[1] /\ u[2] * v[2] = v[2] * u[2] /\ u[3] * v[3] = v[3] * u[3]
  BY <1>1
<1> QED
  BY <1>2 DEF Dot

LEMMA SumsSwap ==
  ASSUME NEW u1 \in Int, NEW u2 \in Int, NEW u3 \in Int,
         NEW v1 \in Int, NEW v2 \in Int, NEW v3 \in Int,
         NEW a1 \in Int, NEW a2 \in Int, NEW a3 \in Int,
         NEW b1 \in Int, NEW b2 \in Int, NEW b3 \in Int,
         NEW c1 \in Int, NEW c2 \in Int, NEW c3 \in Int
  PROVE  (a1 * u1 + b1 * u2 + c1 * u3) * v1 + (a2 * u1 + b2 * u2 + c2 * u3) * v2
           + (a3 * u1 + b3 * u2 + c3 * u3) * v3
         = u1 * (a1 * v1 + a2 * v2 + a3 * v3) + u2 * (b1 * v1 + b2 * v2 + b3 * v3)
           + u3 * (c1 * v1 + c2 * v2 + c3 * v3)
  OBVIOUS

\* The transpose is the adjoint.
LEMMA Adjoint ==
  ASSUME NEW R \in Matrices, NEW u \in Vectors, NEW v \in Vectors
  PROVE  Dot(Rotate(InverseOf(R), u), v) = Dot(u, Rotate(R, v))
<1>1. /\ u[1] \in Int /\ u[2] \in Int /\ u[3] \in Int
      /\ v[1] \in Int /\ v[2] \in Int /\ v[3] \in Int
  BY VectorIs
<1>2. /\ R[1][1] \in Int /\ R[1][2] \in Int /\ R[1][3] \in Int
      /\ R[2][1] \in Int /\ R[2][2] \in Int /\ R[2][3] \in Int
      /\ R[3][1] \in Int /\ R[3][2] \in Int /\ R[3][3] \in Int
  BY EntriesAre
<1>3. Rotate(InverseOf(R), u) =
        <<R[1][1] * u[1] + R[2][1] * u[2] + R[3][1] * u[3],
          R[1][2] * u[1] + R[2][2] * u[2] + R[3][2] * u[3],
          R[1][3] * u[1] + R[2][3] * u[2] + R[3][3] * u[3]>>
  BY DEF Rotate, InverseOf, Dot
<1>4. Rotate(R, v) =
        <<R[1][1] * v[1] + R[1][2] * v[2] + R[1][3] * v[3],
          R[2][1] * v[1] + R[2][2] * v[2] + R[2][3] * v[3],
          R[3][1] * v[1] + R[3][2] * v[2] + R[3][3] * v[3]>>
  BY DEF Rotate, Dot
<1>5. Dot(Rotate(InverseOf(R), u), v) =
        (R[1][1] * u[1] + R[2][1] * u[2] + R[3][1] * u[3]) * v[1]
        + (R[1][2] * u[1] + R[2][2] * u[2] + R[3][2] * u[3]) * v[2]
        + (R[1][3] * u[1] + R[2][3] * u[2] + R[3][3] * u[3]) * v[3]
  BY <1>3 DEF Dot
<1>6. Dot(u, Rotate(R, v)) =
        u[1] * (R[1][1] * v[1] + R[1][2] * v[2] + R[1][3] * v[3])
        + u[2] * (R[2][1] * v[1] + R[2][2] * v[2] + R[2][3] * v[3])
        + u[3] * (R[3][1] * v[1] + R[3][2] * v[2] + R[3][3] * v[3])
  BY <1>4 DEF Dot
<1> QED
  BY <1>1, <1>2, <1>5, <1>6, SumsSwap

LEMMA InverseOfInverse ==
  ASSUME NEW R \in Matrices
  PROVE  InverseOf(InverseOf(R)) = R
<1>1. InverseOf(InverseOf(R)) = <<<<R[1][1], R[1][2], R[1][3]>>, <<R[2][1], R[2][2], R[2][3]>>,
                                  <<R[3][1], R[3][2], R[3][3]>>>>
  BY DEF InverseOf
<1> QED
  BY <1>1, EntriesAre

\* Turning by S and then by R is turning by their product.
LEMMA RotateTimes ==
  ASSUME NEW R \in Matrices, NEW S \in Matrices, NEW v \in Vectors
  PROVE  Rotate(Times(R, S), v) = Rotate(R, Rotate(S, v))
<1>1. R[1] \in Vectors /\ R[2] \in Vectors /\ R[3] \in Vectors
  BY MatrixIs
<1>2. /\ Dot(Rotate(InverseOf(S), R[1]), v) = Dot(R[1], Rotate(S, v))
      /\ Dot(Rotate(InverseOf(S), R[2]), v) = Dot(R[2], Rotate(S, v))
      /\ Dot(Rotate(InverseOf(S), R[3]), v) = Dot(R[3], Rotate(S, v))
  BY <1>1, Adjoint
<1>3. /\ Times(R, S)[1] = Rotate(InverseOf(S), R[1])
      /\ Times(R, S)[2] = Rotate(InverseOf(S), R[2])
      /\ Times(R, S)[3] = Rotate(InverseOf(S), R[3])
  BY DEF Times
<1>4. \A M, w : Rotate(M, w) = <<Dot(M[1], w), Dot(M[2], w), Dot(M[3], w)>>
  BY DEF Rotate
<1> QED
  BY <1>2, <1>3, <1>4

LEMMA InverseOfTimes ==
  ASSUME NEW R \in Matrices, NEW S \in Matrices
  PROVE  InverseOf(Times(R, S)) = Times(InverseOf(S), InverseOf(R))
<1> DEFINE s == InverseOf(S)
<1>1. /\ R[1] \in Vectors /\ R[2] \in Vectors /\ R[3] \in Vectors
      /\ s[1] \in Vectors /\ s[2] \in Vectors /\ s[3] \in Vectors
  BY MatrixIs, InverseType
<1>2. \A i, j \in {1, 2, 3} : Dot(s[i], R[j]) = Dot(R[j], s[i])
  BY <1>1, DotCommutes
<1>3. Times(R, S) = <<<<Dot(s[1], R[1]), Dot(s[2], R[1]), Dot(s[3], R[1])>>,
                      <<Dot(s[1], R[2]), Dot(s[2], R[2]), Dot(s[3], R[2])>>,
                      <<Dot(s[1], R[3]), Dot(s[2], R[3]), Dot(s[3], R[3])>>>>
  <2>1. Times(R, S) = <<Rotate(s, R[1]), Rotate(s, R[2]), Rotate(s, R[3])>>
    BY DEF Times
  <2> HIDE DEF s
  <2>2. \A w : Rotate(s, w) = <<Dot(s[1], w), Dot(s[2], w), Dot(s[3], w)>>
    BY DEF Rotate
  <2> QED
    BY <2>1, <2>2
<1>4. Times(s, InverseOf(R)) = <<<<Dot(R[1], s[1]), Dot(R[2], s[1]), Dot(R[3], s[1])>>,
                                 <<Dot(R[1], s[2]), Dot(R[2], s[2]), Dot(R[3], s[2])>>,
                                 <<Dot(R[1], s[3]), Dot(R[2], s[3]), Dot(R[3], s[3])>>>>
  <2> HIDE DEF s
  <2>1. Times(s, InverseOf(R)) = <<Rotate(R, s[1]), Rotate(R, s[2]), Rotate(R, s[3])>>
    BY InverseOfInverse DEF Times
  <2>2. \A w : Rotate(R, w) = <<Dot(R[1], w), Dot(R[2], w), Dot(R[3], w)>>
    BY DEF Rotate
  <2> QED
    BY <2>1, <2>2
<1> HIDE DEF s
<1>5. InverseOf(Times(R, S)) = <<<<Dot(s[1], R[1]), Dot(s[1], R[2]), Dot(s[1], R[3])>>,
                                 <<Dot(s[2], R[1]), Dot(s[2], R[2]), Dot(s[2], R[3])>>,
                                 <<Dot(s[3], R[1]), Dot(s[3], R[2]), Dot(s[3], R[3])>>>>
  BY <1>3 DEF InverseOf
<1> QED
  BY <1>2, <1>4, <1>5 DEF s

LEMMA TimesAssociates ==
  ASSUME NEW R \in Matrices, NEW S \in Matrices, NEW T \in Matrices
  PROVE  Times(Times(R, S), T) = Times(R, Times(S, T))
<1>1. R[1] \in Vectors /\ R[2] \in Vectors /\ R[3] \in Vectors
  BY MatrixIs
<1>2. InverseOf(S) \in Matrices /\ InverseOf(T) \in Matrices
  BY InverseType
<1>3. InverseOf(Times(S, T)) = Times(InverseOf(T), InverseOf(S))
  BY InverseOfTimes
<1>4. \A i \in {1, 2, 3} : Rotate(InverseOf(T), Rotate(InverseOf(S), R[i]))
                             = Rotate(InverseOf(Times(S, T)), R[i])
  BY <1>1, <1>2, <1>3, RotateTimes
<1>5. \A M, N : Times(M, N) = <<Rotate(InverseOf(N), M[1]), Rotate(InverseOf(N), M[2]),
                                Rotate(InverseOf(N), M[3])>>
  BY DEF Times
<1>6. \A i \in {1, 2, 3} : Times(R, S)[i] = Rotate(InverseOf(S), R[i])
  BY <1>5
<1> QED
  BY <1>4, <1>5, <1>6

LEMMA IdentityIs ==
  /\ Identity \in Matrices /\ InverseOf(Identity) = Identity
  /\ \A v \in Vectors : Rotate(Identity, v) = v
<1>1. Identity \in Matrices
  BY DEF Identity, Matrices, Vectors
<1>2. InverseOf(Identity) = Identity
  BY DEF InverseOf, Identity
<1>3. ASSUME NEW v \in Vectors PROVE Rotate(Identity, v) = v
  <2>1. v = <<v[1], v[2], v[3]>> /\ v[1] \in Int /\ v[2] \in Int /\ v[3] \in Int
    BY VectorIs
  <2>2. Dot(<<1, 0, 0>>, v) = v[1] /\ Dot(<<0, 1, 0>>, v) = v[2] /\ Dot(<<0, 0, 1>>, v) = v[3]
    BY <2>1, DotAxis
  <2> QED
    BY <2>1, <2>2 DEF Rotate, Identity
<1> QED
  BY <1>1, <1>2, <1>3

LEMMA IdentityTimes ==
  ASSUME NEW R \in Matrices
  PROVE  Times(Identity, R) = R /\ Times(R, Identity) = R
<1>1. Times(R, Identity) = R
  <2>1. R = <<R[1], R[2], R[3]>> /\ R[1] \in Vectors /\ R[2] \in Vectors /\ R[3] \in Vectors
    BY MatrixIs
  <2> QED
    BY <2>1, IdentityIs DEF Times
<1>2. InverseOf(R) \in Matrices
  BY InverseType
<1>3. Times(InverseOf(R), Identity) = InverseOf(R)
  <2>1. InverseOf(R) = <<InverseOf(R)[1], InverseOf(R)[2], InverseOf(R)[3]>>
        /\ InverseOf(R)[1] \in Vectors /\ InverseOf(R)[2] \in Vectors /\ InverseOf(R)[3] \in Vectors
    BY <1>2, MatrixIs
  <2> QED
    BY <2>1, IdentityIs DEF Times
<1>4. InverseOf(Times(Identity, R)) = InverseOf(R)
  BY <1>3, IdentityIs, InverseOfTimes
<1>5. Times(Identity, R) \in Matrices
  BY IdentityIs, TimesType
<1>6. Times(Identity, R) = R
  BY <1>4, <1>5, InverseOfInverse
<1> QED
  BY <1>1, <1>6

LEMMA OrthogonalInverse ==
  ASSUME NEW R \in Orthogonal
  PROVE  InverseOf(R) \in Orthogonal /\ R \in Matrices
  BY InverseType, InverseOfInverse DEF Orthogonal

LEMMA OrthogonalTimes ==
  ASSUME NEW R \in Orthogonal, NEW S \in Orthogonal
  PROVE  Times(R, S) \in Orthogonal
<1> DEFINE r == InverseOf(R)
           s == InverseOf(S)
<1>1. /\ R \in Matrices /\ S \in Matrices /\ r \in Matrices /\ s \in Matrices
      /\ Times(R, r) = Identity /\ Times(r, R) = Identity
      /\ Times(S, s) = Identity /\ Times(s, S) = Identity
  BY InverseType DEF Orthogonal
<1>2. InverseOf(Times(R, S)) = Times(s, r)
  BY <1>1, InverseOfTimes
<1> HIDE DEF r, s
<1>3. Times(R, S) \in Matrices /\ Times(s, r) \in Matrices
  BY <1>1, TimesType
<1>4. Times(Times(R, S), Times(s, r)) = Identity
  <2>1. Times(Times(R, S), Times(s, r)) = Times(R, Times(S, Times(s, r)))
    BY <1>1, <1>3, TimesAssociates
  <2>2. Times(S, Times(s, r)) = Times(Times(S, s), r)
    BY <1>1, TimesAssociates
  <2>3. Times(Times(S, s), r) = r
    BY <1>1, IdentityTimes
  <2> QED
    BY <1>1, <2>1, <2>2, <2>3
<1>5. Times(Times(s, r), Times(R, S)) = Identity
  <2>1. Times(Times(s, r), Times(R, S)) = Times(s, Times(r, Times(R, S)))
    BY <1>1, <1>3, TimesAssociates
  <2>2. Times(r, Times(R, S)) = Times(Times(r, R), S)
    BY <1>1, TimesAssociates
  <2>3. Times(Times(r, R), S) = S
    BY <1>1, IdentityTimes
  <2> QED
    BY <1>1, <2>1, <2>2, <2>3
<1> QED
  BY <1>2, <1>3, <1>4, <1>5 DEF Orthogonal

\* A rotation and its inverse cancel.
LEMMA Cancels ==
  ASSUME NEW R \in Orthogonal
  PROVE  /\ \A S \in Matrices : /\ Times(InverseOf(R), Times(R, S)) = S
                                /\ Times(R, Times(InverseOf(R), S)) = S
         /\ \A v \in Vectors : /\ Rotate(InverseOf(R), Rotate(R, v)) = v
                               /\ Rotate(R, Rotate(InverseOf(R), v)) = v
<1>1. /\ R \in Matrices /\ InverseOf(R) \in Matrices
      /\ Times(R, InverseOf(R)) = Identity /\ Times(InverseOf(R), R) = Identity
  BY InverseType DEF Orthogonal
<1>2. ASSUME NEW S \in Matrices
      PROVE  Times(InverseOf(R), Times(R, S)) = S /\ Times(R, Times(InverseOf(R), S)) = S
  BY <1>1, TimesAssociates, IdentityTimes
<1>3. ASSUME NEW v \in Vectors
      PROVE  Rotate(InverseOf(R), Rotate(R, v)) = v /\ Rotate(R, Rotate(InverseOf(R), v)) = v
  BY <1>1, RotateTimes, IdentityIs
<1> QED
  BY <1>2, <1>3

LEMMA VectorSums ==
  ASSUME NEW u \in Vectors, NEW v \in Vectors, NEW k \in Int
  PROVE  Plus(u, v) \in Vectors /\ Scaled(k, u) \in Vectors /\ Minus(u, v) \in Vectors
<1>1. /\ u[1] \in Int /\ u[2] \in Int /\ u[3] \in Int
      /\ v[1] \in Int /\ v[2] \in Int /\ v[3] \in Int
  BY VectorIs
<1>2. k * u[1] \in Int /\ k * u[2] \in Int /\ k * u[3] \in Int
  BY <1>1
<1> QED
  BY <1>1, <1>2 DEF Plus, Scaled, Minus, Vectors

LEMMA DotLinear ==
  ASSUME NEW r \in Vectors, NEW u \in Vectors, NEW v \in Vectors, NEW k \in Int
  PROVE  Dot(r, Plus(u, v)) = Dot(r, u) + Dot(r, v) /\ Dot(r, Scaled(k, u)) = k * Dot(r, u)
<1>1. /\ u[1] \in Int /\ u[2] \in Int /\ u[3] \in Int
      /\ v[1] \in Int /\ v[2] \in Int /\ v[3] \in Int
      /\ r[1] \in Int /\ r[2] \in Int /\ r[3] \in Int
  BY VectorIs
<1>2. \A x, y, z \in Int : x * (y + z) = x * y + x * z /\ x * (k * y) = k * (x * y)
  OBVIOUS
<1>3. \A x, y, z \in Int : k * (x + y + z) = k * x + k * y + k * z
  OBVIOUS
<1>4. \A x, y \in Int : x * y \in Int
  OBVIOUS
<1>5. Dot(r, Plus(u, v)) = r[1] * (u[1] + v[1]) + r[2] * (u[2] + v[2]) + r[3] * (u[3] + v[3])
  BY DEF Dot, Plus
<1>6. Dot(r, Scaled(k, u)) = r[1] * (k * u[1]) + r[2] * (k * u[2]) + r[3] * (k * u[3])
  BY DEF Dot, Scaled
<1> QED
  BY <1>1, <1>2, <1>3, <1>4, <1>5, <1>6 DEF Dot

LEMMA RotateLinear ==
  ASSUME NEW R \in Matrices, NEW u \in Vectors, NEW v \in Vectors, NEW k \in Int
  PROVE  /\ Rotate(R, Plus(u, v)) = Plus(Rotate(R, u), Rotate(R, v))
         /\ Rotate(R, Scaled(k, u)) = Scaled(k, Rotate(R, u))
         /\ Rotate(R, Minus(u, v)) = Minus(Rotate(R, u), Rotate(R, v))
<1>1. R[1] \in Vectors /\ R[2] \in Vectors /\ R[3] \in Vectors
  BY MatrixIs
<1>2. ASSUME NEW w \in Vectors, NEW n \in Int
      PROVE  /\ Rotate(R, Plus(u, w)) = Plus(Rotate(R, u), Rotate(R, w))
             /\ Rotate(R, Scaled(n, w)) = Scaled(n, Rotate(R, w))
  <2>1. /\ Dot(R[1], Plus(u, w)) = Dot(R[1], u) + Dot(R[1], w)
        /\ Dot(R[2], Plus(u, w)) = Dot(R[2], u) + Dot(R[2], w)
        /\ Dot(R[3], Plus(u, w)) = Dot(R[3], u) + Dot(R[3], w)
        /\ Dot(R[1], Scaled(n, w)) = n * Dot(R[1], w)
        /\ Dot(R[2], Scaled(n, w)) = n * Dot(R[2], w)
        /\ Dot(R[3], Scaled(n, w)) = n * Dot(R[3], w)
    BY <1>1, <1>2, DotLinear
  <2>2. \A t : /\ Rotate(R, t)[1] = Dot(R[1], t) /\ Rotate(R, t)[2] = Dot(R[2], t)
              /\ Rotate(R, t)[3] = Dot(R[3], t)
              /\ Rotate(R, t) = <<Dot(R[1], t), Dot(R[2], t), Dot(R[3], t)>>
    BY DEF Rotate
  <2>3. Plus(Rotate(R, u), Rotate(R, w)) =
          <<Dot(R[1], u) + Dot(R[1], w), Dot(R[2], u) + Dot(R[2], w), Dot(R[3], u) + Dot(R[3], w)>>
    BY <2>2 DEF Plus
  <2>4. Scaled(n, Rotate(R, w)) = <<n * Dot(R[1], w), n * Dot(R[2], w), n * Dot(R[3], w)>>
    BY <2>2 DEF Scaled
  <2> QED
    BY <2>1, <2>2, <2>3, <2>4
<1>3. Scaled(-1, v) \in Vectors
  BY VectorSums
<1>4. Rotate(R, Minus(u, v)) = Minus(Rotate(R, u), Rotate(R, v))
  BY <1>2, <1>3 DEF Minus
<1> QED
  BY <1>2, <1>4

-----------------------------------------------------------------------------
(* What an odometry is of the pose, under an alignment *)

LEMMA VectorAlgebra ==
  ASSUME NEW u \in Vectors, NEW v \in Vectors, NEW w \in Vectors
  PROVE  /\ Minus(Minus(Plus(u, v), w), v) = Minus(u, w)
         /\ Minus(Minus(u, w), Minus(v, w)) = Minus(u, v)
         /\ Scaled(-1, Scaled(-1, u)) = u
<1>1. /\ u = <<u[1], u[2], u[3]>>
      /\ u[1] \in Int /\ u[2] \in Int /\ u[3] \in Int
      /\ v[1] \in Int /\ v[2] \in Int /\ v[3] \in Int
      /\ w[1] \in Int /\ w[2] \in Int /\ w[3] \in Int
  BY VectorIs
<1> QED
  BY <1>1 DEF Minus, Plus, Scaled

LEMMA ZeroIsVector == Zero \in Vectors
  BY DEF Zero, Vectors

LEMMA ScaledMinus ==
  ASSUME NEW u \in Vectors, NEW v \in Vectors, NEW s \in Int
  PROVE  Scaled(s, Minus(u, v)) = Minus(Scaled(s, u), Scaled(s, v))
<1>1. /\ u[1] \in Int /\ u[2] \in Int /\ u[3] \in Int
      /\ v[1] \in Int /\ v[2] \in Int /\ v[3] \in Int
  BY VectorIs
<1>2. \A a, b \in Int : s * (a + -1 * b) = s * a + -1 * (s * b)
  OBVIOUS
<1> QED
  BY <1>1, <1>2 DEF Minus, Plus, Scaled

LEMMA ConstantsAreTurns ==
  /\ \A A \in Attitudes \cup ImuAttitudes \cup SlamFrames \cup UpFrames : A \in Orthogonal /\ A \in Matrices
  /\ CamToBody \in Orthogonal /\ CamToBody \in Matrices
  /\ OpticalToFrd \in Orthogonal
  /\ Identity \in Orthogonal
<1>1. \A A \in Attitudes \cup ImuAttitudes \cup SlamFrames \cup UpFrames \cup {CameraPitch} :
        A \in Orthogonal
  BY FramesAssumption DEF Turns
<1>2. OpticalToFrd \in Orthogonal
  <2>1. InverseOf(OpticalToFrd) = <<<<0, 1, 0>>, <<0, 0, 1>>, <<1, 0, 0>>>>
    BY DEF InverseOf, OpticalToFrd
  <2>2. Times(OpticalToFrd, InverseOf(OpticalToFrd)) = Identity
    BY OpticalRows, InverseOfInverse, ConstantsAreMatrices
    DEF Times, OpticalToFrd, Identity
  <2>3. Times(InverseOf(OpticalToFrd), OpticalToFrd) = Identity
    BY <2>1, OpticalRows DEF Times, Identity
  <2> QED
    BY <2>2, <2>3, ConstantsAreMatrices DEF Orthogonal
<1>3. Identity \in Orthogonal
  BY IdentityIs, IdentityTimes DEF Orthogonal
<1>4. CamToBody \in Orthogonal
  BY <1>1, <1>2, OrthogonalTimes DEF CamToBody
<1> QED
  BY <1>1, <1>2, <1>3, <1>4, OrthogonalInverse

LEMMA BodyOffsetIs == BodyOffset \in Vectors
  BY PositionsAssumption

\* The lever arm comes off the sensor's position, whatever the alignment.
LEMMA CentreOf ==
  ASSUME NEW K \in Matrices, NEW A \in Matrices, NEW P \in Vectors, NEW c \in Vectors
  PROVE  /\ SensorAt(A, P) \in Vectors
         /\ AtCentre(Times(K, A), Minus(Rotate(K, SensorAt(A, P)), c)) = Minus(Rotate(K, P), c)
<1> DEFINE o == Rotate(A, BodyOffset)
           kp == Rotate(K, P)
           ko == Rotate(K, o)
<1>1. o \in Vectors /\ kp \in Vectors
  BY RotateType, BodyOffsetIs
<1>2. SensorAt(A, P) = Plus(P, o)
  BY DEF SensorAt
<1>3. Rotate(Times(K, A), BodyOffset) = ko
  BY RotateTimes, BodyOffsetIs
<1>4. AtCentre(Times(K, A), Minus(Rotate(K, SensorAt(A, P)), c))
        = Minus(Minus(Rotate(K, Plus(P, o)), c), ko)
  BY <1>2, <1>3 DEF AtCentre
<1> HIDE DEF o
<1>5. ko \in Vectors /\ Rotate(K, Plus(P, o)) = Plus(kp, ko)
  BY <1>1, RotateType, RotateLinear
<1> HIDE DEF kp, ko
<1>6. Minus(Minus(Plus(kp, ko), c), ko) = Minus(kp, c)
  BY <1>1, <1>5, VectorAlgebra
<1> QED
  BY <1>1, <1>2, <1>4, <1>5, <1>6, VectorSums DEF kp

\* Two odometries under one alignment show the vehicle's own motion.
LEMMA MotionBetween ==
  ASSUME NEW K \in Orthogonal, NEW c \in Vectors,
         NEW A \in Orthogonal, NEW P \in Vectors, NEW B \in Orthogonal, NEW Q \in Vectors
  PROVE  /\ Times(InverseOf(Times(K, A)), Times(K, B)) = Times(InverseOf(A), B)
         /\ Rotate(InverseOf(Times(K, A)),
                   Minus(Minus(Rotate(K, Q), c), Minus(Rotate(K, P), c)))
              = Rotate(InverseOf(A), Minus(Q, P))
<1>1. /\ K \in Matrices /\ A \in Matrices /\ B \in Matrices
      /\ InverseOf(K) \in Matrices /\ InverseOf(A) \in Matrices
      /\ Times(K, B) \in Matrices
  BY OrthogonalInverse, InverseType, TimesType
<1>2. InverseOf(Times(K, A)) = Times(InverseOf(A), InverseOf(K))
  BY <1>1, InverseOfTimes
<1>3. Times(InverseOf(Times(K, A)), Times(K, B)) = Times(InverseOf(A), B)
  BY <1>1, <1>2, TimesAssociates, Cancels
<1>4. Minus(Minus(Rotate(K, Q), c), Minus(Rotate(K, P), c)) = Rotate(K, Minus(Q, P))
  <2>1. Rotate(K, Q) \in Vectors /\ Rotate(K, P) \in Vectors
    BY <1>1, RotateType
  <2>2. Rotate(K, Minus(Q, P)) = Minus(Rotate(K, Q), Rotate(K, P))
    BY <1>1, RotateLinear
  <2> QED
    BY <2>1, <2>2, VectorAlgebra
<1>5. Minus(Q, P) \in Vectors /\ Rotate(K, Minus(Q, P)) \in Vectors
  BY <1>1, VectorSums, RotateType
<1>6. Rotate(InverseOf(K), Rotate(K, Minus(Q, P))) = Minus(Q, P)
  BY <1>5, Cancels
<1>7. Rotate(Times(InverseOf(A), InverseOf(K)), Rotate(K, Minus(Q, P)))
        = Rotate(InverseOf(A), Minus(Q, P))
  BY <1>1, <1>5, <1>6, RotateTimes
<1> QED
  BY <1>2, <1>3, <1>4, <1>7

-----------------------------------------------------------------------------
(* The alignment of each node *)

\* The turn from the true NED to the published one, and where its origin is.
TurnOf(src, a) ==
  IF src = "vio" THEN Times(a.q_imu_init, Times(CamToBody, Times(a.q_slam_init, InverseOf(a.frame))))
  ELSE Times(a.R, InverseOf(a.frame))
OriginOf(src, a) ==
  IF src = "vio" THEN Rotate(Times(a.q_imu_init, Times(CamToBody, a.q_slam_init)),
                             Scaled(SlamScale, a.p_wc_init))
  ELSE Rotate(a.R, a.p0)

\* An odometry is a pose as seen under an alignment.
Shows(odometry, src, a, A, P) ==
  /\ odometry.q = Times(TurnOf(src, a), A)
  /\ odometry.p = Minus(Rotate(TurnOf(src, a), P), OriginOf(src, a))

\* What a node keeps of the sample it aligned with.
IsAnchor(src, a) ==
  /\ a.frame \in Orthogonal
  /\ src = "vio" => a.q_imu_init \in Orthogonal /\ a.q_slam_init \in Orthogonal /\ a.p_wc_init \in Vectors
  /\ src # "vio" => a.R \in Orthogonal /\ a.p0 \in Vectors

LEMMA AnchorsAlign ==
  ASSUME NEW src, NEW a, IsAnchor(src, a)
  PROVE  TurnOf(src, a) \in Orthogonal /\ OriginOf(src, a) \in Vectors
<1>0. SlamScale \in Int /\ a.frame \in Orthogonal /\ InverseOf(a.frame) \in Orthogonal
  BY BridgeAssumption, OrthogonalInverse DEF IsAnchor
<1>1. CASE src = "vio"
  <2>1. /\ a.q_imu_init \in Orthogonal /\ a.q_slam_init \in Orthogonal /\ a.p_wc_init \in Vectors
        /\ CamToBody \in Orthogonal
    BY <1>1, ConstantsAreTurns DEF IsAnchor
  <2>2. TurnOf(src, a) \in Orthogonal
    <3>1. Times(a.q_slam_init, InverseOf(a.frame)) \in Orthogonal
      BY <1>0, <2>1, OrthogonalTimes
    <3>2. Times(CamToBody, Times(a.q_slam_init, InverseOf(a.frame))) \in Orthogonal
      BY <2>1, <3>1, OrthogonalTimes
    <3> QED
      BY <1>1, <2>1, <3>2, OrthogonalTimes DEF TurnOf
  <2>3. Times(a.q_imu_init, Times(CamToBody, a.q_slam_init)) \in Matrices
    BY <2>1, OrthogonalInverse, TimesType
  <2>4. Scaled(SlamScale, a.p_wc_init) \in Vectors
    BY <1>0, <2>1, VectorSums
  <2> QED
    BY <1>1, <2>2, <2>3, <2>4, RotateType DEF OriginOf
<1>2. CASE src # "vio"
  <2>1. a.R \in Orthogonal /\ a.R \in Matrices /\ a.p0 \in Vectors
    BY <1>2, OrthogonalInverse DEF IsAnchor
  <2> QED
    BY <1>0, <1>2, <2>1, OrthogonalTimes, RotateType DEF TurnOf, OriginOf
<1> QED
  BY <1>1, <1>2

LEMMA ExactDivision ==
  /\ \A s \in Nat \ {0}, n \in Int : (s * n) \div s = n
  /\ \A s \in Nat \ {0}, n \in Int : n % s = 0 => s * (n \div s) = n
<1>1. ASSUME NEW s \in Nat \ {0}, NEW n \in Int PROVE (s * n) \div s = n
  <2> DEFINE d == (s * n) \div s
             r == (s * n) % s
  <2>1. d \in Int /\ r \in 0 .. (s - 1) /\ s * n = s * d + r
    OBVIOUS
  <2> HIDE DEF d, r
  <2>2. s * (n - d) = r
    BY <2>1
  <2>3. n - d \in Int /\ (n - d >= 1 => s * (n - d) >= s) /\ (n - d =< -1 => s * (n - d) =< -s)
    <3> DEFINE k == n - d
    <3>1. k \in Int
      BY <2>1
    <3> HIDE DEF k
    <3>2. (k >= 1 => s * k >= s) /\ (k =< -1 => s * k =< -s)
      BY <3>1
    <3> QED
      BY <3>1, <3>2 DEF k
  <2>4. n = d
    BY <2>1, <2>2, <2>3
  <2> QED
    BY <2>4 DEF d
<1>2. ASSUME NEW s \in Nat \ {0}, NEW n \in Int, n % s = 0 PROVE s * (n \div s) = n
  BY <1>2
<1> QED
  BY <1>1, <1>2

\* A sensor's position is exact in the units of any map.
LEMMA SensorIsExact ==
  ASSUME NEW F \in Orthogonal, NEW A \in Matrices, NEW P \in Positions
  PROVE  LET metric == Rotate(InverseOf(F), SensorAt(A, P))
             p_wc == [i \in Axes |-> metric[i] \div SlamScale]
         IN  p_wc \in Vectors /\ Scaled(SlamScale, p_wc) = metric
<1> DEFINE metric == Rotate(InverseOf(F), SensorAt(A, P))
           p_wc == [i \in Axes |-> metric[i] \div SlamScale]
           s == SlamScale
           F1 == InverseOf(F)
<1>0. s \in Nat \ {0} /\ s \in Int
  BY BridgeAssumption
<1>1. ASSUME NEW u \in Positions \cup {BodyOffset}
      PROVE  \E w \in Vectors : u = Scaled(s, w)
  <2>1. u \in Vectors /\ \A i \in {1, 2, 3} : u[i] % s = 0
    BY PositionsAssumption DEF Axes
  <2>2. u = <<u[1], u[2], u[3]>> /\ u[1] \in Int /\ u[2] \in Int /\ u[3] \in Int
    BY <2>1, VectorIs
  <2>3. s * (u[1] \div s) = u[1] /\ s * (u[2] \div s) = u[2] /\ s * (u[3] \div s) = u[3]
    BY <1>0, <2>1, <2>2, ExactDivision
  <2>4. <<u[1] \div s, u[2] \div s, u[3] \div s>> \in Vectors
    BY <1>0, <2>2 DEF Vectors
  <2> QED
    BY <2>2, <2>3, <2>4 DEF Scaled
<1>2. PICK x \in Vectors : P = Scaled(s, x)
  BY <1>1
<1>3. PICK o \in Vectors : BodyOffset = Scaled(s, o)
  BY <1>1
<1> DEFINE t == Rotate(A, o)
           y == Plus(x, t)
           w == Rotate(F1, y)
<1>4. /\ F1 \in Matrices /\ t \in Vectors
  BY OrthogonalInverse, InverseType, RotateType
<1>5. y \in Vectors /\ w \in Vectors
  BY <1>4, VectorSums, RotateType
<1>6. metric = Scaled(s, w)
  <2>1. Rotate(A, BodyOffset) = Scaled(s, t)
    BY <1>0, <1>3, RotateLinear
  <2>2. Plus(Scaled(s, x), Scaled(s, t)) = Scaled(s, y)
    <3>1. /\ x[1] \in Int /\ x[2] \in Int /\ x[3] \in Int
          /\ t[1] \in Int /\ t[2] \in Int /\ t[3] \in Int
      BY <1>4, VectorIs
    <3> HIDE DEF t
    <3>2. \A a, b \in Int : s * a + s * b = s * (a + b)
      BY <1>0
    <3> QED
      BY <3>1, <3>2 DEF Plus, Scaled
  <2>3. SensorAt(A, P) = Scaled(s, y)
    BY <1>2, <2>1, <2>2 DEF SensorAt
  <2> QED
    BY <1>0, <1>4, <1>5, <2>3, RotateLinear
<1> HIDE DEF metric, w, s
<1>7. w = <<w[1], w[2], w[3]>> /\ w[1] \in Int /\ w[2] \in Int /\ w[3] \in Int
  BY <1>5, VectorIs
<1>8. metric[1] \div s = w[1] /\ metric[2] \div s = w[2] /\ metric[3] \div s = w[3]
  BY <1>0, <1>6, <1>7, ExactDivision DEF Scaled
<1>9. p_wc = w
  <2>1. p_wc = [i \in 1 .. 3 |-> w[i]]
    BY <1>8 DEF Axes, s
  <2> QED
    BY <1>7, <2>1
<1> QED
  BY <1>5, <1>6, <1>9 DEF metric, s

\* ORB-SLAM3: the deltas from the poses aligned with cancel the map's frame.
LEMMA SlamShows ==
  ASSUME NEW a, IsAnchor("vio", a), NEW A \in Orthogonal, NEW P \in Vectors,
         NEW q_cw, q_cw = Times(InverseOf(CamToBody), Times(InverseOf(A), a.frame)),
         NEW p_wc \in Vectors,
         Scaled(SlamScale, p_wc) = Rotate(InverseOf(a.frame), SensorAt(A, P))
  PROVE  Shows(VioOdometry(q_cw, p_wc, a), "vio", a, A, P)
<1> DEFINE C == CamToBody
           C1 == InverseOf(CamToBody)
           F1 == InverseOf(a.frame)
           Qi == a.q_imu_init
           qs == a.q_slam_init
           K == TurnOf("vio", a)
           W == Times(Qi, Times(C, qs))
           S == SensorAt(A, P)
           s == SlamScale
<1>1. /\ C \in Orthogonal /\ C1 \in Matrices /\ F1 \in Matrices
      /\ Qi \in Matrices /\ qs \in Matrices /\ C \in Matrices
      /\ A \in Matrices /\ a.frame \in Matrices /\ InverseOf(A) \in Matrices
      /\ a.p_wc_init \in Vectors /\ s \in Int
  BY BridgeAssumption, ConstantsAreTurns, OrthogonalInverse, InverseType DEF IsAnchor
<1>2. /\ K = Times(Qi, Times(C, Times(qs, F1))) /\ K \in Matrices
      /\ OriginOf("vio", a) = Rotate(W, Scaled(s, a.p_wc_init))
      /\ OriginOf("vio", a) \in Vectors
  BY AnchorsAlign, OrthogonalInverse DEF TurnOf, OriginOf
<1>3. S \in Vectors
  BY <1>1, CentreOf, ZeroIsVector
<1>4. InverseOf(q_cw) = Times(Times(F1, A), C)
  <2>1. InverseOf(Times(InverseOf(A), a.frame)) = Times(F1, A)
    BY <1>1, InverseOfTimes, InverseOfInverse
  <2>2. Times(InverseOf(A), a.frame) \in Matrices
    BY <1>1, TimesType
  <2> QED
    BY <1>1, <2>1, <2>2, InverseOfTimes, InverseOfInverse
<1> DEFINE q == Times(Qi, Times(C, Times(Times(qs, InverseOf(q_cw)), C1)))
<1>5. q = Times(K, A)
  <2>1. Times(F1, A) \in Matrices /\ Times(qs, Times(F1, A)) \in Matrices
    BY <1>1, TimesType
  <2>2. Times(qs, InverseOf(q_cw)) = Times(Times(qs, Times(F1, A)), C)
    BY <1>1, <1>4, <2>1, TimesAssociates
  <2>3. Times(Times(Times(qs, Times(F1, A)), C), C1) = Times(qs, Times(F1, A))
    <3>1. Times(C, C1) = Identity
      BY <1>1 DEF Orthogonal
    <3> QED
      BY <1>1, <2>1, <3>1, TimesAssociates, IdentityTimes
  <2>4. Times(qs, Times(F1, A)) = Times(Times(qs, F1), A)
    BY <1>1, TimesAssociates
  <2>5. Times(qs, F1) \in Matrices /\ Times(C, Times(qs, F1)) \in Matrices
    BY <1>1, TimesType
  <2>6. Times(C, Times(Times(qs, F1), A)) = Times(Times(C, Times(qs, F1)), A)
    BY <1>1, <2>5, TimesAssociates
  <2>7. Times(Qi, Times(Times(C, Times(qs, F1)), A)) = Times(K, A)
    BY <1>1, <1>2, <2>5, TimesAssociates
  <2> QED
    BY <2>2, <2>3, <2>4, <2>6, <2>7
<1> DEFINE p == Rotate(W, Scaled(s, Minus(p_wc, a.p_wc_init)))
<1>6. p = Minus(Rotate(K, S), OriginOf("vio", a))
  <2>1. W \in Matrices /\ Scaled(s, p_wc) \in Vectors /\ Scaled(s, a.p_wc_init) \in Vectors
    BY <1>1, TimesType, VectorSums
  <2>2. Scaled(s, Minus(p_wc, a.p_wc_init)) = Minus(Scaled(s, p_wc), Scaled(s, a.p_wc_init))
    BY <1>1, ScaledMinus
  <2>3. p = Minus(Rotate(W, Scaled(s, p_wc)), OriginOf("vio", a))
    BY <1>2, <2>1, <2>2, RotateLinear
  <2>4. Rotate(W, Rotate(F1, S)) = Rotate(Times(W, F1), S)
    BY <1>1, <1>3, <2>1, RotateTimes
  <2>5. Times(W, F1) = K
    <3>1. Times(C, qs) \in Matrices
      BY <1>1, TimesType
    <3> QED
      BY <1>1, <1>2, <3>1, TimesAssociates
  <2> QED
    BY <2>3, <2>4, <2>5
<1>7. /\ VioOdometry(q_cw, p_wc, a).q = q
      /\ VioOdometry(q_cw, p_wc, a).p = AtCentre(q, p)
  BY DEF VioOdometry, Odometry
<1>8. AtCentre(Times(K, A), Minus(Rotate(K, S), OriginOf("vio", a)))
        = Minus(Rotate(K, P), OriginOf("vio", a))
  BY <1>1, <1>2, CentreOf
<1> QED
  BY <1>5, <1>6, <1>7, <1>8 DEF Shows

\* The camera's position, as the node recovers it from the pose it is sent.
LEMMA RecoversPosition ==
  ASSUME NEW R \in Orthogonal, NEW p \in Vectors
  PROVE  Scaled(-1, Rotate(InverseOf(R), Scaled(-1, Rotate(R, p)))) = p
<1>1. R \in Matrices /\ InverseOf(R) \in Matrices
  BY OrthogonalInverse, InverseType
<1>2. Rotate(R, p) \in Vectors
  BY <1>1, RotateType
<1>3. Rotate(InverseOf(R), Scaled(-1, Rotate(R, p))) = Scaled(-1, Rotate(InverseOf(R), Rotate(R, p)))
  BY <1>1, <1>2, RotateLinear
<1> QED
  BY <1>3, Cancels, VectorAlgebra

\* The Z-up sources: the node's rows after the source's frame.
LEMMA UprightShows ==
  ASSUME NEW src, src # "vio", NEW a, IsAnchor(src, a), NEW A \in Orthogonal, NEW P \in Vectors,
         NEW odometry,
         odometry.q = Times(a.R, Times(InverseOf(a.frame), A)),
         odometry.p = AtCentre(odometry.q,
                        Rotate(a.R, Minus(Rotate(InverseOf(a.frame), SensorAt(A, P)), a.p0)))
  PROVE  Shows(odometry, src, a, A, P)
<1> DEFINE F1 == InverseOf(a.frame)
           K == TurnOf(src, a)
           S == SensorAt(A, P)
<1>1. /\ a.R \in Matrices /\ F1 \in Matrices /\ A \in Matrices /\ a.p0 \in Vectors
      /\ K = Times(a.R, F1) /\ K \in Matrices
      /\ OriginOf(src, a) = Rotate(a.R, a.p0) /\ OriginOf(src, a) \in Vectors
  BY AnchorsAlign, OrthogonalInverse, InverseType DEF IsAnchor, TurnOf, OriginOf
<1>2. S \in Vectors
  BY <1>1, CentreOf, ZeroIsVector
<1>3. odometry.q = Times(K, A)
  BY <1>1, TimesAssociates
<1>4. Rotate(a.R, Minus(Rotate(F1, S), a.p0)) = Minus(Rotate(K, S), OriginOf(src, a))
  <2>1. Rotate(F1, S) \in Vectors
    BY <1>1, <1>2, RotateType
  <2> QED
    BY <1>1, <1>2, <2>1, RotateLinear, RotateTimes
<1>5. AtCentre(Times(K, A), Minus(Rotate(K, S), OriginOf(src, a)))
        = Minus(Rotate(K, P), OriginOf(src, a))
  BY <1>1, CentreOf
<1> QED
  BY <1>3, <1>4, <1>5 DEF Shows

-----------------------------------------------------------------------------
(* The anchors of the Z-up sources *)

LEMMA UnitIsAxis ==
  ASSUME NEW x \in Int, NEW y \in Int, NEW z \in Int, x * x + y * y + z * z = 1
  PROVE  /\ x \in -1 .. 1 /\ y \in -1 .. 1 /\ z \in -1 .. 1
         /\ z = 0 => (x = 0 /\ y # 0) \/ (x # 0 /\ y = 0)
         /\ z # 0 => x = 0 /\ y = 0
<1>1. \A n \in Int : n * n >= 0 /\ (n * n =< 1 => n \in -1 .. 1) /\ (n # 0 => n * n >= 1)
  <2> SUFFICES ASSUME NEW n \in Int
               PROVE  n * n >= 0 /\ (n * n =< 1 => n \in -1 .. 1) /\ (n # 0 => n * n >= 1)
    OBVIOUS
  <2>1. n >= 2 => n * n >= 4
    OBVIOUS
  <2>2. n =< -2 => n * n >= 4
    OBVIOUS
  <2>3. n \in -1 .. 1 => n = -1 \/ n = 0 \/ n = 1
    OBVIOUS
  <2> QED
    BY <2>1, <2>2, <2>3
<1> DEFINE a == x * x
           b == y * y
           c == z * z
<1>2. a \in Int /\ b \in Int /\ c \in Int /\ a >= 0 /\ b >= 0 /\ c >= 0 /\ a + b + c = 1
  BY <1>1
<1>3. /\ a =< 1 => x \in -1 .. 1
      /\ b =< 1 => y \in -1 .. 1
      /\ c =< 1 => z \in -1 .. 1
      /\ x # 0 => a >= 1
      /\ y # 0 => b >= 1
      /\ z # 0 => c >= 1
      /\ x = 0 => a = 0
      /\ y = 0 => b = 0
      /\ z = 0 => c = 0
  BY <1>1
<1> HIDE DEF a, b, c
<1> QED
  BY <1>2, <1>3

\* The matrices that exchange a level NED and a Z-up frame turned by (m, n).
Over(m, n) == <<<<m, n, 0>>, <<n, -m, 0>>, <<0, 0, -1>>>>

LEMMA OverIs ==
  ASSUME NEW m \in Int, NEW n \in Int, m * m + n * n = 1
  PROVE  /\ Over(m, n) \in Orthogonal /\ AnchorAt(<<m, n, 0>>) = Over(m, n)
         /\ Times(Over(m, n), Over(m, n)) = Identity
<1> DEFINE R == Over(m, n)
<1>1. R \in Matrices /\ InverseOf(R) = R
  BY DEF Over, Matrices, Vectors, InverseOf
<1>2. AnchorAt(<<m, n, 0>>) = R
  <2>1. Cross(<<0, 0, -1>>, <<m, n, 0>>) = <<n, -m, 0>>
    <3> DEFINE d == <<0, 0, -1>>
               u == <<m, n, 0>>
    <3>1. d[1] = 0 /\ d[2] = 0 /\ d[3] = -1 /\ u[1] = m /\ u[2] = n /\ u[3] = 0
      OBVIOUS
    <3>2. 0 * 0 - (-1) * n = n /\ (-1) * m - 0 * 0 = -m /\ 0 * n - 0 * m = 0
      OBVIOUS
    <3> HIDE DEF d, u
    <3>3. Cross(d, u) = <<n, -m, 0>>
      BY <3>1, <3>2 DEF Cross
    <3> QED
      BY <3>3 DEF d, u
  <2> QED
    BY <2>1 DEF AnchorAt, Over
<1>3. ASSUME NEW x \in Int, NEW y \in Int, NEW z \in Int
      PROVE  Rotate(R, <<x, y, z>>) = <<m * x + n * y, n * x + (-m) * y, (-1) * z>>
  <2> DEFINE u == <<x, y, z>>
  <2>1. u[1] = x /\ u[2] = y /\ u[3] = z
    OBVIOUS
  <2>2. R[1] = <<m, n, 0>> /\ R[2] = <<n, -m, 0>> /\ R[3] = <<0, 0, -1>>
    BY DEF Over
  <2> HIDE DEF u
  <2>3. Dot(<<m, n, 0>>, u) = m * x + n * y
    BY <2>1 DEF Dot
  <2>4. Dot(<<n, -m, 0>>, u) = n * x + (-m) * y
    BY <2>1 DEF Dot
  <2>5. Dot(<<0, 0, -1>>, u) = (-1) * z
    BY <2>1 DEF Dot
  <2>6. Rotate(R, u) = <<m * x + n * y, n * x + (-m) * y, (-1) * z>>
    BY <2>2, <2>3, <2>4, <2>5 DEF Rotate
  <2> QED
    BY <2>6 DEF u
<1>4. Times(R, R) = Identity
  <2>1. Times(R, R) = <<Rotate(R, <<m, n, 0>>), Rotate(R, <<n, -m, 0>>), Rotate(R, <<0, 0, -1>>)>>
    BY <1>1 DEF Times, Over
  <2>2. Rotate(R, <<m, n, 0>>) = <<1, 0, 0>>
    <3>1. m * m + n * n = 1 /\ n * m + (-m) * n = 0
      OBVIOUS
    <3> QED
      BY <1>3, <3>1
  <2>3. Rotate(R, <<n, -m, 0>>) = <<0, 1, 0>>
    <3>1. m * n + n * (-m) = 0 /\ n * n + (-m) * (-m) = 1 /\ -m \in Int
      OBVIOUS
    <3> QED
      BY <1>3, <3>1
  <2>4. Rotate(R, <<0, 0, -1>>) = <<0, 0, 1>>
    <3> DEFINE k == -1
    <3>1. k \in Int /\ (-1) * k = 1
      OBVIOUS
    <3>2. m * 0 + n * 0 = 0 /\ n * 0 + (-m) * 0 = 0
      OBVIOUS
    <3> HIDE DEF R, k
    <3>3. Rotate(R, <<0, 0, k>>) = <<m * 0 + n * 0, n * 0 + (-m) * 0, (-1) * k>>
      BY <1>3, <3>1
    <3> QED
      BY <3>1, <3>2, <3>3 DEF k
  <2> QED
    BY <2>1, <2>2, <2>3, <2>4 DEF Identity
<1> QED
  BY <1>1, <1>2, <1>4 DEF Orthogonal

LEMMA ColumnsAre ==
  ASSUME NEW B \in Orthogonal
  PROVE  /\ Rotate(B, <<1, 0, 0>>) = <<B[1][1], B[2][1], B[3][1]>>
         /\ Rotate(B, <<0, 1, 0>>) = <<B[1][2], B[2][2], B[3][2]>>
         /\ B[1][1] * B[1][1] + B[2][1] * B[2][1] + B[3][1] * B[3][1] = 1
         /\ B[1][2] * B[1][2] + B[2][2] * B[2][2] + B[3][2] * B[3][2] = 1
         /\ B[1][2] * B[1][1] + B[2][2] * B[2][1] + B[3][2] * B[3][1] = 0
<1>1. /\ B \in Matrices
      /\ B[1][1] \in Int /\ B[1][2] \in Int /\ B[1][3] \in Int
      /\ B[2][1] \in Int /\ B[2][2] \in Int /\ B[2][3] \in Int
      /\ B[3][1] \in Int /\ B[3][2] \in Int /\ B[3][3] \in Int
  BY OrthogonalInverse, EntriesAre
<1>2. \A r \in Vectors : Dot(r, <<1, 0, 0>>) = r[1] /\ Dot(r, <<0, 1, 0>>) = r[2]
  <2> SUFFICES ASSUME NEW r \in Vectors
               PROVE  Dot(r, <<1, 0, 0>>) = r[1] /\ Dot(r, <<0, 1, 0>>) = r[2]
    OBVIOUS
  <2>1. r = <<r[1], r[2], r[3]>> /\ r[1] \in Int /\ r[2] \in Int /\ r[3] \in Int
    BY VectorIs
  <2>2. <<1, 0, 0>> \in Vectors /\ <<0, 1, 0>> \in Vectors
    BY DEF Vectors
  <2>3. Dot(<<1, 0, 0>>, <<r[1], r[2], r[3]>>) = r[1] /\ Dot(<<0, 1, 0>>, <<r[1], r[2], r[3]>>) = r[2]
    BY <2>1, DotAxis
  <2> QED
    BY <2>1, <2>2, <2>3, DotCommutes
<1>3. /\ Rotate(B, <<1, 0, 0>>) = <<B[1][1], B[2][1], B[3][1]>>
      /\ Rotate(B, <<0, 1, 0>>) = <<B[1][2], B[2][2], B[3][2]>>
  BY <1>1, <1>2, MatrixIs DEF Rotate
<1> DEFINE c1 == <<B[1][1], B[2][1], B[3][1]>>
           c2 == <<B[1][2], B[2][2], B[3][2]>>
           c3 == <<B[1][3], B[2][3], B[3][3]>>
<1>4. InverseOf(B) = <<c1, c2, c3>>
  BY DEF InverseOf
<1>5. Times(InverseOf(B), B) = Identity
  BY DEF Orthogonal
<1>6. Dot(c1, c1) = 1 /\ Dot(c2, c2) = 1 /\ Dot(c2, c1) = 0
  <2> HIDE DEF c1, c2, c3
  <2> DEFINE T == Times(InverseOf(B), B)
  <2>1. T = <<<<Dot(c1, c1), Dot(c2, c1), Dot(c3, c1)>>, <<Dot(c1, c2), Dot(c2, c2), Dot(c3, c2)>>,
              <<Dot(c1, c3), Dot(c2, c3), Dot(c3, c3)>>>>
    <3> DEFINE C == InverseOf(B)
    <3>1. T = <<Rotate(C, C[1]), Rotate(C, C[2]), Rotate(C, C[3])>>
      BY DEF Times
    <3>2. C[1] = c1 /\ C[2] = c2 /\ C[3] = c3
      BY <1>4
    <3> HIDE DEF C, T
    <3>3. \A v : Rotate(C, v) = <<Dot(c1, v), Dot(c2, v), Dot(c3, v)>>
      BY <3>2 DEF Rotate
    <3>4. Rotate(C, c1) = <<Dot(c1, c1), Dot(c2, c1), Dot(c3, c1)>>
      BY <3>3
    <3>5. Rotate(C, c2) = <<Dot(c1, c2), Dot(c2, c2), Dot(c3, c2)>>
      BY <3>3
    <3>6. Rotate(C, c3) = <<Dot(c1, c3), Dot(c2, c3), Dot(c3, c3)>>
      BY <3>3
    <3> QED
      BY <3>1, <3>2, <3>4, <3>5, <3>6
  <2>2. T[1][1] = 1 /\ T[2][2] = 1 /\ T[1][2] = 0
    BY <1>5 DEF Identity
  <2> HIDE DEF T
  <2> QED
    BY <2>1, <2>2
<1> QED
  BY <1>3, <1>6 DEF Dot

LEMMA HeadingIs ==
  ASSUME NEW B \in Orthogonal
  PROVE  LET fwd == Horizontal(Rotate(B, <<1, 0, 0>>))
             alt == Horizontal(Rotate(B, <<0, 1, 0>>))
         IN  /\ fwd # Zero => AnchorAt(fwd) \in Orthogonal
             /\ fwd = Zero => AnchorAt(alt) \in Orthogonal
             /\ B[3][1] = 0 => fwd = <<B[1][1], B[2][1], 0>> /\ fwd # Zero
<1> DEFINE x == B[1][1]
           y == B[2][1]
           z == B[3][1]
           u == B[1][2]
           v == B[2][2]
           w == B[3][2]
<1>1. /\ x \in Int /\ y \in Int /\ z \in Int /\ u \in Int /\ v \in Int /\ w \in Int
  BY OrthogonalInverse, EntriesAre
<1>2. /\ Rotate(B, <<1, 0, 0>>) = <<x, y, z>> /\ Rotate(B, <<0, 1, 0>>) = <<u, v, w>>
      /\ x * x + y * y + z * z = 1 /\ u * u + v * v + w * w = 1 /\ u * x + v * y + w * z = 0
  BY ColumnsAre
<1> HIDE DEF x, y, z, u, v, w
<1>3. \A p, q, r : /\ Horizontal(<<p, q, r>>) = IF p = 0 /\ q = 0 THEN Zero ELSE <<p, q, 0>>
                   /\ Horizontal(<<p, q, r>>) # Zero => ~(p = 0 /\ q = 0)
                   /\ ~(p = 0 /\ q = 0) => <<p, q, 0>> # Zero
  BY DEF Horizontal, Zero
<1>4. \A n \in {-1, 0, 1} : n # 0 => n * n = 1
  OBVIOUS
<1>5. /\ x \in -1 .. 1 /\ y \in -1 .. 1 /\ z \in -1 .. 1
      /\ z = 0 => (x = 0 /\ y # 0) \/ (x # 0 /\ y = 0)
      /\ z # 0 => x = 0 /\ y = 0
      /\ u \in -1 .. 1 /\ v \in -1 .. 1 /\ w \in -1 .. 1
      /\ w = 0 => (u = 0 /\ v # 0) \/ (u # 0 /\ v = 0)
      /\ w # 0 => u = 0 /\ v = 0
  BY <1>1, <1>2, UnitIsAxis
<1>6. CASE z = 0
  <2>1. x * x + y * y = 1 /\ ~(x = 0 /\ y = 0)
    BY <1>1, <1>2, <1>6
  <2>2. Horizontal(<<x, y, z>>) = <<x, y, 0>> /\ <<x, y, 0>> # Zero
    BY <1>3, <2>1
  <2>3. AnchorAt(<<x, y, 0>>) \in Orthogonal
    BY <1>1, <2>1, OverIs
  <2> QED
    BY <1>2, <2>2, <2>3 DEF x, y, z
<1>7. CASE z # 0
  <2>1. x = 0 /\ y = 0
    BY <1>5, <1>7
  <2>2. w = 0
    <3>1. w * z = 0
      BY <1>1, <1>2, <2>1
    <3> QED
      BY <1>1, <1>7, <3>1
  <2>3. u * u + v * v = 1 /\ ~(u = 0 /\ v = 0)
    BY <1>1, <1>2, <2>2
  <2>4. Horizontal(<<x, y, z>>) = Zero /\ Horizontal(<<u, v, w>>) = <<u, v, 0>>
    BY <1>3, <2>1, <2>3
  <2>5. AnchorAt(<<u, v, 0>>) \in Orthogonal
    BY <1>1, <2>3, OverIs
  <2> QED
    BY <1>2, <1>7, <2>4, <2>5 DEF z
<1> QED
  BY <1>6, <1>7

\* A level vehicle, seen from a Z-up frame, is undone by the anchor of its heading.
LEMMA LevelStart ==
  ASSUME NEW f \in UpFrames, NEW A \in Attitudes, A[3] = <<0, 0, 1>>
  PROVE  LET B == Times(InverseOf(f), A)
         IN  B[3][1] = 0 /\ Times(AnchorAt(<<B[1][1], B[2][1], 0>>), B) = Identity
<1> DEFINE B == Times(InverseOf(f), A)
           a == f[1][1]
           b == f[1][2]
           p == A[1][1]
           q == A[1][2]
<1>1. /\ f \in Orthogonal /\ f \in Matrices /\ A \in Orthogonal /\ A \in Matrices
      /\ Cross(f[3], f[1]) = f[2] /\ Cross(A[3], A[1]) = A[2]
      /\ InverseOf(f) \in Orthogonal /\ InverseOf(A) \in Orthogonal /\ B \in Orthogonal
  BY FramesAssumption, OrthogonalInverse, OrthogonalTimes DEF Turns
<1>2. InverseOf(f) = <<<<a, b, 0>>, <<b, -a, 0>>, <<0, 0, -1>>>>
  <2> DEFINE c == f[2][1]
             d == f[2][2]
             x == f[3][1]
             y == f[3][2]
  <2>1. a \in Int /\ b \in Int /\ c \in Int /\ d \in Int /\ x \in Int /\ y \in Int
    BY <1>1, EntriesAre
  <2>2. f[1][3] = 0 /\ f[2][3] = 0 /\ f[3][3] = -1
    BY UpFrameRow DEF InverseOf, Down
  <2>3. /\ f[2] = <<f[3][2] * f[1][3] - f[3][3] * f[1][2], f[3][3] * f[1][1] - f[3][1] * f[1][3],
                    f[3][1] * f[1][2] - f[3][2] * f[1][1]>>
        /\ a * a + c * c + x * x = 1 /\ b * b + d * d + y * y = 1 /\ b * a + d * c + y * x = 0
    BY <1>1, ColumnsAre DEF Cross
  <2>4. c = b /\ d = -a
    <3>1. c = y * 0 - (-1) * b /\ d = (-1) * a - x * 0
      BY <2>2, <2>3
    <3> HIDE DEF a, b, c, d, x, y
    <3> QED
      BY <2>1, <3>1
  <2>5. x = 0 /\ y = 0
    <3> HIDE DEF a, b, c, d, x, y
    <3>1. c * c = b * b /\ d * d = a * a /\ d * c = -(b * a)
      BY <2>1, <2>4
    <3>2. x * x = y * y /\ y * x = 0
      <4>1. a * a + c * c + x * x = 1 /\ b * b + d * d + y * y = 1 /\ b * a + d * c + y * x = 0
        BY <2>3
      <4> DEFINE aa == a * a
                 bb == b * b
                 cc == c * c
                 dd == d * d
                 xx == x * x
                 yy == y * y
                 ba == b * a
                 dc == d * c
                 yx == y * x
      <4>2. /\ aa \in Int /\ bb \in Int /\ xx \in Int /\ yy \in Int
            /\ ba \in Int /\ yx \in Int
        BY <2>1
      <4>3. /\ aa + cc + xx = 1 /\ bb + dd + yy = 1 /\ ba + dc + yx = 0
            /\ cc = bb /\ dd = aa /\ dc = -ba
        BY <3>1, <4>1
      <4> HIDE DEF aa, bb, cc, dd, xx, yy, ba, dc, yx
      <4>4. xx = yy /\ yx = 0
        BY <4>2, <4>3
      <4> QED
        BY <4>4 DEF xx, yy, yx
    <3>3. \A n \in Int : n * n = 0 => n = 0
      OBVIOUS
    <3>4. x = 0 \/ y = 0
      BY <2>1, <3>2
    <3>5. x * x = 0 /\ y * y = 0
      BY <2>1, <3>2, <3>4
    <3> QED
      BY <2>1, <3>3, <3>5
  <2> HIDE DEF a, b
  <2> QED
    BY <2>2, <2>4, <2>5 DEF InverseOf, a, b
<1>3. InverseOf(A) = <<<<p, -q, 0>>, <<q, p, 0>>, <<0, 0, 1>>>>
  <2> DEFINE r == A[2][1]
             s == A[2][2]
             t == A[1][3]
             u == A[2][3]
  <2>1. p \in Int /\ q \in Int /\ r \in Int /\ s \in Int /\ t \in Int /\ u \in Int
    BY <1>1, EntriesAre
  <2>2. A[3][1] = 0 /\ A[3][2] = 0 /\ A[3][3] = 1
    OBVIOUS
  <2>3. A[2] = <<A[3][2] * A[1][3] - A[3][3] * A[1][2], A[3][3] * A[1][1] - A[3][1] * A[1][3],
                 A[3][1] * A[1][2] - A[3][2] * A[1][1]>>
    BY <1>1 DEF Cross
  <2>4. r = -q /\ s = p /\ u = 0
    <3>1. r = 0 * t - 1 * q /\ s = 1 * p - 0 * t /\ u = 0 * q - 0 * p
      BY <2>2, <2>3
    <3> HIDE DEF p, q, r, s, t, u
    <3> QED
      BY <2>1, <3>1
  <2>5. t = 0
    <3>1. p * p + r * r + A[3][1] * A[3][1] = 1
      BY <1>1, ColumnsAre
    <3>2. p * p + q * q + t * t = 1
      <4>1. /\ InverseOf(A)[1][1] = p /\ InverseOf(A)[2][1] = q /\ InverseOf(A)[3][1] = t
        BY DEF InverseOf
      <4> QED
        BY <1>1, <4>1, ColumnsAre
    <3>3. p * p + r * r + 0 * 0 = 1
      BY <2>2, <3>1
    <3> HIDE DEF p, q, r, s, t, u
    <3>4. r * r = q * q
      BY <2>1, <2>4
    <3>5. t * t = 0
      BY <2>1, <3>2, <3>3, <3>4
    <3>6. \A n \in Int : n * n = 0 => n = 0
      OBVIOUS
    <3> QED
      BY <2>1, <3>5, <3>6
  <2> HIDE DEF p, q
  <2> QED
    BY <2>2, <2>4, <2>5 DEF InverseOf, p, q
<1>4. a \in Int /\ b \in Int /\ p \in Int /\ q \in Int
  BY <1>1, EntriesAre
<1> HIDE DEF a, b, p, q
<1> DEFINE m == p * a + (-q) * b
           n == q * a + p * b
<1>5. m \in Int /\ n \in Int
  BY <1>4
<1>6. ASSUME NEW x \in Int, NEW y \in Int, NEW z \in Int
      PROVE  Rotate(InverseOf(A), <<x, y, z>>) = <<p * x + (-q) * y, q * x + p * y, z>>
  <2> DEFINE v == <<x, y, z>>
  <2>1. v[1] = x /\ v[2] = y /\ v[3] = z
    OBVIOUS
  <2> HIDE DEF v
  <2>2. Dot(<<p, -q, 0>>, v) = p * x + (-q) * y
    BY <1>4, <2>1 DEF Dot
  <2>3. Dot(<<q, p, 0>>, v) = q * x + p * y
    BY <1>4, <2>1 DEF Dot
  <2>4. Dot(<<0, 0, 1>>, v) = z
    BY <2>1 DEF Dot
  <2>5. Rotate(InverseOf(A), v) = <<p * x + (-q) * y, q * x + p * y, z>>
    BY <1>3, <2>2, <2>3, <2>4 DEF Rotate
  <2> QED
    BY <2>5 DEF v
<1>7. B = Over(m, n)
  <2>1. B = <<Rotate(InverseOf(A), <<a, b, 0>>), Rotate(InverseOf(A), <<b, -a, 0>>),
              Rotate(InverseOf(A), <<0, 0, -1>>)>>
    BY <1>2 DEF Times
  <2>2. Rotate(InverseOf(A), <<a, b, 0>>) = <<m, n, 0>>
    BY <1>4, <1>6
  <2>3. Rotate(InverseOf(A), <<b, -a, 0>>) = <<n, -m, 0>>
    <3>1. -a \in Int /\ p * b + (-q) * (-a) = n /\ q * b + p * (-a) = -m
      BY <1>4
    <3> QED
      BY <1>4, <1>6, <3>1
  <2>4. Rotate(InverseOf(A), <<0, 0, -1>>) = <<0, 0, -1>>
    <3>1. p * 0 + (-q) * 0 = 0 /\ q * 0 + p * 0 = 0 /\ -1 \in Int
      BY <1>4
    <3> QED
      BY <1>6, <3>1
  <2> QED
    BY <2>1, <2>2, <2>3, <2>4 DEF Over
<1> HIDE DEF m, n, B
<1>8. B[1][1] = m /\ B[2][1] = n /\ B[3][1] = 0
  BY <1>7 DEF Over
<1>9. m * m + n * n = 1
  <2>1. B[1][1] * B[1][1] + B[2][1] * B[2][1] + B[3][1] * B[3][1] = 1
    BY <1>1, ColumnsAre DEF B
  <2>2. m * m + n * n + 0 * 0 = 1
    BY <1>8, <2>1
  <2> QED
    BY <1>5, <2>2
<1>10. Times(AnchorAt(<<m, n, 0>>), B) = Identity
  BY <1>5, <1>7, <1>9, OverIs
<1> QED
  BY <1>8, <1>10 DEF B

LEMMA Negation == \A x \in Int : -x = 0 - x /\ 0 - 0 = 0
  OBVIOUS

\* What the conversions of the Z-up sources leave of a pose.
LEMMA ConversionsCancel ==
  ASSUME NEW F \in Orthogonal, NEW A \in Orthogonal
  PROVE  LET B == Times(InverseOf(F), A)
             q_GI == Times(InverseOf(F), Times(A, OpticalToFrd))
             q_W_B == Times(Times(InverseOf(F), Times(A, RigidBodyInFrd)), BodyToFlu)
         IN  /\ B \in Orthogonal
             /\ Times(q_GI, InverseOf(OpticalToFrd)) = B
             /\ Rotate(q_GI, <<0, 0, 1>>) = Rotate(B, <<1, 0, 0>>)
             /\ Rotate(q_GI, <<1, 0, 0>>) = Rotate(B, <<0, 1, 0>>)
             /\ Times(q_W_B, InverseOf(FluToFrd)) = B
             /\ Rotate(q_W_B, <<1, 0, 0>>) = Rotate(B, <<1, 0, 0>>)
<1> DEFINE F1 == InverseOf(F)
           B == Times(F1, A)
           O == OpticalToFrd
           O1 == InverseOf(OpticalToFrd)
           T == Times(RigidBodyInFrd, BodyToFlu)
           D == InverseOf(FluToFrd)
           e1 == <<1, 0, 0>>
           e2 == <<0, 1, 0>>
           e3 == <<0, 0, 1>>
<1>1. /\ F1 \in Matrices /\ A \in Matrices /\ B \in Orthogonal /\ B \in Matrices
      /\ O \in Matrices /\ O1 \in Matrices /\ RigidBodyInFrd \in Matrices /\ BodyToFlu \in Matrices
      /\ D \in Matrices /\ T \in Matrices
      /\ e1 \in Vectors /\ e2 \in Vectors /\ e3 \in Vectors
  <2>1. e1 \in Vectors /\ e2 \in Vectors /\ e3 \in Vectors
    BY DEF Vectors
  <2> QED
    BY <2>1, OrthogonalInverse, OrthogonalTimes, ConstantsAreMatrices, TimesType
<1>2. Times(F1, Times(A, O)) = Times(B, O)
  BY <1>1, TimesAssociates
<1>3. Times(Times(B, O), O1) = B
  <2>1. Times(O, O1) = Identity
    BY ConstantsAreTurns DEF Orthogonal
  <2> QED
    BY <1>1, <2>1, TimesAssociates, IdentityTimes
<1>4. Rotate(O, e3) = e1 /\ Rotate(O, e1) = e2
  <2>1. InverseOf(O1) = O
    BY <1>1, InverseOfInverse
  <2> QED
    BY <2>1, OpticalRows
<1>5. Rotate(Times(B, O), e3) = Rotate(B, e1) /\ Rotate(Times(B, O), e1) = Rotate(B, e2)
  BY <1>1, <1>4, RotateTimes
<1>6. Times(Times(F1, Times(A, RigidBodyInFrd)), BodyToFlu) = Times(B, T)
  <2>1. Times(F1, Times(A, RigidBodyInFrd)) = Times(B, RigidBodyInFrd)
    BY <1>1, TimesAssociates
  <2> QED
    BY <1>1, <2>1, TimesAssociates
<1>7. T = <<<<1, 0, 0>>, <<0, -1, 0>>, <<0, 0, -1>>>>
  <2> DEFINE k == -1
  <2>1. k \in Int /\ 0 \in Int /\ 0 - k = 1
    OBVIOUS
  <2>2. RigidBodyInFrd = <<<<0, k, 0>>, <<k, 0, 0>>, <<0, 0, k>>>>
    BY DEF RigidBodyInFrd
  <2> HIDE DEF k
  <2>3. \A x, y, z \in Int : Rotate(InverseOf(BodyToFlu), <<x, y, z>>) = <<-y, x, z>>
    BY CaptureRows
  <2>4. T = <<<<-k, 0, 0>>, <<-0, k, 0>>, <<-0, 0, k>>>>
    BY <2>1, <2>2, <2>3 DEF Times
  <2>5. -k = 1 /\ -0 = 0
    BY <2>1, Negation
  <2> QED
    BY <2>4, <2>5 DEF k
<1>8. Times(T, D) = Identity
  <2> DEFINE k == -1
  <2>1. k \in Int /\ 0 \in Int /\ 1 \in Int /\ 0 - k = 1
    OBVIOUS
  <2>2. T = <<<<1, 0, 0>>, <<0, k, 0>>, <<0, 0, k>>>>
    BY <1>7
  <2> HIDE DEF k
  <2>3. \A x, y, z \in Int : Rotate(InverseOf(D), <<x, y, z>>) = <<x, -y, -z>>
    BY CaptureRows
  <2> HIDE DEF T, D
  <2>4. Times(T, D) = <<<<1, -0, -0>>, <<0, -k, -0>>, <<0, -0, -k>>>>
    BY <2>1, <2>2, <2>3 DEF Times
  <2>5. -k = 1 /\ -0 = 0
    BY <2>1, Negation
  <2> QED
    BY <2>4, <2>5 DEF Identity
<1>9. Times(Times(B, T), D) = B
  BY <1>1, <1>8, TimesAssociates, IdentityTimes
<1>10. Rotate(Times(B, T), e1) = Rotate(B, e1)
  <2>1. T[1] = e1 /\ T[2] = <<0, -1, 0>> /\ T[3] = <<0, 0, -1>>
    BY <1>7
  <2>2. Dot(<<1, 0, 0>>, <<1, 0, 0>>) = 1 /\ Dot(<<0, -1, 0>>, <<1, 0, 0>>) = 0
        /\ Dot(<<0, 0, -1>>, <<1, 0, 0>>) = 0
    BY DEF Dot
  <2>3. Rotate(T, e1) = e1
    BY <2>1, <2>2 DEF Rotate
  <2> QED
    BY <1>1, <2>3, RotateTimes
<1> QED
  BY <1>1, <1>2, <1>3, <1>5, <1>6, <1>9, <1>10

-----------------------------------------------------------------------------
(* What PX4 is told is what the vehicle did *)

AlignInv ==
  /\ shown.A \in Orthogonal /\ shown.P \in Vectors
  /\ initialized =>
       /\ IsAnchor(source, anchor)
       /\ source # "vio" => anchor.frame = frame /\ shown.frame = frame
       /\ shown.frame = anchor.frame => Shows(published, source, anchor, shown.A, shown.P)
  /\ source = "optitrack" => prev_ts = shown.ts /\ (prev_ts > 0 => initialized)
  /\ source # "vio" => ready_topic = "none"

\* A sample of a Z-up source, aligned with at the first of them.
UprightSample(A, P, V, ts) ==
  /\ source # "vio" /\ source' = source /\ frame' = frame /\ ready_topic' = ready_topic
  /\ initialized' = TRUE
  /\ shown' = Shown(A, P, V, ts, frame)
  /\ IsAnchor(source, anchor') /\ anchor'.frame = frame
  /\ initialized => anchor' = anchor
  /\ Shows(published', source, anchor', A, P)
  /\ ~initialized /\ A[3] = <<0, 0, 1>> => published'.q = Identity

LEMMA PosesAre ==
  ASSUME NEW A \in Attitudes, NEW P \in Positions
  PROVE  A \in Orthogonal /\ A \in Matrices /\ P \in Vectors
  BY ConstantsAreTurns, PositionsAssumption

LEMMA FrameIs == IInv => frame \in Orthogonal /\ frame \in Matrices
  BY ConstantsAreTurns DEF IInv, BridgeInv, TypeOK

\* Where the first sample sets the anchor, whatever its attitude.
LEMMA AnchorIs ==
  ASSUME IInv, AlignInv, source # "vio", NEW p \in Vectors, NEW north, AnchorOnce(p, north),
         AnchorAt(north) \in Orthogonal
  PROVE  /\ IsAnchor(source, anchor') /\ anchor'.frame = frame /\ initialized' = TRUE
         /\ initialized => anchor' = anchor
         /\ ~initialized => anchor'.R = AnchorAt(north)
  BY FrameIs DEF AnchorOnce, AlignInv, IsAnchor

LEMMA OpenVinsSamples ==
  ASSUME IInv, AlignInv, NEW A \in Attitudes, NEW P \in Positions, NEW V \in Velocities,
         OnOpenVinsOdom(A, P, V)
  PROVE  /\ UprightSample(A, P, V, 0) /\ source = "openvins"
         /\ published'.velocity.dt = 1
         /\ published'.velocity.by = Rotate(TurnOf(source, anchor'), V)
<1> DEFINE msg == MeasureOpenVins(A, P, V)
           F1 == InverseOf(frame)
           B == Times(F1, A)
           fwd == Horizontal(Rotate(msg.q_GI, <<0, 0, 1>>))
           alt == Horizontal(Rotate(msg.q_GI, <<1, 0, 0>>))
           north == IF fwd # Zero THEN fwd ELSE alt
           q == Times(anchor'.R, Times(msg.q_GI, InverseOf(OpticalToFrd)))
           p == Rotate(anchor'.R, Minus(msg.p_GI, anchor'.p0))
           I == Times(A, OpticalToFrd)
           v == Rotate(Times(anchor'.R, msg.q_GI), msg.v_local)
<1>1. /\ A \in Orthogonal /\ A \in Matrices /\ P \in Vectors
      /\ frame \in Orthogonal /\ frame \in Matrices /\ F1 \in Matrices
  BY PosesAre, FrameIs, InverseType
<1>2. /\ source = "openvins" /\ source' = source /\ frame' = frame /\ ready_topic' = ready_topic
      /\ AnchorOnce(msg.p_GI, north)
      /\ published' = Odometry(q, AtCentre(q, p), [by |-> v, dt |-> 1])
      /\ shown' = Shown(A, P, V, 0, frame)
  BY DEF OnOpenVinsOdom, link
<1>3. /\ msg.q_GI = Times(F1, I) /\ msg.p_GI = Rotate(F1, SensorAt(A, P))
      /\ msg.v_local = Rotate(InverseOf(I), V)
  BY DEF MeasureOpenVins
<1>4. /\ B \in Orthogonal /\ Times(msg.q_GI, InverseOf(OpticalToFrd)) = B
      /\ fwd = Horizontal(Rotate(B, <<1, 0, 0>>)) /\ alt = Horizontal(Rotate(B, <<0, 1, 0>>))
  BY <1>1, <1>3, ConversionsCancel
<1>5. AnchorAt(north) \in Orthogonal
  BY <1>4, HeadingIs
<1>6. msg.p_GI \in Vectors
  BY <1>1, <1>3, CentreOf, RotateType, ZeroIsVector
<1> HIDE DEF msg, fwd, alt, north, B
<1>7. /\ IsAnchor(source, anchor') /\ anchor'.frame = frame /\ initialized' = TRUE
      /\ initialized => anchor' = anchor
      /\ ~initialized => anchor'.R = AnchorAt(north)
  BY <1>2, <1>5, <1>6, AnchorIs
<1>8. published'.q = Times(anchor'.R, B) /\ published'.p = AtCentre(published'.q, p)
      /\ published'.velocity.by = v /\ published'.velocity.dt = 1
  BY <1>2, <1>4 DEF Odometry
<1>9. Shows(published', source, anchor', A, P)
  BY <1>1, <1>2, <1>3, <1>7, <1>8, UprightShows DEF B
<1>10. ASSUME ~initialized, A[3] = <<0, 0, 1>> PROVE published'.q = Identity
  <2>1. frame \in UpFrames
    BY <1>2 DEF IInv
  <2>2. B[3][1] = 0 /\ Times(AnchorAt(<<B[1][1], B[2][1], 0>>), B) = Identity
    BY <1>10, <2>1, LevelStart DEF B
  <2>3. north = <<B[1][1], B[2][1], 0>>
    BY <1>4, <2>2, HeadingIs DEF north
  <2> QED
    BY <1>7, <1>8, <1>10, <2>2, <2>3
<1>11. v = Rotate(TurnOf(source, anchor'), V)
  <2>1. /\ I \in Orthogonal /\ I \in Matrices /\ InverseOf(I) \in Matrices /\ V \in Vectors
        /\ anchor'.R \in Matrices
    BY <1>1, <1>2, <1>7, ConstantsAreTurns, OrthogonalTimes, OrthogonalInverse, VelocitiesAssumption
    DEF IsAnchor
  <2> HIDE DEF I, F1
  <2>2. Rotate(InverseOf(I), V) \in Vectors /\ Rotate(I, Rotate(InverseOf(I), V)) = V
    BY <2>1, RotateType, Cancels
  <2>3. /\ Times(anchor'.R, Times(F1, I)) = Times(Times(anchor'.R, F1), I)
        /\ Times(anchor'.R, F1) \in Matrices
    <3>1. F1 \in Matrices /\ I \in Matrices
      BY <1>1, <2>1
    <3>2. \A X \in Matrices :
            Times(X, Times(F1, I)) = Times(Times(X, F1), I) /\ Times(X, F1) \in Matrices
      BY <3>1, TimesAssociates, TimesType
    <3> QED
      BY <2>1, <3>2
  <2>4. Rotate(Times(Times(anchor'.R, F1), I), Rotate(InverseOf(I), V))
          = Rotate(Times(anchor'.R, F1), V)
    BY <2>1, <2>2, <2>3, RotateTimes
  <2>5. v = Rotate(Times(anchor'.R, F1), V)
    BY <1>3, <2>3, <2>4
  <2> QED
    BY <1>2, <1>7, <2>5 DEF TurnOf, F1
<1> QED
  BY <1>2, <1>7, <1>8, <1>9, <1>10, <1>11 DEF UprightSample

LEMMA OptitrackSamples ==
  ASSUME IInv, AlignInv, NEW A \in Attitudes, NEW P \in Positions, NEW ts \in 1 .. MaxStamp,
         OnOptitrackPose(A, P, ts)
  PROVE  /\ UprightSample(A, P, Zero, ts) /\ source = "optitrack" /\ prev_ts' = ts
         /\ published'.velocity = FiniteDifference(ts, published'.p)
<1> DEFINE msg == MeasureOptitrack(A, P)
           F1 == InverseOf(frame)
           B == Times(F1, A)
           q_W_B == Times(msg.q_W_B, BodyToFlu)
           fwd == Horizontal(Rotate(q_W_B, <<1, 0, 0>>))
           north == IF fwd # Zero THEN fwd ELSE <<1, 0, 0>>
           q == Times(anchor'.R, Times(q_W_B, InverseOf(FluToFrd)))
           p == Rotate(anchor'.R, Minus(msg.p_W, anchor'.p0))
<1>1. /\ A \in Orthogonal /\ A \in Matrices /\ P \in Vectors
      /\ frame \in Orthogonal /\ frame \in Matrices /\ F1 \in Matrices
  BY PosesAre, FrameIs, InverseType
<1>2. /\ source = "optitrack" /\ source' = source /\ frame' = frame /\ prev_ts' = ts
      /\ ready_topic' = ready_topic
      /\ AnchorOnce(msg.p_W, north)
      /\ published' = Odometry(q, AtCentre(q, p), FiniteDifference(ts, AtCentre(q, p)))
      /\ shown' = Shown(A, P, Zero, ts, frame)
  BY DEF OnOptitrackPose, link
<1>3. /\ q_W_B = Times(Times(F1, Times(A, RigidBodyInFrd)), BodyToFlu)
      /\ msg.p_W = Rotate(F1, SensorAt(A, P))
  BY DEF MeasureOptitrack
<1>4. /\ B \in Orthogonal /\ Times(q_W_B, InverseOf(FluToFrd)) = B
      /\ fwd = Horizontal(Rotate(B, <<1, 0, 0>>))
  BY <1>1, <1>3, ConversionsCancel
<1>5. AnchorAt(north) \in Orthogonal
  <2>1. AnchorAt(<<1, 0, 0>>) \in Orthogonal
    <3>1. 1 * 1 + 0 * 0 = 1 /\ 1 \in Int /\ 0 \in Int
      OBVIOUS
    <3> QED
      BY <3>1, OverIs
  <2> QED
    BY <1>4, <2>1, HeadingIs
<1>6. msg.p_W \in Vectors
  BY <1>1, <1>3, CentreOf, RotateType, ZeroIsVector
<1> HIDE DEF msg, q_W_B, fwd, north, B
<1>7. /\ IsAnchor(source, anchor') /\ anchor'.frame = frame /\ initialized' = TRUE
      /\ initialized => anchor' = anchor
      /\ ~initialized => anchor'.R = AnchorAt(north)
  BY <1>2, <1>5, <1>6, AnchorIs
<1>8. published'.q = Times(anchor'.R, B) /\ published'.p = AtCentre(published'.q, p)
      /\ published'.velocity = FiniteDifference(ts, published'.p)
  BY <1>2, <1>4 DEF Odometry
<1>9. Shows(published', source, anchor', A, P)
  BY <1>1, <1>2, <1>3, <1>7, <1>8, UprightShows DEF B
<1>10. ASSUME ~initialized, A[3] = <<0, 0, 1>> PROVE published'.q = Identity
  <2>1. frame \in UpFrames
    BY <1>2 DEF IInv
  <2>2. B[3][1] = 0 /\ Times(AnchorAt(<<B[1][1], B[2][1], 0>>), B) = Identity
    BY <1>10, <2>1, LevelStart DEF B
  <2>3. north = <<B[1][1], B[2][1], 0>>
    BY <1>4, <2>2, HeadingIs DEF north
  <2> QED
    BY <1>7, <1>8, <1>10, <2>2, <2>3
<1> QED
  BY <1>2, <1>7, <1>8, <1>9, <1>10 DEF UprightSample

\* A sample of ORB-SLAM3, aligned with once the map has settled.
SlamSample(A, P) ==
  /\ source = "vio" /\ source' = source /\ frame' = frame
  /\ initialized' = TRUE
  /\ shown' = Shown(A, P, Zero, 0, anchor'.frame)
  /\ IsAnchor(source, anchor')
  /\ initialized => anchor' = anchor
  /\ anchor'.frame = frame => Shows(published', source, anchor', A, P)
  /\ published'.velocity = NoVelocity

LEMMA SlamSamples ==
  ASSUME IInv, AlignInv, NEW A \in Attitudes, NEW P \in Positions, OnSlamPose(A, P)
  PROVE  \/ SlamSample(A, P)
         \/ source = "vio" /\ UNCHANGED <<source, frame, initialized, anchor, published, shown, prev_ts>>
<1> DEFINE msg == MeasureSlam(A, P)
           R_cw == Times(InverseOf(CamToBody), Times(InverseOf(A), frame))
           metric == Rotate(InverseOf(frame), SensorAt(A, P))
           p0 == [i \in Axes |-> metric[i] \div SlamScale]
           p_wc == Scaled(-1, Rotate(InverseOf(msg.q_cw), msg.t_cw))
           lock == [q_imu_init |-> q_imu, q_slam_init |-> msg.q_cw, p_wc_init |-> p_wc, frame |-> frame]
<1>1. /\ A \in Orthogonal /\ A \in Matrices /\ P \in Vectors
      /\ frame \in Orthogonal /\ frame \in Matrices
  BY PosesAre, FrameIs
<1>2. msg.q_cw = R_cw /\ msg.t_cw = Scaled(-1, Rotate(R_cw, p0))
  BY DEF MeasureSlam
<1>3. R_cw \in Orthogonal
  <2>1. Times(InverseOf(A), frame) \in Orthogonal
    BY <1>1, OrthogonalInverse, OrthogonalTimes
  <2> QED
    BY <2>1, ConstantsAreTurns, OrthogonalInverse, OrthogonalTimes
<1>4. p0 \in Vectors /\ Scaled(SlamScale, p0) = metric
  BY <1>1, SensorIsExact
<1>5. p_wc = p0
  BY <1>2, <1>3, <1>4, RecoversPosition
<1>6. /\ source = "vio" /\ q_imu # NotYet /\ source' = source /\ frame' = frame /\ prev_ts' = prev_ts
      /\ \/ /\ initialized
            /\ published' = VioOdometry(msg.q_cw, p_wc, anchor)
            /\ shown' = Shown(A, P, Zero, 0, anchor.frame)
            /\ initialized' = initialized /\ anchor' = anchor
         \/ /\ ~initialized
            /\ UNCHANGED <<initialized, anchor, published, shown>>
         \/ /\ ~initialized
            /\ initialized' = TRUE
            /\ anchor' = lock
            /\ published' = VioOdometry(msg.q_cw, p_wc, lock)
            /\ shown' = Shown(A, P, Zero, 0, frame)
  BY DEF OnSlamPose, link, align
<1>7. q_imu \in Orthogonal
  BY <1>6, ConstantsAreTurns DEF IInv, BridgeInv, TypeOK
<1> HIDE DEF msg, R_cw, metric, p0, p_wc
<1>8. IsAnchor("vio", lock) /\ lock.frame = frame
  BY <1>1, <1>2, <1>3, <1>4, <1>5, <1>7 DEF IsAnchor
<1> HIDE DEF lock
<1>9. ASSUME NEW a, IsAnchor("vio", a)
      PROVE  /\ VioOdometry(msg.q_cw, p_wc, a).velocity = NoVelocity
             /\ a.frame = frame => Shows(VioOdometry(msg.q_cw, p_wc, a), "vio", a, A, P)
  <2>1. VioOdometry(msg.q_cw, p_wc, a).velocity = NoVelocity
    BY DEF VioOdometry, Odometry
  <2>2. ASSUME a.frame = frame PROVE Shows(VioOdometry(msg.q_cw, p_wc, a), "vio", a, A, P)
    <3>1. msg.q_cw = Times(InverseOf(CamToBody), Times(InverseOf(A), a.frame))
      BY <1>2, <2>2 DEF R_cw
    <3>2. p_wc \in Vectors /\ Scaled(SlamScale, p_wc) = Rotate(InverseOf(a.frame), SensorAt(A, P))
      BY <1>4, <1>5, <2>2 DEF metric
    <3> QED
      BY <1>1, <1>9, <3>1, <3>2, SlamShows
  <2> QED
    BY <2>1, <2>2
<1>10. CASE initialized /\ initialized' = initialized
  <2>1. /\ anchor' = anchor /\ shown' = Shown(A, P, Zero, 0, anchor.frame) /\ initialized' = TRUE
        /\ published' = VioOdometry(msg.q_cw, p_wc, anchor)
    BY <1>6, <1>10 DEF IInv, BridgeInv, TypeOK
  <2>2. IsAnchor("vio", anchor)
    BY <1>6, <1>10 DEF AlignInv
  <2> QED
    BY <1>6, <1>9, <1>10, <2>1, <2>2 DEF SlamSample
<1>11. CASE ~initialized /\ anchor' = lock /\ initialized' = TRUE
            /\ published' = VioOdometry(msg.q_cw, p_wc, lock) /\ shown' = Shown(A, P, Zero, 0, frame)
  BY <1>6, <1>8, <1>9, <1>11 DEF SlamSample
<1> QED
  BY <1>6, <1>10, <1>11

LEMMA ShownIs ==
  ASSUME NEW A, NEW P, NEW V, NEW ts, NEW lock
  PROVE  /\ Shown(A, P, V, ts, lock).A = A /\ Shown(A, P, V, ts, lock).P = P
         /\ Shown(A, P, V, ts, lock).V = V
         /\ Shown(A, P, V, ts, lock).ts = ts /\ Shown(A, P, V, ts, lock).frame = frame
         /\ Shown(A, P, V, ts, lock).lock = lock
  BY DEF Shown

LEMMA InitAlignInv == Init => AlignInv
  BY ConstantsAreTurns, ZeroIsVector, ShownIs DEF Init, AlignInv

LEMMA StepAlignInv == IInv /\ AlignInv /\ [Next]_vars => AlignInv'
<1> SUFFICES ASSUME IInv, AlignInv, [Next]_vars PROVE AlignInv'
  OBVIOUS
<1>1. CASE OnReady
  <2>1. /\ source' = source /\ frame' = frame /\ anchor' = anchor /\ published' = published
        /\ prev_ts' = prev_ts /\ shown' = shown /\ (initialized' = FALSE \/ initialized' = initialized)
    BY <1>1 DEF OnReady
  <2>2. source = "vio"
    BY <1>1 DEF OnReady, AlignInv
  <2> QED
    BY <2>1, <2>2 DEF AlignInv, IsAnchor, Shows
<1>2. CASE SlamMetric
  BY <1>2 DEF SlamMetric, align, AlignInv, IsAnchor, Shows
<1>3. CASE \E f \in SlamFrames : SlamNewMap(f)
  BY <1>3 DEF SlamNewMap, align, AlignInv, IsAnchor, Shows
<1>4. CASE \E A \in ImuAttitudes : OnAttitude(A)
  BY <1>4 DEF OnAttitude, align, link, AlignInv, IsAnchor, Shows
<1>5. CASE \E A \in Attitudes, P \in Positions : Sample(A, P)
  <2>1. PICK A \in Attitudes, P \in Positions : Sample(A, P)
    BY <1>5
  <2>2. A \in Orthogonal /\ P \in Vectors
    BY PosesAre
  <2>3. CASE OnSlamPose(A, P)
    <3>1. CASE SlamSample(A, P)
      BY <2>2, <3>1, ShownIs DEF SlamSample, AlignInv
    <3>2. CASE source = "vio" /\ UNCHANGED <<source, frame, initialized, anchor, published, shown, prev_ts>>
      BY <3>2 DEF AlignInv, IsAnchor, Shows
    <3> QED
      BY <2>3, <3>1, <3>2, SlamSamples
  <2>4. ASSUME NEW V, NEW ts, UprightSample(A, P, V, ts), source = "optitrack" => prev_ts' = ts
        PROVE  AlignInv'
    <3>1. /\ shown'.A = A /\ shown'.P = P /\ shown'.frame = frame /\ shown'.ts = ts
          /\ source' = source /\ frame' = frame /\ source # "vio" /\ ready_topic' = ready_topic
          /\ initialized' = TRUE /\ IsAnchor(source, anchor') /\ anchor'.frame = frame
          /\ Shows(published', source, anchor', A, P)
      BY <2>4, ShownIs DEF UprightSample
    <3>2. source' = "optitrack" => prev_ts' = shown'.ts
      BY <2>4, <3>1
    <3>3. shown'.A \in Orthogonal /\ shown'.P \in Vectors
      BY <2>2, <3>1
    <3>4. ready_topic' = "none"
      BY <3>1 DEF AlignInv
    <3>5. IsAnchor(source', anchor') /\ Shows(published', source', anchor', shown'.A, shown'.P)
      BY <3>1
    <3> QED
      BY <3>1, <3>2, <3>3, <3>4, <3>5 DEF AlignInv
  <2>5. CASE \E V \in Velocities : OnOpenVinsOdom(A, P, V)
    BY <2>4, <2>5, OpenVinsSamples
  <2>6. CASE \E ts \in 1 .. MaxStamp : OnOptitrackPose(A, P, ts)
    BY <2>4, <2>6, OptitrackSamples
  <2> QED
    BY <2>1, <2>3, <2>5, <2>6 DEF Sample
<1>6. CASE UNCHANGED vars
  BY <1>6 DEF vars, link, align, AlignInv, IsAnchor, Shows
<1> QED
  BY <1>1, <1>2, <1>3, <1>4, <1>5, <1>6 DEF Next, Slam

\* What a bridge publishes is the vehicle's pose under one turn and one origin,
\* from the sample it aligned with on. (the three pose callbacks)
THEOREM AlignmentInvariance == Spec => [](IInv /\ AlignInv)
<1>1. Init => IInv /\ AlignInv
  BY InitIInv, InitAlignInv
<1>2. (IInv /\ AlignInv) /\ [Next]_vars => (IInv /\ AlignInv)'
  BY StepIInv, StepAlignInv
<1> QED
  BY <1>1, <1>2, PTL DEF Spec

LEMMA MotionShown ==
  ASSUME IInv, AlignInv, NEW A \in Orthogonal, NEW P \in Vectors,
         initialized, shown.frame = anchor.frame, Shows(published', source, anchor, A, P)
  PROVE  /\ Times(InverseOf(published.q), published'.q) = Times(InverseOf(shown.A), A)
         /\ Rotate(InverseOf(published.q), Minus(published'.p, published.p)) =
              Rotate(InverseOf(shown.A), Minus(P, shown.P))
<1>1. /\ Shows(published, source, anchor, shown.A, shown.P) /\ IsAnchor(source, anchor)
      /\ shown.A \in Orthogonal /\ shown.P \in Vectors
  BY DEF AlignInv
<1>2. TurnOf(source, anchor) \in Orthogonal /\ OriginOf(source, anchor) \in Vectors
  BY <1>1, AnchorsAlign
<1> QED
  BY <1>1, <1>2, MotionBetween DEF Shows

\* What is turned along with the vehicle looks the same from its body.
LEMMA SeenFromBody ==
  ASSUME NEW K \in Orthogonal, NEW A \in Orthogonal, NEW v \in Vectors
  PROVE  Rotate(InverseOf(Times(K, A)), Rotate(K, v)) = Rotate(InverseOf(A), v)
<1>1. /\ K \in Matrices /\ A \in Matrices /\ InverseOf(K) \in Matrices /\ InverseOf(A) \in Matrices
      /\ Rotate(K, v) \in Vectors
  BY OrthogonalInverse, InverseType, RotateType
<1>2. InverseOf(Times(K, A)) = Times(InverseOf(A), InverseOf(K))
  BY <1>1, InverseOfTimes
<1>3. Rotate(InverseOf(K), Rotate(K, v)) = v
  BY Cancels
<1> QED
  BY <1>1, <1>2, <1>3, RotateTimes

LEMMA WrapsAround ==
  ASSUME NEW ts \in 1 .. MaxStamp, NEW prev \in 0 .. MaxStamp,
         0 < (ts - prev) % Word, (ts - prev) % Word < MaxGap
  PROVE  ts > prev /\ (ts - prev) % Word = ts - prev
<1>1. /\ MaxStamp \in Nat /\ MaxGap \in Nat /\ Word \in Nat \ {0} /\ MaxStamp + MaxGap < Word
  BY BridgeAssumption
<1>2. ts \in Int /\ prev \in Int /\ 1 =< ts /\ ts =< MaxStamp /\ 0 =< prev /\ prev =< MaxStamp
  BY <1>1
<1>3. CASE ts >= prev
  <2>1. ts - prev \in 0 .. (Word - 1)
    BY <1>1, <1>2, <1>3
  <2> DEFINE d == ts - prev
  <2> HIDE DEF d
  <2>2. d \in 0 .. (Word - 1) => d % Word = d
    BY <1>1
  <2>3. (ts - prev) % Word = ts - prev
    BY <2>1, <2>2 DEF d
  <2> QED
    BY <1>2, <2>3
<1>4. CASE ts < prev
  <2> DEFINE d == ts - prev
             e == d + Word
  <2>1. d \in Int /\ e \in 0 .. (Word - 1) /\ e > MaxGap
    BY <1>1, <1>2, <1>4
  <2> HIDE DEF d
  <2>2. d % Word = e
    BY <1>1, <2>1
  <2> QED
    BY <1>1, <2>1, <2>2 DEF d
<1> QED
  BY <1>2, <1>3, <1>4

\* Whatever the attitudes, frames, lever arm, camera tilt and map scale, two
\* odometries of one alignment show the motion the vehicle made, a level start has
\* zero yaw, a finite difference is of samples in order, and OpenVINS's velocity is
\* the IMU's at whatever attitude. (the three pose callbacks)
THEOREM MotionIsTrue == Spec => OdometryIsTrue
<1> DEFINE True == published' # published => /\ RigidMotion /\ StartsNorth
                                             /\ VelocityOfOrderedSamples /\ VelocityOfTheImu
<1>1. (IInv /\ AlignInv) /\ [Next]_vars => [True]_vars
  <2> SUFFICES ASSUME IInv, AlignInv, [Next]_vars, published' # published
               PROVE  RigidMotion /\ StartsNorth /\ VelocityOfOrderedSamples /\ VelocityOfTheImu
    OBVIOUS
  <2>1. PICK A \in Attitudes, P \in Positions : Sample(A, P)
    BY DEF Next, Slam, vars, OnReady, SlamMetric, SlamNewMap, OnAttitude
  <2>2. A \in Orthogonal /\ P \in Vectors
    BY PosesAre
  <2>3. CASE OnSlamPose(A, P)
    <3>1. SlamSample(A, P)
      BY <2>3, SlamSamples
    <3>2. /\ shown'.A = A /\ shown'.P = P /\ shown'.frame = frame /\ shown'.lock = anchor'.frame
      BY <3>1, ShownIs DEF SlamSample
    <3>3. RigidMotion
      <4> SUFFICES ASSUME initialized, shown'.frame = shown'.lock, shown.frame = shown'.lock
                   PROVE  /\ Times(InverseOf(published.q), published'.q) = Times(InverseOf(shown.A), A)
                          /\ Rotate(InverseOf(published.q), Minus(published'.p, published.p)) =
                               Rotate(InverseOf(shown.A), Minus(P, shown.P))
        BY <3>2 DEF RigidMotion
      <4>1. anchor' = anchor /\ shown.frame = anchor.frame /\ Shows(published', source, anchor, A, P)
        BY <3>1, <3>2 DEF SlamSample
      <4> QED
        BY <2>2, <4>1, MotionShown
    <3>4. StartsNorth /\ VelocityOfOrderedSamples /\ VelocityOfTheImu
      BY <3>1 DEF SlamSample, StartsNorth, VelocityOfOrderedSamples, VelocityOfTheImu
    <3> QED
      BY <3>3, <3>4
  <2>4. ASSUME NEW V, NEW ts, UprightSample(A, P, V, ts)
        PROVE  /\ RigidMotion /\ StartsNorth
               /\ shown'.A = A /\ shown'.P = P /\ shown'.V = V /\ shown'.ts = ts
               /\ initialized => Rotate(InverseOf(published.q), Minus(published'.p, published.p)) =
                                   Rotate(InverseOf(shown.A), Minus(P, shown.P))
    <3>1. /\ shown'.A = A /\ shown'.P = P /\ shown'.frame = frame /\ shown'.lock = frame
          /\ shown'.V = V /\ shown'.ts = ts
      BY <2>4, ShownIs DEF UprightSample
    <3>2. StartsNorth
      BY <2>4, <3>1 DEF UprightSample, StartsNorth
    <3>3. ASSUME initialized
          PROVE  /\ Times(InverseOf(published.q), published'.q) = Times(InverseOf(shown.A), A)
                 /\ Rotate(InverseOf(published.q), Minus(published'.p, published.p)) =
                      Rotate(InverseOf(shown.A), Minus(P, shown.P))
      <4>1. shown.frame = anchor.frame /\ Shows(published', source, anchor, A, P)
        BY <2>4, <3>3 DEF UprightSample, AlignInv
      <4> QED
        BY <2>2, <3>3, <4>1, MotionShown
    <3>4. RigidMotion
      BY <3>1, <3>3 DEF RigidMotion
    <3> QED
      BY <3>1, <3>2, <3>3, <3>4
  <2>5. CASE \E V \in Velocities : OnOpenVinsOdom(A, P, V)
    <3>1. PICK V \in Velocities : OnOpenVinsOdom(A, P, V)
      BY <2>5
    <3>2. /\ UprightSample(A, P, V, 0) /\ source = "openvins"
          /\ published'.velocity.dt = 1
          /\ published'.velocity.by = Rotate(TurnOf(source, anchor'), V)
      BY <3>1, OpenVinsSamples
    <3>3. /\ TurnOf(source, anchor') \in Orthogonal /\ V \in Vectors
          /\ published'.q = Times(TurnOf(source, anchor'), A)
      BY <3>2, AnchorsAlign, VelocitiesAssumption DEF UprightSample, Shows
    <3>4. Rotate(InverseOf(published'.q), published'.velocity.by) = Rotate(InverseOf(A), V)
      BY <2>2, <3>2, <3>3, SeenFromBody
    <3>5. shown'.A = A /\ shown'.V = V /\ RigidMotion /\ StartsNorth
      BY <2>4, <3>2
    <3> QED
      BY <3>2, <3>4, <3>5 DEF VelocityOfOrderedSamples, VelocityOfTheImu
  <2>6. CASE \E ts \in 1 .. MaxStamp : OnOptitrackPose(A, P, ts)
    <3>1. PICK ts \in 1 .. MaxStamp : OnOptitrackPose(A, P, ts)
      BY <2>6
    <3>2. /\ UprightSample(A, P, Zero, ts) /\ source = "optitrack"
          /\ published'.velocity = FiniteDifference(ts, published'.p)
      BY <3>1, OptitrackSamples
    <3>3. VelocityOfOrderedSamples
      <4> SUFFICES ASSUME published'.velocity # NoVelocity
                   PROVE  /\ ts > shown.ts /\ published'.velocity.dt = ts - shown.ts
                          /\ Rotate(InverseOf(published.q), published'.velocity.by) =
                               Rotate(InverseOf(shown.A), Minus(P, shown.P))
        BY <2>4, <3>2 DEF VelocityOfOrderedSamples
      <4>1. /\ prev_ts > 0 /\ 0 < (ts - prev_ts) % Word /\ (ts - prev_ts) % Word < MaxGap
            /\ published'.velocity.by = Minus(published'.p, published.p)
            /\ published'.velocity.dt = (ts - prev_ts) % Word
        BY <3>2 DEF FiniteDifference
      <4>2. prev_ts = shown.ts /\ initialized /\ prev_ts \in 0 .. MaxStamp
        BY <3>2, <4>1 DEF AlignInv, IInv, BridgeInv, TypeOK
      <4>3. ts > prev_ts /\ (ts - prev_ts) % Word = ts - prev_ts
        BY <4>1, <4>2, WrapsAround
      <4> QED
        BY <2>4, <3>2, <4>1, <4>2, <4>3
    <3> QED
      BY <2>4, <3>2, <3>3 DEF VelocityOfTheImu
  <2> QED
    BY <2>1, <2>3, <2>5, <2>6 DEF Sample
<1> QED
  BY <1>1, AlignmentInvariance, PTL DEF Spec, OdometryIsTrue

-----------------------------------------------------------------------------
(* The walk along a guide path *)

LEMMA DotOfMinus ==
  ASSUME NEW u \in Vectors, NEW v \in Vectors, NEW n \in Vectors
  PROVE  /\ Dot(Minus(u, v), n) = Dot(u, n) - Dot(v, n)
         /\ Dot(u, n) \in Int /\ Dot(v, n) \in Int
<1>1. Scaled(-1, v) \in Vectors /\ Minus(u, v) \in Vectors
  BY VectorSums
<1>2. /\ Dot(n, Minus(u, v)) = Dot(n, u) + Dot(n, Scaled(-1, v))
      /\ Dot(n, Scaled(-1, v)) = (-1) * Dot(n, v)
  <2>1. -1 \in Int
    OBVIOUS
  <2>2. \A k \in Int : Dot(n, Scaled(k, v)) = k * Dot(n, v)
    BY DotLinear
  <2>3. Dot(n, Plus(u, Scaled(-1, v))) = Dot(n, u) + Dot(n, Scaled(-1, v))
    BY <1>1, <2>1, DotLinear
  <2>4. Dot(n, Scaled(-1, v)) = (-1) * Dot(n, v)
    BY <2>1, <2>2
  <2>5. Dot(n, Minus(u, v)) = Dot(n, u) + Dot(n, Scaled(-1, v))
    BY <2>3 DEF Minus
  <2> QED
    BY <2>4, <2>5
<1>3. /\ Dot(n, u) = Dot(u, n) /\ Dot(n, v) = Dot(v, n)
      /\ Dot(n, Minus(u, v)) = Dot(Minus(u, v), n)
  BY <1>1, DotCommutes
<1>4. Dot(u, n) \in Int /\ Dot(v, n) \in Int
  BY DotType
<1> QED
  BY <1>2, <1>3, <1>4

Scenery(pts, way) ==
  /\ pts \in Seq(Vectors) /\ Len(pts) >= 2
  /\ way \in Seq(Vectors) /\ Len(way) >= 2

LEMMA PlaneIs ==
  ASSUME NEW pts \in Seq(Vectors), Len(pts) >= 2, NEW j \in PlanesOf(pts)
  PROVE  /\ Normal(pts, j) \in Vectors /\ Twice(pts, j) \in Vectors
         /\ j \in 1 .. Len(pts) /\ FirstPlane(pts) \in PlanesOf(pts)
         /\ LastPlane(pts) \in PlanesOf(pts)
         /\ FirstPlane(pts) <= j /\ j <= LastPlane(pts)
<1>1. Len(pts) \in Nat /\ j \in Int /\ \A k \in 1 .. Len(pts) : pts[k] \in Vectors
  <2>1. Len(pts) \in Nat /\ \A k \in 1 .. Len(pts) : pts[k] \in Vectors
    OBVIOUS
  <2>2. j \in Int
    BY DEF PlanesOf
  <2> QED
    BY <2>1, <2>2
<1>2. CASE Short(pts)
  <2>1. j = 1 /\ FirstPlane(pts) = 1 /\ LastPlane(pts) = 1 /\ 1 \in 1 .. Len(pts) /\ 2 \in 1 .. Len(pts)
    BY <1>1, <1>2 DEF PlanesOf, FirstPlane, LastPlane, Short
  <2> QED
    BY <1>1, <1>2, <2>1, VectorSums DEF Normal, Twice, PlanesOf
<1>3. CASE ~Short(pts)
  <2>1. FirstPlane(pts) = 2 /\ LastPlane(pts) = Len(pts) - 1 /\ 2 <= j /\ j <= Len(pts) - 1
    BY <1>1, <1>3 DEF PlanesOf, FirstPlane, LastPlane
  <2>2. j \in 1 .. Len(pts) /\ j - 1 \in 1 .. Len(pts) /\ j + 1 \in 1 .. Len(pts) /\ 2 \in Int
    BY <1>1, <2>1
  <2>3. pts[j] \in Vectors /\ pts[j - 1] \in Vectors /\ pts[j + 1] \in Vectors
    BY <1>1, <2>2
  <2>4. Normal(pts, j) \in Vectors /\ Twice(pts, j) \in Vectors
    BY <1>3, <2>2, <2>3, VectorSums DEF Normal, Twice
  <2> QED
    BY <1>1, <2>1, <2>2, <2>4 DEF PlanesOf
<1> QED
  BY <1>2, <1>3

LEMMA SideType ==
  ASSUME NEW pts \in Seq(Vectors), Len(pts) >= 2, NEW j \in PlanesOf(pts), NEW place \in Vectors
  PROVE  Side(pts, j, place) \in Int
<1>1. Normal(pts, j) \in Vectors /\ Twice(pts, j) \in Vectors /\ Scaled(2, place) \in Vectors
  BY PlaneIs, VectorSums
<1>2. Minus(Scaled(2, place), Twice(pts, j)) \in Vectors
  BY <1>1, VectorSums
<1> QED
  BY <1>1, <1>2, DotType DEF Side

\* The ends of the path lie on either side of each plane.
LEMMA PlanesSeparate ==
  ASSUME NEW pts, NEW way, Scenery(pts, way), Advances(pts, way), NEW j \in PlanesOf(pts)
  PROVE  Side(pts, j, way[1]) < 0 /\ Side(pts, j, way[Len(way)]) >= 0
<1> DEFINE n == Normal(pts, j)
           t == Twice(pts, j)
           f == Twice(pts, FirstPlane(pts))
           l == Twice(pts, LastPlane(pts))
           u == Scaled(2, way[1])
           w == Scaled(2, way[Len(way)])
<1>1. /\ FirstPlane(pts) \in PlanesOf(pts) /\ LastPlane(pts) \in PlanesOf(pts)
      /\ FirstPlane(pts) <= j /\ j <= LastPlane(pts)
  BY PlaneIs DEF Scenery
<1>2. n \in Vectors /\ t \in Vectors /\ f \in Vectors /\ l \in Vectors
  BY <1>1, PlaneIs DEF Scenery
<1>3. u \in Vectors /\ w \in Vectors
  <2>1. way[1] \in Vectors /\ way[Len(way)] \in Vectors /\ 2 \in Int
    BY DEF Scenery
  <2> QED
    BY <2>1, VectorSums
<1>4. /\ Dot(Minus(t, f), n) >= 0 /\ Dot(Minus(l, t), n) >= 0
      /\ Dot(Minus(u, f), n) < 0 /\ Dot(Minus(w, l), n) >= 0
  BY <1>1 DEF Advances
<1> HIDE DEF n, t, f, l, u, w
<1>5. /\ Dot(Minus(t, f), n) = Dot(t, n) - Dot(f, n) /\ Dot(Minus(l, t), n) = Dot(l, n) - Dot(t, n)
      /\ Dot(Minus(u, f), n) = Dot(u, n) - Dot(f, n) /\ Dot(Minus(w, l), n) = Dot(w, n) - Dot(l, n)
      /\ Dot(Minus(u, t), n) = Dot(u, n) - Dot(t, n) /\ Dot(Minus(w, t), n) = Dot(w, n) - Dot(t, n)
      /\ Dot(t, n) \in Int /\ Dot(f, n) \in Int /\ Dot(l, n) \in Int /\ Dot(u, n) \in Int
      /\ Dot(w, n) \in Int
  BY <1>2, <1>3, DotOfMinus
<1>6. Dot(Minus(u, t), n) < 0 /\ Dot(Minus(w, t), n) >= 0
  BY <1>4, <1>5
<1> QED
  BY <1>6 DEF Side, n, t, u, w

Cuts == [to : Int, from : Int]

\* While the walk goes on, each cell so far was on the side of the first one, or in
\* the plane as that was.
OneSided ==
  /\ plane \in PlanesOf(points) /\ OnGuide(at)
  /\ val = Side(points, plane, guide[at]) /\ last_val \in Int
  /\ last_val > 0 => val > 0
  /\ last_val = 0 => val = 0
  /\ last_val < 0 => val < 0

WalkInv ==
  /\ Scenery(points, guide)
  /\ plane \in FirstPlane(points) - 1 .. LastPlane(points)
  /\ step \in {"plane", "walk", "push"}
  /\ at \in Int /\ cut \in Cuts
  /\ pushes \in [1 .. Len(points) -> Seq(Cuts)]
  /\ step # "plane" => plane \in PlanesOf(points)
  /\ Advances(points, guide) =>
       /\ step = "walk" => OneSided
       /\ step = "push" => Crosses(cut, plane)
       /\ \A j \in 1 .. Len(points) : \A k \in 1 .. Len(pushes[j]) : Crosses(pushes[j][k], j)

LEMMA WalkInitInv == WalkInit => WalkInv
<1> SUFFICES ASSUME WalkInit PROVE WalkInv
  OBVIOUS
<1>1. Scenery(points, guide)
  BY ScenesAssumption DEF WalkInit, Scenery
<1>2. /\ step = "plane" /\ at = 1 /\ cut = Unset /\ plane = FirstPlane(points) - 1
      /\ pushes = [j \in 1 .. Len(points) |-> << >>]
  BY DEF WalkInit
<1>3. Len(points) \in Nat /\ Len(points) >= 2
  BY <1>1 DEF Scenery
<1>4. plane \in FirstPlane(points) - 1 .. LastPlane(points)
  BY <1>2, <1>3 DEF FirstPlane, LastPlane, Short
<1>5. cut \in Cuts
  BY <1>2 DEF Unset, Cuts
<1>6. pushes \in [1 .. Len(points) -> Seq(Cuts)]
      /\ \A j \in 1 .. Len(points) : Len(pushes[j]) = 0
  BY <1>2
<1>7. \A j \in 1 .. Len(points) : \A k \in 1 .. Len(pushes[j]) : Crosses(pushes[j][k], j)
  BY <1>6
<1> QED
  BY <1>1, <1>2, <1>4, <1>5, <1>6, <1>7 DEF WalkInv

LEMMA MiddleOnGuide ==
  ASSUME Scenery(points, guide)
  PROVE  OnGuide(Middle) /\ Len(guide) \in Nat /\ \A k \in 1 .. Len(guide) : guide[k] \in Vectors
<1>1. Len(guide) \in Nat /\ Len(guide) >= 2 /\ \A k \in 1 .. Len(guide) : guide[k] \in Vectors
  BY DEF Scenery
<1>2. PICK n : n = Len(guide)
  OBVIOUS
<1>3. n \in Nat /\ n >= 2 => n \div 2 + 1 \in 1 .. n
  OBVIOUS
<1> QED
  BY <1>1, <1>2, <1>3 DEF OnGuide, Middle

LEMMA NextPlaneKeeps == WalkInv /\ NextPlane => WalkInv'
<1> SUFFICES ASSUME WalkInv, NextPlane PROVE WalkInv'
  OBVIOUS
<1>1. /\ points' = points /\ guide' = guide /\ pushes' = pushes /\ step' = "walk"
      /\ plane < LastPlane(points) /\ plane' = plane + 1 /\ at' = Middle /\ cut' = Unset
      /\ val' = Side(points, plane', guide[Middle]) /\ last_val' = val'
  BY DEF NextPlane
<1>2. /\ OnGuide(Middle) /\ Len(guide) \in Nat /\ guide[Middle] \in Vectors /\ Middle \in Int
      /\ points \in Seq(Vectors) /\ Len(points) >= 2 /\ Len(points) \in Nat
  BY MiddleOnGuide DEF WalkInv, Scenery, OnGuide
<1>3. /\ plane' \in PlanesOf(points)
      /\ plane' \in FirstPlane(points) - 1 .. LastPlane(points)
  <2>1. FirstPlane(points) \in Int /\ LastPlane(points) \in Int
    BY <1>2 DEF FirstPlane, LastPlane
  <2> QED
    BY <1>1, <2>1 DEF WalkInv, PlanesOf
<1>4. val' \in Int
  BY <1>1, <1>2, <1>3, SideType
<1>5. OneSided'
  BY <1>1, <1>2, <1>3, <1>4 DEF OneSided, OnGuide
<1>6. cut' \in Cuts
  BY <1>1 DEF Unset, Cuts
<1> QED
  BY <1>1, <1>2, <1>3, <1>5, <1>6 DEF WalkInv, Scenery, Crosses, OnGuide

LEMMA SignOfProduct ==
  ASSUME NEW a \in Int, NEW b \in Int
  PROVE  /\ b > 0 => (a * b <= 0 <=> a <= 0)
         /\ b < 0 => (a * b <= 0 <=> a >= 0)
         /\ b = 0 => a * b <= 0
  OBVIOUS

LEMMA WalkKeeps == WalkInv /\ Walk => WalkInv'
<1> SUFFICES ASSUME WalkInv, Walk PROVE WalkInv'
  OBVIOUS
<1>1. /\ points' = points /\ guide' = guide /\ pushes' = pushes /\ plane' = plane
      /\ last_val' = last_val /\ step = "walk" /\ OnGuide(at)
      /\ at' = IF val >= 0 THEN at - 1 ELSE at + 1
      /\ val' \in IF OnGuide(at') THEN {Side(points, plane, guide[at'])} ELSE {-1, 0, 1}
      /\ \/ /\ val' * last_val <= 0 /\ (val' # 0 \/ last_val # 0)
            /\ cut' = [to |-> at', from |-> at] /\ step' = "push"
         \/ /\ ~(val' * last_val <= 0 /\ (val' # 0 \/ last_val # 0))
            /\ cut' = cut /\ step' = "walk"
  BY DEF Walk
<1>2. /\ at \in Int /\ at' \in Int /\ plane \in PlanesOf(points) /\ cut' \in Cuts
  BY <1>1 DEF WalkInv, Cuts
<1>3. ASSUME Advances(points, guide)
      PROVE  (step' = "walk" => OneSided') /\ (step' = "push" => Crosses(cut, plane)')
  <2>1. /\ OneSided /\ Scenery(points, guide)
    BY <1>1, <1>3 DEF WalkInv
  <2>2. /\ Len(guide) \in Nat /\ \A k \in 1 .. Len(guide) : guide[k] \in Vectors
        /\ points \in Seq(Vectors) /\ Len(points) >= 2
    BY <2>1, MiddleOnGuide DEF Scenery
  <2>3. \A k \in 1 .. Len(guide) : Side(points, plane, guide[k]) \in Int
    BY <1>2, <2>2, SideType
  <2>4. val = Side(points, plane, guide[at]) /\ val \in Int /\ last_val \in Int
        /\ at \in 1 .. Len(guide)
    BY <2>1, <2>3 DEF OneSided, OnGuide
  <2>5. OnGuide(at')
    <3>1. Side(points, plane, guide[1]) < 0 /\ Side(points, plane, guide[Len(guide)]) >= 0
      BY <1>2, <1>3, <2>1, PlanesSeparate
    <3>2. CASE val >= 0
      <4>1. at # 1
        BY <2>4, <3>1, <3>2
      <4> QED
        BY <1>1, <2>2, <2>4, <3>2, <4>1 DEF OnGuide
    <3>3. CASE ~(val >= 0)
      <4>1. at # Len(guide)
        BY <2>4, <3>1, <3>3
      <4> QED
        BY <1>1, <2>2, <2>4, <3>3, <4>1 DEF OnGuide
    <3> QED
      BY <3>2, <3>3
  <2>6. val' = Side(points, plane, guide[at']) /\ val' \in Int
    BY <1>1, <2>3, <2>5 DEF OnGuide
  <2>7. /\ last_val > 0 => (val' * last_val <= 0 <=> val' <= 0)
        /\ last_val < 0 => (val' * last_val <= 0 <=> val' >= 0)
        /\ last_val = 0 => val' * last_val <= 0
    <3> DEFINE a == val'
               b == last_val
    <3>1. a \in Int /\ b \in Int
      BY <2>4, <2>6
    <3> HIDE DEF a, b
    <3>2. /\ b > 0 => (a * b <= 0 <=> a <= 0)
          /\ b < 0 => (a * b <= 0 <=> a >= 0)
          /\ b = 0 => a * b <= 0
      BY <3>1, SignOfProduct
    <3> QED
      BY <3>2 DEF a, b
  <2>8. /\ last_val > 0 => val > 0
        /\ last_val = 0 => val = 0
        /\ last_val < 0 => val < 0
    BY <2>1 DEF OneSided
  <2>9. CASE val' * last_val <= 0 /\ (val' # 0 \/ last_val # 0)
    <3>1. cut' = [to |-> at', from |-> at] /\ step' = "push"
      BY <1>1, <2>9
    <3>2. cut'.to = at' /\ cut'.from = at
      BY <3>1
    <3>3. at' - at \in {-1, 1}
      BY <1>1, <1>2
    <3>4. val' # val /\ ((val' <= 0 /\ 0 <= val) \/ (val <= 0 /\ 0 <= val'))
      BY <2>4, <2>6, <2>7, <2>8, <2>9
    <3>5. Crosses(cut, plane)'
      BY <1>1, <2>4, <2>5, <2>6, <3>2, <3>3, <3>4 DEF Crosses, OnGuide
    <3> QED
      BY <3>1, <3>5
  <2>10. CASE ~(val' * last_val <= 0 /\ (val' # 0 \/ last_val # 0))
    <3>1. step' = "walk"
      BY <1>1, <2>10
    <3>2. /\ last_val > 0 => val' > 0
          /\ last_val = 0 => val' = 0
          /\ last_val < 0 => val' < 0
      BY <2>4, <2>6, <2>7, <2>10
    <3>3. OneSided'
      BY <1>1, <1>2, <2>4, <2>5, <2>6, <3>2 DEF OneSided, OnGuide
    <3> QED
      BY <3>1, <3>3
  <2> QED
    BY <2>9, <2>10
<1>4. step' \in {"walk", "push"}
  BY <1>1
<1> QED
  BY <1>1, <1>2, <1>3, <1>4 DEF WalkInv, Crosses, OnGuide

LEMMA LeaveGuideKeeps == WalkInv /\ LeaveGuide => WalkInv'
<1> SUFFICES ASSUME WalkInv, LeaveGuide PROVE WalkInv'
  OBVIOUS
<1>1. /\ step = "walk" /\ ~OnGuide(at) /\ step' = "push"
      /\ UNCHANGED <<points, guide, plane, at, val, last_val, cut, got, pushes>>
  BY DEF LeaveGuide
<1>2. ~Advances(points, guide)
  BY <1>1 DEF WalkInv, OneSided
<1> QED
  BY <1>1, <1>2 DEF WalkInv

\* One push more, by the crossing the walk has just found.
LEMMA PushKeeps == WalkInv /\ Push => WalkInv'
<1> SUFFICES ASSUME WalkInv, Push PROVE WalkInv'
  OBVIOUS
<1>1. /\ step = "push" /\ step' = "plane"
      /\ UNCHANGED <<points, guide, plane, at, val, last_val, cut>>
      /\ \/ pushes' = pushes
         \/ pushes' = [pushes EXCEPT ![plane] = Append(@, cut)]
         \/ Short(points) /\ pushes' = [pushes EXCEPT ![1] = Append(@, cut)]
  BY DEF Push
<1>2. /\ plane \in PlanesOf(points) /\ cut \in Cuts /\ pushes \in [1 .. Len(points) -> Seq(Cuts)]
      /\ points \in Seq(Vectors) /\ Len(points) >= 2
  BY <1>1 DEF WalkInv, Scenery
<1>3. plane \in 1 .. Len(points) /\ (Short(points) => plane = 1)
  <2>1. plane \in 1 .. Len(points) /\ FirstPlane(points) <= plane /\ plane <= LastPlane(points)
    BY <1>2, PlaneIs
  <2>2. Short(points) => FirstPlane(points) = 1 /\ LastPlane(points) = 1
    BY DEF FirstPlane, LastPlane, Short
  <2>3. plane \in Int
    BY <2>1
  <2> QED
    BY <2>1, <2>2, <2>3
<1>4. pushes' = pushes \/ pushes' = [pushes EXCEPT ![plane] = Append(@, cut)]
  BY <1>1, <1>3
<1>5. CASE pushes' = pushes
  BY <1>1, <1>5 DEF WalkInv, Crosses, OnGuide
<1>6. CASE pushes' = [pushes EXCEPT ![plane] = Append(@, cut)]
  <2>1. PICK old : old = pushes[plane]
    OBVIOUS
  <2>2. old \in Seq(Cuts) /\ Append(old, cut) \in Seq(Cuts) /\ Len(old) \in Nat
        /\ Len(Append(old, cut)) = Len(old) + 1 /\ Append(old, cut)[Len(old) + 1] = cut
        /\ \A k \in 1 .. Len(old) : Append(old, cut)[k] = old[k]
    BY <1>2, <1>3, <2>1
  <2>3. pushes' \in [1 .. Len(points) -> Seq(Cuts)]
    BY <1>2, <1>3, <1>6, <2>1, <2>2
  <2>4. ASSUME Advances(points, guide), NEW j \in 1 .. Len(points), NEW k \in 1 .. Len(pushes'[j])
        PROVE  Crosses(pushes'[j][k], j)
    <3>1. Crosses(cut, plane) /\ \A m \in 1 .. Len(pushes[j]) : Crosses(pushes[j][m], j)
      BY <1>1, <2>4 DEF WalkInv
    <3>2. CASE j # plane
      <4>1. pushes'[j] = pushes[j]
        BY <1>2, <1>6, <3>2
      <4> QED
        BY <2>4, <3>1, <4>1
    <3>3. CASE j = plane
      <4>1. pushes'[j] = Append(old, cut) /\ pushes[j] = old
        BY <1>2, <1>3, <1>6, <2>1, <3>3
      <4>2. k = Len(old) + 1 \/ k \in 1 .. Len(old)
        BY <2>2, <2>4, <4>1
      <4> QED
        BY <2>2, <3>1, <3>3, <4>1, <4>2
    <3> QED
      BY <3>2, <3>3
  <2> QED
    BY <1>1, <2>3, <2>4 DEF WalkInv, Crosses, OnGuide
<1> QED
  BY <1>4, <1>5, <1>6

\* For every segment and every guide path, however they bend: as long as they advance
\* through the planes of the control points, the walk keeps to the path and a point is
\* pushed by a crossing of its own. (initControlPoints, check_collision_and_rebound)
THEOREM WalksAreSound == WalkSpec => []WalkIsSound
<1>1. WalkInit => WalkInv
  BY WalkInitInv
<1>2. WalkInv /\ [WalkNext]_walkVars => WalkInv'
  <2>1. WalkInv /\ UNCHANGED walkVars => WalkInv'
    BY DEF walkVars, WalkInv, OneSided, Crosses, OnGuide
  <2> QED
    BY <2>1, NextPlaneKeeps, WalkKeeps, LeaveGuideKeeps, PushKeeps DEF WalkNext
<1>3. WalkInv => WalkIsSound
  BY DEF WalkInv, WalkIsSound, OneSided
<1> QED
  BY <1>1, <1>2, <1>3, PTL DEF WalkSpec
=============================================================================
