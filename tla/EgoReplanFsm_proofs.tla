------------------------- MODULE EgoReplanFsm_proofs -------------------------
(***************************************************************************)
(* The planner's invariants for every set of goals, every gate, every tour *)
(* and every number of goal messages, with and without peers; and, for a   *)
(* lone drone, the promise of GoalService.                                 *)
(***************************************************************************)
EXTENDS EgoReplanFsm, TLAPS

\* A point of the tour is a position.
LEMMA WpsPoints == \A i \in 1..Len(Wps) : Wps[i] \in Coordinates
  BY WpsAssumption

LEMMA InitIInv == Init => IInv
<1> SUFFICES ASSUME Init PROVE IInv
  OBVIOUS
<1> USE PointsAssumption, FlagsAssumption, RolesAssumption, BoundAssumption, WpsAssumption DEF Init
<1>1. TypeOK
  <2>1. Len(Wps) \in Nat /\ 1 \in 1..Len(Wps)
    BY WpsPoints
  <2>2. local_data \in Data
    BY DEF Data, NoTraj, Points
  <2>3. said \in [bit : {0, 1}, statuses : Replies, about : Nat]
    BY DEF Silence, Replies
  <2>4. end_pt \in Points /\ local_target_pt \in Points
    BY DEF Points
  <2>5. received \in 0..MaxGoals /\ goal_no \in 0..received
    OBVIOUS
  <2>6. QED
    BY <2>1, <2>2, <2>3, <2>4, <2>5 DEF TypeOK, States, Phases
<1>2. TrajWhereNeeded
  BY DEF TrajWhereNeeded, HaveTraj, NoTraj
<1>3. ExecFollowsPlan
  BY DEF ExecFollowsPlan
<1>4. QED
  BY <1>1, <1>2, <1>3 DEF IInv

\* What the planning operators do to the types: a failed attempt keeps the
\* trajectory, a successful one leaves a plan to the new local target.
LEMMA PlanLemma ==
  ASSUME TypeOK, NEW ok \in BOOLEAN,
         PlanFromCurrentTraj(ok) \/ PlanFromGlobalTraj(ok)
  PROVE  /\ local_target_pt' \in Points
         /\ progress' \in {"open", "end"}
         /\ local_data' \in Data
         /\ phase' \in Phases
         /\ ok => /\ local_data'.kind = "plan"
                  /\ local_data'.to = local_target_pt'
                  /\ local_data'.for = goal_no
         /\ ~ok => UNCHANGED traj
<1> USE DEF PlanFromCurrentTraj, PlanFromGlobalTraj
<1>1. GetLocalTarget
  BY DEF PlanSucceeds, PlanFails
<1>2. local_target_pt' \in Points /\ progress' \in {"open", "end"}
  BY <1>1 DEF GetLocalTarget, target, TypeOK, Points
<1>3. CASE ok
  <2>1. PlanSucceeds
    BY <1>3
  <2>2. PICK long \in BOOLEAN :
          NewTraj([kind |-> "plan", to |-> local_target_pt', long |-> long, for |-> goal_no])
    BY <2>1 DEF PlanSucceeds
  <2>3. goal_no \in Nat
    BY BoundAssumption DEF TypeOK
  <2>4. QED
    BY <1>2, <1>3, <2>2, <2>3 DEF NewTraj, Data, Phases
<1>4. CASE ~ok
  BY <1>2, <1>4 DEF PlanFails, traj, TypeOK
<1>5. QED
  BY <1>3, <1>4

-----------------------------------------------------------------------------
(* One lemma per callback: it preserves the inductive invariant. *)

\* Callbacks that touch neither the goal nor the trajectory.
LEMMA QuietStep ==
  ASSUME IInv,
         \/ OdometryCallback \/ TriggerCallback \/ SwarmTrajsCallback
         \/ BroadcastBsplineCallback \/ ExecInit \/ ExecWaitTarget
         \/ ExecReplanDue \/ SafetyClear \/ OdomDepthTimeout
  PROVE  IInv'
<1> USE DEF IInv, TypeOK, TrajWhereNeeded, ExecFollowsPlan, HaveTraj,
            States, MANUAL, PRESET,
            vars, params, flags, goal, traj, target, history
<1>1. CASE OdometryCallback
  BY <1>1 DEF OdometryCallback
<1>2. CASE TriggerCallback
  BY <1>2 DEF TriggerCallback
<1>3. CASE BroadcastBsplineCallback
  BY <1>3 DEF BroadcastBsplineCallback
<1>4. CASE SwarmTrajsCallback
  BY <1>4 DEF SwarmTrajsCallback
<1>5. CASE ExecInit
  BY <1>5 DEF ExecInit
<1>6. CASE ExecWaitTarget
  BY <1>6 DEF ExecWaitTarget
<1>7. CASE ExecReplanDue
  BY <1>7 DEF ExecReplanDue
<1>8. CASE SafetyClear
  BY <1>8 DEF SafetyClear, Checking, AfterDepthCheck
<1>9. CASE OdomDepthTimeout
  BY <1>9 DEF OdomDepthTimeout
<1>10. QED
  BY <1>1, <1>2, <1>3, <1>4, <1>5, <1>6, <1>7, <1>8, <1>9

\* Time moves the phase of the local trajectory and nothing else.
LEMMA TimeStep ==
  ASSUME IInv, TimePasses
  PROVE  IInv'
  BY DEF IInv, TypeOK, TrajWhereNeeded, ExecFollowsPlan, HaveTraj, MANUAL,
         PRESET, Phases, TimePasses, params, flags, goal, target, history

\* A publication is well typed when its parts are.
LEMMA PublishLemma ==
  ASSUME TypeOK, NEW statuses \in Replies, NEW n \in Nat, Publish(statuses, n)
  PROVE  said' \in [bit : {0, 1}, statuses : Replies, about : Nat]
  BY DEF TypeOK, Publish

\* A goal turned down changes only what has been said.
LEMMA RejectStep ==
  ASSUME IInv, NEW p \in Goals, RejectGoal(p)
  PROVE  IInv'
<1> USE DEF IInv, RejectGoal, MANUAL, PRESET, params, flags, goal, target, traj
<1>1. received' \in 0..MaxGoals /\ goal_no' \in 0..received' /\ received' \in Nat
  BY BoundAssumption DEF TypeOK
<1>2. said' \in [bit : {0, 1}, statuses : Replies, about : Nat]
  <2>1. Rejected(RejectReason(p)) \in Replies /\ Rejected("not_ready") \in Replies
    BY DEF Replies, Reasons, RejectReason
  <2>2. QED
    BY <1>1, <2>1, PublishLemma
<1>3. TypeOK'
  BY <1>1, <1>2 DEF TypeOK
<1>4. TrajWhereNeeded' /\ ExecFollowsPlan'
  BY DEF TrajWhereNeeded, ExecFollowsPlan, HaveTraj
<1>5. QED
  BY <1>3, <1>4

\* A goal taken is one the gate let in; the trajectory is not touched, and the
\* state it was for is left.
LEMMA AcceptStep ==
  ASSUME IInv, NEW p \in Goals, AcceptGoal(p)
  PROVE  IInv'
<1> USE DEF IInv, AcceptGoal, SetGlobalTraj, MANUAL, PRESET, params, traj
<1>1. /\ received' \in 0..MaxGoals /\ received' \in Nat \ {0}
      /\ goal_no' = received'
  BY BoundAssumption DEF TypeOK
<1>2. said' \in [bit : {0, 1}, statuses : Replies, about : Nat]
  BY <1>1, PublishLemma DEF Replies
<1>3. end_pt' = p /\ p \in Points
  BY PointsAssumption DEF Points
<1>4. /\ exec_state = "WAIT_TARGET" => exec_state' = "GEN_NEW_TRAJ"
      /\ exec_state = "EXEC_TRAJ" => exec_state' = "REPLAN_TRAJ"
      /\ exec_state \in {"WAIT_TARGET", "EXEC_TRAJ"}
  BY DEF ReadyForGoal, StateAfterGoal
<1>5. TypeOK'
  BY <1>1, <1>2, <1>3, <1>4 DEF TypeOK, States
<1>6. TrajWhereNeeded'
  BY <1>1, <1>4 DEF TrajWhereNeeded, HaveTraj
<1>7. ExecFollowsPlan'
  BY <1>3, <1>4 DEF ExecFollowsPlan
<1>8. QED
  BY <1>5, <1>6, <1>7

\* The tour's first waypoint: nothing is known of the gate.
LEMMA ReadGivenWpsStep ==
  ASSUME IInv, ReadGivenWps
  PROVE  IInv'
<1> USE DEF IInv, ReadGivenWps, SetGlobalTraj, MANUAL, PRESET, params, traj, history
<1>1. 1 \in 1..Len(Wps) /\ Wps[1] \in Points
  BY WpsPoints, WpsAssumption DEF Points
<1>2. /\ have_target' \in BOOLEAN
      /\ exec_state' \in States
      /\ exec_state' \in {"REPLAN_TRAJ", "EXEC_TRAJ", "EMERGENCY_STOP", "SEQUENTIAL_START"}
           => exec_state \in {"REPLAN_TRAJ", "EXEC_TRAJ", "EMERGENCY_STOP", "SEQUENTIAL_START"}
      /\ exec_state' \notin {"WAIT_TARGET", "EXEC_TRAJ"}
      /\ exec_state' = "INIT" => ~have_target' /\ exec_state = "INIT"
  BY DEF ReadyForGoal, StateAfterGoal, States, TypeOK
<1>3. TypeOK'
  BY <1>1, <1>2 DEF TypeOK
<1>4. TrajWhereNeeded' /\ ExecFollowsPlan'
  BY <1>2 DEF TrajWhereNeeded, ExecFollowsPlan, HaveTraj
<1>5. QED
  BY <1>3, <1>4

\* Planning from the exec timer: GEN_NEW_TRAJ, SEQUENTIAL_START, REPLAN_TRAJ.
LEMMA ExecPlanStep ==
  ASSUME IInv, ExecGenNewTraj \/ ExecSequentialStart \/ ExecReplanTraj
  PROVE  IInv'
<1> USE DEF IInv, MANUAL, PRESET, params, flags, goal, history
<1>1. PICK ok \in BOOLEAN :
        /\ PlanFromGlobalTraj(ok) \/ PlanFromCurrentTraj(ok)
        /\ exec_state' = IF ok THEN "EXEC_TRAJ" ELSE exec_state
        /\ exec_state \in {"GEN_NEW_TRAJ", "SEQUENTIAL_START", "REPLAN_TRAJ"}
        /\ flag_escape_emergency' = IF ok /\ exec_state = "GEN_NEW_TRAJ" THEN TRUE
                                    ELSE flag_escape_emergency
  BY DEF ExecGenNewTraj, ExecSequentialStart, ExecReplanTraj
<1>2. UNCHANGED <<params, flags, enable_fail_safe, goal, booted, depth_lost, history>>
  BY DEF ExecGenNewTraj, ExecSequentialStart, ExecReplanTraj
<1>3. /\ local_target_pt' \in Points /\ progress' \in {"open", "end"}
      /\ local_data' \in Data /\ phase' \in Phases
      /\ ok => /\ local_data'.kind = "plan"
               /\ local_data'.to = local_target_pt'
               /\ local_data'.for = goal_no
      /\ ~ok => UNCHANGED traj
  BY <1>1, PlanLemma
<1>4. TypeOK'
  BY <1>1, <1>2, <1>3 DEF TypeOK, States
<1>5. TrajWhereNeeded'
  BY <1>1, <1>2, <1>3, FlagsAssumption DEF TrajWhereNeeded, HaveTraj, traj, TypeOK
<1>6. ExecFollowsPlan'
  BY <1>1, <1>2, <1>3 DEF ExecFollowsPlan
<1>7. QED
  BY <1>4, <1>5, <1>6

\* Planning from the safety timer.
LEMMA SafetyPlanStep ==
  ASSUME IInv, SafetyReplanned \/ SafetyNoWayOut
  PROVE  IInv'
<1> USE DEF IInv, MANUAL, PRESET, params, flags, goal, history
<1>1. PICK ok \in BOOLEAN :
        /\ PlanFromCurrentTraj(ok)
        /\ ok => exec_state' = "EXEC_TRAJ"
        /\ ~ok => exec_state' \in {"EMERGENCY_STOP", "REPLAN_TRAJ"}
  BY DEF SafetyReplanned, SafetyNoWayOut
<1>2. /\ UNCHANGED <<params, flags, flag_escape_emergency, goal, booted, depth_lost, history>>
      /\ enable_fail_safe' \in BOOLEAN
      /\ HaveTraj
  BY DEF SafetyReplanned, SafetyNoWayOut, Checking, TypeOK
<1>3. /\ local_target_pt' \in Points /\ progress' \in {"open", "end"}
      /\ local_data' \in Data /\ phase' \in Phases
      /\ ok => /\ local_data'.kind = "plan"
               /\ local_data'.to = local_target_pt'
               /\ local_data'.for = goal_no
      /\ ~ok => UNCHANGED traj
  BY <1>1, PlanLemma
<1>4. TypeOK'
  BY <1>1, <1>2, <1>3 DEF TypeOK, States
<1>5. TrajWhereNeeded'
  BY <1>1, <1>2, <1>3 DEF TrajWhereNeeded, HaveTraj, traj, TypeOK
<1>6. ExecFollowsPlan'
  BY <1>1, <1>2, <1>3 DEF ExecFollowsPlan
<1>7. QED
  BY <1>4, <1>5, <1>6

\* The end of a trajectory or of a leg of the tour.
LEMMA ExecArrivalStep ==
  ASSUME IInv, ExecNextWaypoint \/ ExecReached
  PROVE  IInv'
<1> USE DEF IInv, MANUAL, PRESET, params, goal, traj
<1>1. CASE ExecNextWaypoint
  <2> USE <1>1 DEF ExecNextWaypoint, SetGlobalTraj, history
  <2>1. wp_id + 1 \in 1..Len(Wps) /\ Wps[wp_id + 1] \in Points
    BY WpsPoints, WpsAssumption DEF TypeOK, Points
  <2>2. TypeOK'
    BY <2>1 DEF TypeOK, States
  <2>3. TrajWhereNeeded' /\ ExecFollowsPlan'
    BY DEF TrajWhereNeeded, ExecFollowsPlan, HaveTraj
  <2>4. QED
    BY <2>2, <2>3
<1>2. CASE ExecReached
  <2>1. CASE MANUAL
    <3>1. said' \in [bit : {0, 1}, statuses : Replies, about : Nat]
      <4>1. Publish(Reached, local_data.for)
        BY <1>2, <2>1 DEF ExecReached
      <4>2. local_data.for \in Nat /\ Reached \in Replies
        BY DEF TypeOK, Data, Replies
      <4>3. QED
        BY <4>1, <4>2, PublishLemma
    <3>2. TypeOK'
      <4>1. /\ have_target' = FALSE /\ have_trigger' = FALSE
            /\ exec_state' = "WAIT_TARGET"
            /\ UNCHANGED <<params, have_odom, have_recv_pre_agent, enable_fail_safe,
                           flag_escape_emergency, booted, traj, depth_lost, received,
                           goal, target>>
        BY <1>2, <2>1 DEF ExecReached
      <4>2. QED
        BY <3>1, <4>1 DEF TypeOK, States, target
    <3>3. TrajWhereNeeded' /\ ExecFollowsPlan'
      BY <1>2, <2>1 DEF ExecReached, TrajWhereNeeded, ExecFollowsPlan,
           HaveTraj
    <3>4. QED
      BY <3>2, <3>3
  <2>2. CASE PRESET
    <3>1. 1 \in 1..Len(Wps) /\ Wps[1] \in Points
      BY WpsPoints, WpsAssumption DEF Points
    <3>2. TypeOK'
      <4>1. /\ have_target' = TRUE /\ have_trigger' = FALSE
            /\ exec_state' = "WAIT_TARGET"
            /\ wp_id' = 1 /\ end_pt' = Wps[1] /\ progress' = "open"
            /\ UNCHANGED <<params, have_odom, have_recv_pre_agent, enable_fail_safe,
                           flag_escape_emergency, booted, traj, depth_lost, received,
                           goal_no, said, local_target_pt>>
        BY <1>2, <2>2 DEF ExecReached, SetGlobalTraj
      <4>2. QED
        BY <3>1, <4>1 DEF TypeOK, States
    <3>3. TrajWhereNeeded' /\ ExecFollowsPlan'
      BY <1>2, <2>2 DEF ExecReached, SetGlobalTraj, TrajWhereNeeded, ExecFollowsPlan, HaveTraj
    <3>4. QED
      BY <3>2, <3>3
  <2>3. QED
    BY <2>1, <2>2 DEF TypeOK
<1>3. QED
  BY <1>1, <1>2

\* The EMERGENCY_STOP tick: the flag it reads has been written.
LEMMA EmergencyStep ==
  ASSUME IInv, ExecEmergencyStop
  PROVE  IInv'
<1> USE DEF IInv, MANUAL, PRESET, params, flags, goal, target, history
<1>1. /\ (local_data' = StopTraj /\ phase' = "early") \/ UNCHANGED traj
      /\ exec_state' \in {"EMERGENCY_STOP", "GEN_NEW_TRAJ"}
      /\ flag_escape_emergency' = FALSE
      /\ UNCHANGED <<params, flags, enable_fail_safe, goal, target, booted, depth_lost,
                     history>>
      /\ HaveTraj
  BY DEF ExecEmergencyStop, NewTraj, TrajWhereNeeded
<1>2. local_data' \in Data /\ phase' \in Phases
  <2>1. StopTraj \in Data
    BY DEF StopTraj, Data, Points
  <2>2. QED
    BY <1>1, <2>1 DEF Phases, TypeOK, traj
<1>3. TypeOK'
  BY <1>1, <1>2 DEF TypeOK, States
<1>4. TrajWhereNeeded'
  <2>1. HaveTraj'
    BY <1>1 DEF HaveTraj, StopTraj, traj
  <2>2. flag_escape_emergency' # Uninit
    BY <1>1, FlagsAssumption
  <2>3. (MANUAL /\ have_target => goal_no # 0)'
    BY <1>1 DEF TrajWhereNeeded
  <2>4. QED
    BY <1>1, <2>1, <2>2, <2>3 DEF TrajWhereNeeded
<1>5. ExecFollowsPlan'
  BY <1>1 DEF ExecFollowsPlan
<1>6. QED
  BY <1>3, <1>4, <1>5

LEMMA NextIInv == IInv /\ [Next]_vars => IInv'
<1> SUFFICES ASSUME IInv, [Next]_vars PROVE IInv'
  OBVIOUS
<1>1. CASE UNCHANGED vars
  BY <1>1 DEF vars, params, flags, goal, target, traj, history, IInv, TypeOK,
       TrajWhereNeeded, ExecFollowsPlan, HaveTraj, MANUAL, PRESET
<1>2. CASE \E p \in Goals : RejectGoal(p) \/ AcceptGoal(p)
  BY <1>2, RejectStep, AcceptStep
<1>3. CASE ReadGivenWps
  BY <1>3, ReadGivenWpsStep
<1>4. CASE ExecFSMCallback
  BY <1>4, QuietStep, ExecPlanStep, ExecArrivalStep, EmergencyStep DEF ExecFSMCallback
<1>5. CASE CheckCollisionCallback
  BY <1>5, QuietStep, SafetyPlanStep DEF CheckCollisionCallback
<1>6. CASE TimePasses
  BY <1>6, TimeStep
<1>7. CASE \/ OdometryCallback \/ TriggerCallback \/ BroadcastBsplineCallback
           \/ SwarmTrajsCallback \/ OdomDepthTimeout
  BY <1>7, QuietStep
<1>8. QED
  BY <1>1, <1>2, <1>3, <1>4, <1>5, <1>6, <1>7 DEF Next

THEOREM Invariance == Spec => []IInv
  BY InitIInv, NextIInv, PTL DEF Spec

\* Every variable keeps its type, whatever the goals, the tour and the peers.
THEOREM TypeCorrect == Spec => []TypeOK
<1>1. IInv => TypeOK
  BY DEF IInv
<1>2. QED
  BY <1>1, Invariance, PTL

\* The uninitialised escape flag is never read (ego_replan_fsm.cpp:860).
THEOREM FlagSafe == Spec => []FlagWrittenBeforeRead
<1>1. IInv => FlagWrittenBeforeRead
  BY DEF IInv, TrajWhereNeeded, FlagWrittenBeforeRead
<1>2. QED
  BY <1>1, Invariance, PTL

\* EXEC_TRAJ follows a plan to the current local target for the current goal.
THEOREM ExecCorrect == Spec => []ExecFollowsPlan
<1>1. IInv => ExecFollowsPlan
  BY DEF IInv
<1>2. QED
  BY <1>1, Invariance, PTL

-----------------------------------------------------------------------------
(* A lone drone: what its state says of its goal, and the goal service. *)

\* Neither the role nor the flight type ever changes.
LEMMA ParamsKept == [Next]_vars => UNCHANGED params
  BY DEF Next, vars, params, OdometryCallback, TriggerCallback, RejectGoal,
       AcceptGoal, ReadGivenWps, BroadcastBsplineCallback, SwarmTrajsCallback,
       ExecFSMCallback, ExecInit, ExecWaitTarget, ExecSequentialStart, ExecGenNewTraj,
       ExecReplanTraj, ExecNextWaypoint, ExecReached, ExecReplanDue, ExecEmergencyStop,
       CheckCollisionCallback, SafetyClear, SafetyReplanned, SafetyNoWayOut,
       TimePasses, OdomDepthTimeout

\* With IInv, the third invariant of a lone drone is inductive.
LEMMA NextBusy ==
  ASSUME IInv, BusyIffTarget, [Next]_vars
  PROVE  BusyIffTarget'
<1> SUFFICES ASSUME MANUAL, ~Peers, MANUAL'
             PROVE  /\ have_target' <=> exec_state' \notin {"INIT", "WAIT_TARGET"}
                    /\ exec_state' # "SEQUENTIAL_START"
  <2>1. (MANUAL' => MANUAL) /\ (~Peers' => ~Peers)
    BY ParamsKept DEF MANUAL, Peers, params
  <2>2. QED
    BY <2>1 DEF BusyIffTarget
<1>1. /\ have_target \in BOOLEAN
      /\ have_target <=> exec_state \notin {"INIT", "WAIT_TARGET"}
      /\ exec_state # "SEQUENTIAL_START"
      /\ exec_state \in States
      /\ exec_state = "INIT" => ~HaveTraj
      /\ ~PRESET
  BY DEF IInv, TypeOK, TrajWhereNeeded, BusyIffTarget, MANUAL, PRESET
<1> USE <1>1 DEF States, vars, params, flags, history
<1>2. CASE /\ UNCHANGED <<have_target, exec_state>>
  BY <1>2
<1>3. CASE \E p \in Goals : AcceptGoal(p)
  BY <1>3 DEF AcceptGoal, ReadyForGoal, StateAfterGoal
<1>4. CASE \E p \in Goals : RejectGoal(p)
  BY <1>4 DEF RejectGoal
<1>5. CASE ExecFSMCallback
  <2>1. CASE ExecInit \/ ExecWaitTarget \/ ExecReplanDue
    BY <2>1 DEF ExecInit, ExecWaitTarget, ExecReplanDue
  <2>2. CASE ExecSequentialStart \/ ExecGenNewTraj \/ ExecReplanTraj
    BY <2>2 DEF ExecSequentialStart, ExecGenNewTraj, ExecReplanTraj
  <2>3. CASE ExecReached
    BY <2>3 DEF ExecReached
  <2>4. CASE ExecNextWaypoint
    BY <2>4 DEF ExecNextWaypoint
  <2>5. CASE ExecEmergencyStop
    BY <2>5 DEF ExecEmergencyStop
  <2>6. QED
    BY <1>5, <2>1, <2>2, <2>3, <2>4, <2>5 DEF ExecFSMCallback
<1>6. CASE CheckCollisionCallback
  BY <1>6 DEF CheckCollisionCallback, SafetyClear, SafetyReplanned, SafetyNoWayOut,
       Checking, AfterDepthCheck
<1>7. CASE \/ OdometryCallback \/ TriggerCallback \/ ReadGivenWps
           \/ BroadcastBsplineCallback \/ SwarmTrajsCallback \/ TimePasses
           \/ OdomDepthTimeout
  BY <1>7 DEF OdometryCallback, TriggerCallback, ReadGivenWps, BroadcastBsplineCallback,
       SwarmTrajsCallback, TimePasses, OdomDepthTimeout
<1>8. QED
  BY <1>2, <1>3, <1>4, <1>5, <1>6, <1>7 DEF Next

\* A lone drone in MANUAL mode is out of INIT and WAIT_TARGET exactly while it
\* has a goal, and never in SEQUENTIAL_START.
THEOREM BusyCorrect == Spec => []BusyIffTarget
<1>1. Init => BusyIffTarget
  BY DEF Init, BusyIffTarget
<1>2. QED
  BY <1>1, NextBusy, Invariance, PTL DEF Spec

\* A lone drone keeps the promise of GoalService: every step is a rejection,
\* an acceptance, an arrival or nothing to the clients.
LEMMA ServiceStep ==
  ASSUME IInv, BusyIffTarget, [Next]_vars
  PROVE  [Service!Next]_(Service!vars)
<1>role. UNCHANGED role
  BY ParamsKept DEF params
<1>swarm. CASE Peers
  BY <1>role, <1>swarm DEF Peers, Service!vars
<1>lone. SUFFICES ASSUME ~Peers PROVE [Service!Next]_(Service!vars)
  BY <1>swarm
<1>kept. ~Peers' /\ ~Peers
  BY <1>role, <1>lone DEF Peers
<1> USE <1>kept
<1> DEFINE cur == IF MANUAL /\ have_target THEN goal_no ELSE 0
<1> USE DEF params, flags, goal, target, traj, history, MANUAL, PRESET
<1>1. ASSUME UNCHANGED <<received, said, target_type, goal_no>>,
             MANUAL => UNCHANGED have_target
      PROVE  UNCHANGED Service!vars
  BY <1>1 DEF Service!vars
<1>2. ASSUME NEW p \in Goals, RejectGoal(p)
      PROVE  Service!Reject
  <2>1. cur' = cur /\ received' = received + 1
    BY <1>2 DEF RejectGoal
  <2>2. PICK reason \in Reasons : Publish(Rejected(reason), received')
    BY <1>2 DEF RejectGoal, Reasons, RejectReason
  <2>3. received' > received
    BY <2>1 DEF IInv, TypeOK
  <2>4. QED
    BY <2>1, <2>2, <2>3 DEF Service!Reject, Service!Say, Publish, Rejected
<1>3. ASSUME NEW p \in Goals, AcceptGoal(p)
      PROVE  Service!Accept
  <2>1. cur' = received' /\ received' = received + 1
    BY <1>3 DEF AcceptGoal
  <2>2. received' > received
    BY <2>1 DEF IInv, TypeOK
  <2>3. QED
    BY <1>3, <2>1, <2>2 DEF AcceptGoal, Service!Accept, Service!Say, Publish, Accepted
<1>4. ASSUME ExecReached, MANUAL
      PROVE  Service!Reach
  <2>1. have_target /\ goal_no # 0 /\ local_data.for = goal_no
    BY <1>4 DEF ExecReached, BusyIffTarget, IInv, TrajWhereNeeded, ExecFollowsPlan
  <2>2. cur = goal_no /\ cur' = 0 /\ UNCHANGED received /\ Publish(Reached, goal_no)
    BY <1>4, <2>1 DEF ExecReached
  <2>3. QED
    BY <2>1, <2>2 DEF Service!Reach, Service!Say, Publish, Reached
<1>5. ASSUME ExecReached, PRESET
      PROVE  UNCHANGED Service!vars
  BY <1>1, <1>5 DEF ExecReached
<1>6. CASE ExecFSMCallback
  <2>1. CASE ExecReached
    BY <1>4, <1>5, <2>1 DEF IInv, TypeOK, Service!Next
  <2>2. CASE ExecInit \/ ExecWaitTarget \/ ExecReplanDue \/ ExecEmergencyStop
    BY <1>1, <2>2 DEF ExecInit, ExecWaitTarget, ExecReplanDue, ExecEmergencyStop
  <2>3. CASE ExecSequentialStart \/ ExecGenNewTraj \/ ExecReplanTraj
    BY <1>1, <2>3 DEF ExecSequentialStart, ExecGenNewTraj, ExecReplanTraj
  <2>4. CASE ExecNextWaypoint
    BY <1>1, <2>4 DEF ExecNextWaypoint
  <2>5. QED
    BY <1>6, <2>1, <2>2, <2>3, <2>4 DEF ExecFSMCallback
<1>7. CASE CheckCollisionCallback
  BY <1>1, <1>7 DEF CheckCollisionCallback, SafetyClear, SafetyReplanned, SafetyNoWayOut
<1>8. CASE \/ OdometryCallback \/ TriggerCallback \/ ReadGivenWps
           \/ BroadcastBsplineCallback \/ SwarmTrajsCallback \/ TimePasses
           \/ OdomDepthTimeout \/ UNCHANGED vars
  BY <1>1, <1>8 DEF vars, OdometryCallback, TriggerCallback, ReadGivenWps,
       BroadcastBsplineCallback, SwarmTrajsCallback, TimePasses, OdomDepthTimeout
<1>9. QED
  BY <1>2, <1>3, <1>6, <1>7, <1>8 DEF Next, Service!Next

\* A lone planner refines the goal service its clients are written
\* against: one answer per goal message, "reached" once, for the last accepted.
THEOREM Refinement == Spec => KeepsGoalPromise
<1>1. Init => Service!Init
  BY DEF Init, Silence, Service!Init
<1>2. QED
  BY <1>1, ServiceStep, Invariance, BusyCorrect, PTL DEF Spec, KeepsGoalPromise, Service!Spec
=============================================================================
