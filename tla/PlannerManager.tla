---------------------------- MODULE PlannerManager ----------------------------
(***************************************************************************)
(* EGOPlannerManager (planner_manager.cpp): how reboundReplan turns a      *)
(* start and a local target into the next local trajectory, and the order  *)
(* of attempts in which the state machine asks for one.                    *)
(*                                                                         *)
(* Abstracted: places on a line one sampling step ts apart, so that the    *)
(* vehicle makes at most one place per tick (the code checks the speed of  *)
(* what it found, and refines it, for drone_id <= 0 only: what a swarm's   *)
(* follower found goes out as it is, and is assumed to keep to that); the  *)
(* solver (ControlPoints, ReboundOptimizer) fails or succeeds on the       *)
(* initial path; a local target in the same place is either within 0.2 m   *)
(* of the start or within the 0.3 m that need no polynomial to reach it;   *)
(* how far a random polynomial swings, for which the failures are counted, *)
(* is left out.                                                            *)
(***************************************************************************)
EXTENDS Integers, Sequences

CONSTANTS
  Places,       \* where the vehicle and its targets can be
  TooLong,      \* an initial path longer than that is planned afresh
  StopTime,     \* getTimeSum of the emergency trajectory
  MaxPlan,      \* bound: the ticks one call may last
  Trials,       \* how often planFromGlobalTraj tries
  MaxTrajs,     \* bound: trajectories in a behaviour
  MaxNow        \* bound: the ticks of a behaviour

ASSUME PlacesAssumption ==
  Places \subseteq Nat /\ \A a, b \in Places : a .. b \subseteq Places
ASSUME BoundsAssumption ==
  /\ TooLong \in Nat /\ StopTime \in Nat
  /\ Trials \in Nat \ {0}
  /\ MaxPlan \in Nat /\ MaxTrajs \in Nat /\ MaxNow \in Nat

VARIABLES
  now,
  local,     \* local_data_
  first,     \* flag_first_call
  forced,    \* flag_force_polynomial
  call       \* the planning under way

plannerVars == <<local, first, forced, call>>

Distance(a, b) == IF a < b THEN b - a ELSE a - b
Lesser(a, b) == IF a < b THEN a ELSE b
Toward(a, b, d) == IF a < b THEN a + d ELSE a - d

-----------------------------------------------------------------------------
(* Trajectories *)

\* evaluateDeBoorT: the time is clamped to the trajectory's.
PositionAt(tr, t) ==
  LET in == IF t < 0 THEN 0 ELSE IF t < tr.duration THEN t ELSE tr.duration
  IN IF tr.duration = 0 THEN tr.to
     ELSE Toward(tr.from, tr.to, (in * Distance(tr.from, tr.to)) \div tr.duration)

\* taken is history: the time at which the place it starts from was read.
Trajectory(id, from, to, duration, taken) ==
  [id |-> id, start |-> now, from |-> from, to |-> to, duration |-> duration, taken |-> taken]

\* Mutant: the trajectory is to begin when it will have been received.
UpdateTrajInfoAhead(from, to, duration, taken) ==
  local' = [Trajectory(local.id + 1, from, to, duration, taken) EXCEPT !.start = now + 1]

UpdateTrajInfo(from, to, duration, taken) ==
  local' = Trajectory(local.id + 1, from, to, duration, taken)

\* The samples of the rest of the previous trajectory, from now on.
Samples == LET left == local.start + local.duration - now IN IF left < 0 THEN 0 ELSE left + 1

Idle == [pc |-> "idle", todo |-> <<>>, start |-> 0, taken |-> 0, target |-> 0, spent |-> 0,
         initial |-> 0, read |-> 0]

-----------------------------------------------------------------------------
(* What the state machine asks for *)

\* odom is the vehicle's place when it was seen.  The attempts at one plan: how each is told to find its initial path.
\* have_new_target_ asks for a polynomial, once.
FromGlobal == [i \in 1 .. Trials |-> "polynomial"]
FromCurrent(newTarget) ==
  <<IF newTarget THEN "polynomial" ELSE "previous", "polynomial", "polynomial">>

Plan(todo, start, taken, target) ==
  call' = [Idle EXCEPT !.pc = "called", !.todo = todo, !.start = start, !.taken = taken,
                       !.target = target]

PlanFromGlobalTraj(odom, seen) ==
  /\ call.pc = "idle" /\ local.id < MaxTrajs
  /\ \E target \in Places : Plan(FromGlobal, odom, seen, target)
  /\ UNCHANGED <<now, local, first, forced>>

\* The start is read once for all the attempts.
PlanFromCurrentTraj ==
  /\ call.pc = "idle" /\ 0 < local.id /\ local.id < MaxTrajs
  /\ \E target \in Places, newTarget \in BOOLEAN :
       Plan(FromCurrent(newTarget), PositionAt(local, now - local.start), now, target)
  /\ UNCHANGED <<now, local, first, forced>>

\* callReboundReplan returned false: the next attempt, if there is one.
NextAttempt ==
  call' = IF Len(call.todo) = 1 THEN Idle
          ELSE [call EXCEPT !.pc = "called", !.todo = Tail(@), !.spent = 0,
                            !.initial = 0, !.read = 0]

-----------------------------------------------------------------------------
(* reboundReplan *)

CloseToGoal ==
  /\ call.pc = "called" /\ call.start = call.target
  /\ NextAttempt
  /\ UNCHANGED <<now, local, first, forced>>

ByPolynomial == first \/ Head(call.todo) = "polynomial" \/ forced

InitFromPolynomial ==
  /\ call.pc \in {"called", "regenerate"} /\ ByPolynomial
  /\ first' = FALSE /\ forced' = FALSE
  /\ call' = [call EXCEPT !.pc = "optimize", !.initial = call.start, !.read = call.taken]
  /\ UNCHANGED <<now, local>>

\* With no sample of the previous trajectory left the code reads before the
\* first element of segment_point, with one and no polynomial behind the last
\* of pseudo_arc_length: what follows is undefined.
Undefined == Samples = 0 \/ (Samples = 1 /\ local.to = call.target)

\* Mutant: the previous trajectory is taken up where it began.
ResumeAtStart == local.from

ResumeAt == PositionAt(local, now - local.start)

PathLength == Distance(ResumeAt, local.to) + Distance(local.to, call.target)

\* The rest of the previous trajectory from now on, and a polynomial to the
\* target.  A path of no length may never yield the seven points the loop waits
\* for; too long a path is given up for a polynomial.
InitFromPrevious ==
  /\ call.pc = "called" /\ ~ByPolynomial
  /\ \/ /\ Undefined
        /\ call' = [call EXCEPT !.pc = "undefined"] /\ forced' = forced
     \/ /\ ~Undefined /\ PathLength = 0
        /\ call' = [call EXCEPT !.pc = "endless"] /\ forced' = forced
     \/ /\ ~Undefined /\ TooLong < PathLength
        /\ call' = [call EXCEPT !.pc = "regenerate"] /\ forced' = TRUE
     \/ /\ ~Undefined /\ PathLength <= TooLong
        /\ call' = [call EXCEPT !.pc = "optimize", !.initial = ResumeAt, !.read = now]
        /\ forced' = forced
  /\ UNCHANGED <<now, local, first>>

\* No variant of the initial path succeeds, or the times are reallocated and
\* the refined trajectory hits something.
OptimizeFails ==
  /\ call.pc = "optimize"
  /\ NextAttempt
  /\ UNCHANGED <<now, local, first, forced>>

\* A variant succeeds; where a limit is exceeded its time is stretched.
\* updateTrajInfo, and callReboundReplan publishes the trajectory.
Install ==
  /\ call.pc = "optimize"
  /\ \E stretch \in {1, 2} :
       UpdateTrajInfo(call.initial, call.target,
                      stretch * Distance(call.initial, call.target), call.read)
  /\ call' = Idle
  /\ UNCHANGED <<now, first, forced>>

EmergencyStop(odom, seen) ==
  /\ call.pc = "idle" /\ local.id < MaxTrajs
  /\ UpdateTrajInfo(odom, odom, StopTime, seen)
  /\ UNCHANGED <<now, first, forced, call>>

PlannerInit ==
  /\ now = 0
  /\ local = [id |-> 0, start |-> 0, from |-> 0, to |-> 0, duration |-> 0, taken |-> 0]
  /\ first = TRUE /\ forced = FALSE
  /\ call = Idle

Planning == call.pc \in {"called", "regenerate", "optimize"}

\* A call lasts MaxPlan ticks at the most.
Tick ==
  /\ now < MaxNow
  /\ Planning => call.spent < MaxPlan
  /\ now' = now + 1
  /\ call' = IF Planning THEN [call EXCEPT !.spent = @ + 1] ELSE call
  /\ UNCHANGED <<local, first, forced>>

=============================================================================
