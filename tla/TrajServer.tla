------------------------------- MODULE TrajServer -------------------------------
(***************************************************************************)
(* The trajectory server (traj_server.cpp) behind the planner: every 10 ms *)
(* it commands the point of the trajectory it received last at which the   *)
(* vehicle should be, and turns the yaw towards where the trajectory goes. *)
(*                                                                         *)
(* Both processes read the same clock.  Assumed: the server commands in    *)
(* every tick, a trajectory is MaxDelay ticks in transit at the most, and  *)
(* the vehicle is where it was commanded to be.  Angles are whole, PI is   *)
(* HalfTurn; the direction of the trajectory is any of Headings; yaw_dot   *)
(* is left out.                                                            *)
(***************************************************************************)
EXTENDS PlannerManager

CONSTANTS
  HalfTurn,  \* PI
  Rate,      \* max_yaw_rate_, per tick
  Headings,  \* the directions a trajectory may go
  Ahead,     \* time_forward_
  MaxDelay   \* bound: the ticks a trajectory is in transit

ASSUME AnglesAssumption ==
  /\ HalfTurn \in Nat \ {0} /\ Rate \in Nat /\ Ahead \in Nat /\ MaxDelay \in Nat
  /\ Headings \subseteq -HalfTurn .. HalfTurn

VARIABLES
  link,      \* trajectories published and not yet received
  traj,      \* start_time_, traj_id_, traj_ and traj_duration_
  yaw,       \* last_yaw_
  timeLast,  \* time_last
  cmd        \* the command published last

serverVars == <<link, traj, yaw, timeLast, cmd>>
vars == <<now, plannerVars, serverVars>>

-----------------------------------------------------------------------------

BsplineCallback(msg) == traj' = msg

Deliver ==
  /\ link # <<>>
  /\ BsplineCallback(Head(link))
  /\ link' = Tail(link)
  /\ UNCHANGED <<now, plannerVars, yaw, timeLast, cmd>>

-----------------------------------------------------------------------------
(* calculate_yaw *)

Wrapped(angle) ==
  IF angle < -HalfTurn THEN angle + 2 * HalfTurn
  ELSE IF angle > HalfTurn THEN angle - 2 * HalfTurn ELSE angle

\* How far to turn, the short way round.
Turn(goal) ==
  CASE goal - yaw > HalfTurn -> goal - yaw - 2 * HalfTurn
    [] goal - yaw < -HalfTurn -> goal - yaw + 2 * HalfTurn
    [] OTHER -> goal - yaw

\* Towards the goal by as much as the time allows.
Limited(goal, most) ==
  CASE Turn(goal) < -most -> Wrapped(yaw - most)
    [] Turn(goal) > most -> Wrapped(yaw + most)
    [] OTHER -> goal

\* Mutant: the filter is not left out across the turn.
FilteredAlways(angle, most) == {(yaw + angle) \div 2, -((-(yaw + angle)) \div 2)}

\* The filter takes the mean, unless the yaw went round; either way it rounds.
Filtered(angle, most) ==
  IF Distance(angle, yaw) <= most
  THEN {(yaw + angle) \div 2, -((-(yaw + angle)) \div 2)}
  ELSE {angle}

\* Where the trajectory goes, seen from the point commanded; none when it rests.
Goals(tCur) ==
  LET pos == PositionAt(traj, tCur)
      seen == IF tCur + Ahead <= traj.duration THEN PositionAt(traj, tCur + Ahead)
              ELSE PositionAt(traj, traj.duration)
  IN IF seen = pos THEN {yaw} ELSE Headings

\* The static time_last begins with the first command.
TimeLast == IF cmd.mode = "none" THEN now ELSE timeLast

Yaws(tCur) ==
  LET most == Rate * (now - TimeLast)
  IN UNION {Filtered(Limited(goal, most), most) : goal \in Goals(tCur)}

\* Along the trajectory, hovering at its end, or, before its start, the origin
\* and yaw zero.
Commands ==
  LET tCur == now - traj.start
  IN CASE 0 <= tCur /\ tCur < traj.duration ->
            [mode : {"fly"}, pos : {PositionAt(traj, tCur)}, yaw : Yaws(tCur)]
       [] traj.duration <= tCur ->
            [mode : {"hover"}, pos : {PositionAt(traj, traj.duration)}, yaw : {yaw}]
       [] OTHER -> [mode : {"invalid"}, pos : {0}, yaw : {0}]

\* id and start are history, of the trajectory the command comes from.
CmdCallback ==
  /\ traj.id # 0
  /\ \E c \in Commands :
       /\ cmd' = [mode |-> c.mode, pos |-> c.pos, at |-> now, id |-> traj.id, start |-> traj.start]
       /\ yaw' = c.yaw
  /\ timeLast' = now
  /\ UNCHANGED <<now, plannerVars, link, traj>>

-----------------------------------------------------------------------------
(* The planner and the server *)

Publish(m) == link' = Append(link, m)

PlannerStep ==
  \/ /\ PlanFromGlobalTraj(cmd.pos, cmd.at) \/ PlanFromCurrentTraj \/ CloseToGoal
        \/ InitFromPolynomial \/ InitFromPrevious \/ OptimizeFails
     /\ UNCHANGED serverVars
  \/ /\ Install \/ EmergencyStop(cmd.pos, cmd.at)
     /\ Publish(local')
     /\ UNCHANGED <<traj, yaw, timeLast, cmd>>

\* Time goes on when the server has commanded and nothing is late.
TimePasses ==
  /\ traj.id # 0 => cmd.at = now
  /\ \A i \in DOMAIN link : now - link[i].start < MaxDelay
  /\ Tick
  /\ UNCHANGED serverVars

Init ==
  /\ PlannerInit
  /\ link = <<>> /\ traj = local
  /\ yaw = 0 /\ timeLast = 0
  /\ cmd \in [mode : {"none"}, pos : Places, at : {0}, id : {0}, start : {0}]

Next == PlannerStep \/ Deliver \/ CmdCallback \/ TimePasses

Spec == Init /\ [][Next]_vars

-----------------------------------------------------------------------------

TypeOK ==
  /\ now \in 0 .. MaxNow /\ local.id \in 0 .. MaxTrajs
  /\ call.pc \in {"idle", "called", "regenerate", "optimize", "undefined", "endless"}
  /\ yaw \in -HalfTurn .. HalfTurn /\ timeLast \in 0 .. now
  /\ cmd.mode \in {"none", "fly", "hover", "invalid"} /\ cmd.pos \in Places

\* No command is the origin the server falls back to before a trajectory's
\* start: what is received has begun.  (cmdCallback, updateTrajInfo)
CommandsAreValid == cmd.mode # "invalid"

\* Between two commands the vehicle is never sent farther than it could fly:
\* along a trajectory since the last command, and when a new one takes over
\* since then or its start was read, and since it began, provided that the one
\* before was being followed when it was read.
\* (reboundReplan, planFromCurrentTraj, bsplineCallback, cmdCallback)
JumpsAreDelays ==
  [][LET jump == Distance(cmd'.pos, cmd.pos)
     IN IF cmd.id = traj.id THEN jump <= now - cmd.at
        ELSE cmd.id + 1 = traj.id /\ cmd.start + MaxDelay < traj.taken =>
               jump <= (now - Lesser(traj.taken, cmd.at)) + (now - traj.start)]_cmd

\* What the server commands once the planner's trajectory is over is to stay
\* at that trajectory's end.  (bsplineCallback, cmdCallback)
RestsAtTheEnd ==
  cmd.id = local.id /\ cmd.id # 0 /\ cmd.at >= local.start + local.duration => cmd.pos = local.to

ServerInv == TypeOK /\ CommandsAreValid /\ RestsAtTheEnd

\* The yaw turns no faster than the rate, also across the turn, not at all in
\* the first command, and stays a yaw.  (calculate_yaw)
YawKeepsItsRate ==
  [][LET d == Distance(yaw', yaw)
     IN /\ yaw' \in -HalfTurn .. HalfTurn
        /\ d <= Rate * (now - TimeLast) \/ 2 * HalfTurn - d <= Rate * (now - TimeLast)]_yaw

=============================================================================
