---------------------------- MODULE PlannerLink -----------------------------
(***************************************************************************)
(* The two topics between a client that sends goals and the planner, which *)
(* is known by its promise only (GoalService, which EgoReplanFsm keeps).   *)
(* Both topics are reliable.  The planner's subscription to                *)
(* /move_base_simple/goal keeps one message, the newest; the client's to   *)
(* planning/goal_status queues them.  A status in transit is a record, its *)
(* "about" a history field: the message is a bare string.                  *)
(***************************************************************************)
EXTENDS Integers, Sequences

CONSTANT Reasons     \* the reasons a goal is turned down for

VARIABLES
  goal_topic,        \* number of the unread goal message, 0 for none
  status_topic,      \* the statuses the client has not read, in order
  received, current, said

planner == <<received, current, said>>
link    == <<goal_topic, status_topic, received, current, said>>

Planner == INSTANCE GoalService

LinkInit ==
  /\ goal_topic = 0
  /\ status_topic = << >>
  /\ Planner!Init

Deliver ==
  status_topic' = status_topic \o
    [i \in DOMAIN said'.statuses |-> [status |-> said'.statuses[i], about |-> said'.about]]

\* The planner's waypointCallback reads the goal and answers it.
TakeGoal ==
  /\ goal_topic # 0
  /\ received' = goal_topic
  /\ goal_topic' = 0
  /\ Planner!Reject \/ Planner!Accept
  /\ Deliver

\* The planner says the goal it flies is reached.
ReachGoal ==
  /\ Planner!Reach
  /\ Deliver
  /\ UNCHANGED goal_topic

\* planner_status_releases_goal, GoalStatus.is_terminal: the planner's last
\* word on a goal.  "failed:" is never published.
Refused(status) == status[1] = "rejected"

\* Mutant: a rejected goal is not given up.
TerminalReached(status) == status[1] = "reached"

Terminal(status) == status[1] \in {"reached", "rejected"}

\* The goal has a last word still to come: it is unread, flown, or answered.
Pending(n) ==
  \/ goal_topic = n
  \/ current = n
  \/ \E i \in DOMAIN status_topic :
       status_topic[i].about = n /\ Terminal(status_topic[i].status)
=============================================================================
