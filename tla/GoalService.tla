---------------------------- MODULE GoalService ----------------------------
(***************************************************************************)
(* What the planner promises to whoever sends it goals, as the client      *)
(* modules document it (imav_bt/interfaces.py, "The goal_status            *)
(* contract"): every goal message is answered at once, either with a       *)
(* rejection or with an acceptance that replaces the goal being flown;     *)
(* "reached" is said of the goal accepted last, once.  The promise says    *)
(* nothing about when, and there is no status for being stuck.             *)
(*                                                                         *)
(* Goal messages are numbered in the order of their publication; the topic *)
(* keeps the newest unread one only, so a number may be skipped.  A status *)
(* carries the number of the goal it is about, which the topic does not.   *)
(***************************************************************************)
EXTENDS Naturals, Sequences

CONSTANT Reasons     \* the reasons a goal is turned down for

VARIABLES
  received,          \* number of the goal message taken last
  current,           \* number of the goal being flown, 0 for none
  said               \* the statuses published last, and the goal they are about

vars == <<received, current, said>>

Say(statuses, n) ==
  said' = [bit |-> 1 - said.bit, statuses |-> statuses, about |-> n]

Init ==
  /\ received = 0
  /\ current = 0
  /\ said = [bit |-> 0, statuses |-> << >>, about |-> 0]

Reject ==
  /\ received' > received
  /\ \E reason \in Reasons : Say(<< <<"rejected", reason>> >>, received')
  /\ UNCHANGED current

Accept ==
  /\ received' > received
  /\ current' = received'
  /\ Say(<< <<"accepted:safety_bubble">>, <<"accepted">> >>, received')

Reach ==
  /\ current # 0
  /\ current' = 0
  /\ Say(<< <<"reached">> >>, current)
  /\ UNCHANGED received

Next == Reject \/ Accept \/ Reach

Spec == Init /\ [][Next]_vars
=============================================================================
