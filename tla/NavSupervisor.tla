---------------------------- MODULE NavSupervisor ----------------------------
(***************************************************************************)
(* edgellm_vlm_ros/scripts/vlm_nav_supervisor.py: switches one VLM between *)
(* point goals and altitude primitives.  The node's state is one record,   *)
(* and each method the callbacks share an operator from record to record.  *)
(*                                                                         *)
(* A stamp is "fresh" up to max_proposal_age_s, then "old".  A rejection   *)
(* counter is only compared with its limit, so it stops there.  A call of  *)
(* a service is "none", "sent", or done with its answer.                   *)
(***************************************************************************)
EXTENDS Naturals

CONSTANTS PointRejectionLimit, PrimitiveRejectionLimit

ASSUME LimitsAssumption ==
  PointRejectionLimit \in Nat \ {0} /\ PrimitiveRejectionLimit \in Nat \ {0}

VARIABLES
  supervisor,
  services_ready     \* the services discovered: service_is_ready of its clients

supervisorVars == <<supervisor, services_ready>>

Services == {"mode", "point", "primitive"}
States == {"POINT_NAV", "ALTITUDE_ADJUST", "SETTLE", "HOLD"}
\* What a proposal says: not yet one, refused by the gate, accepted.
Contents == {"none", "rejected", "point", "altitude", "move"}
Proposals == [says : Contents, stamp : {"none", "fresh", "old"}, executed : BOOLEAN]
NoProposal == [says |-> "none", stamp |-> "none", executed |-> FALSE]
Accepted(p) == p.says \notin {"none", "rejected"}

SupervisorTypeOK ==
  /\ services_ready \subseteq Services
  /\ supervisor \in
       [state : States, auto_execute : BOOLEAN,
        requested : {"none", "point", "primitive"},    \* requested_point_mode
        mode_call : {"none", "point", "primitive", "answered"},
        execute_call : {"none", "sent", "success", "failed"},
        execute_kind : {"none", "point", "primitive"},
        settled : BOOLEAN,
        point : Proposals, primitive : Proposals,
        point_rejections : 0..PointRejectionLimit,
        primitive_rejections : 0..PrimitiveRejectionLimit]

SupervisorInit ==
  /\ services_ready = {}
  /\ supervisor =
       [state |-> "POINT_NAV", auto_execute |-> FALSE, requested |-> "none",
        mode_call |-> "none", execute_call |-> "none", execute_kind |-> "none",
        settled |-> FALSE, point |-> NoProposal, primitive |-> NoProposal,
        point_rejections |-> 0, primitive_rejections |-> 0]

UpTo(limit, n) == IF n > limit THEN limit ELSE n
PointRejected(s) ==
  [s EXCEPT !.point_rejections = UpTo(PointRejectionLimit, @ + 1)]
PrimitiveRejected(s) ==
  [s EXCEPT !.primitive_rejections = UpTo(PrimitiveRejectionLimit, @ + 1)]

Transition(s, state) ==
  IF s.state = state THEN s ELSE [s EXCEPT !.state = state, !.settled = FALSE]

\* Mutant: a dropped request is remembered as made.
RemembersDropped(s, mode) ==
  IF s.requested = mode \/ "mode" \notin services_ready THEN s
  ELSE [s EXCEPT !.requested = mode, !.mode_call = IF @ = "none" THEN mode ELSE @]

\* A request while another is out, or without a server, is dropped; it is
\* made again on the next tick because "requested" still differs.
RequestPointMode(s, mode) ==
  IF s.requested = mode \/ s.mode_call # "none" \/ "mode" \notin services_ready
  THEN s
  ELSE [s EXCEPT !.mode_call = mode, !.requested = mode]

PointIsStale(s) == s.point.stamp = "old" /\ ~s.point.executed

\* Mutant: a call does not wait for the one before it.
ExecutesAtOnce(s, p) == ~p.executed /\ Accepted(p) /\ p.stamp = "fresh"

CanExecute(s, p) ==
  s.execute_call = "none" /\ ~p.executed /\ Accepted(p) /\ p.stamp = "fresh"

ExecutePoint(s) ==
  IF "point" \notin services_ready THEN s
  ELSE [s EXCEPT !.point.executed = TRUE, !.execute_kind = "point", !.execute_call = "sent"]

\* The supervisor lets altitude primitives through only.
ExecutePrimitive(s) ==
  IF "primitive" \notin services_ready THEN s
  ELSE IF s.primitive.says # "altitude"
  THEN PrimitiveRejected([s EXCEPT !.primitive.executed = TRUE])
  ELSE [s EXCEPT !.primitive.executed = TRUE, !.execute_kind = "primitive",
                 !.execute_call = "sent"]

StepPointNav(s, force_execute) ==
  LET asked == RequestPointMode(s, "point")
      aged  == IF PointIsStale(asked) THEN PointRejected(asked) ELSE asked
  IN  IF aged.point_rejections >= PointRejectionLimit
      THEN RequestPointMode(
             Transition([aged EXCEPT !.primitive_rejections = 0, !.primitive = NoProposal],
                        "ALTITUDE_ADJUST"), "primitive")
      ELSE IF force_execute /\ CanExecute(aged, aged.point) THEN ExecutePoint(aged)
      ELSE aged

StepAltitudeAdjust(s, force_execute) ==
  LET asked == RequestPointMode(s, "primitive")
  IN  IF asked.primitive_rejections >= PrimitiveRejectionLimit
      THEN Transition(asked, "HOLD")
      ELSE IF force_execute /\ CanExecute(asked, asked.primitive)
      THEN ExecutePrimitive(asked)
      ELSE asked

StepSettle(s) ==
  IF s.settled
  THEN RequestPointMode(
         Transition([s EXCEPT !.point_rejections = 0, !.point = NoProposal], "POINT_NAV"), "point")
  ELSE s

StepHold(s) ==
  LET asked == RequestPointMode(s, "point")
  IN  IF Accepted(asked.point)
      THEN Transition([asked EXCEPT !.point_rejections = 0], "POINT_NAV")
      ELSE asked

Step(s, force_execute) ==
  CASE s.state = "POINT_NAV"       -> StepPointNav(s, force_execute)
    [] s.state = "ALTITUDE_ADJUST" -> StepAltitudeAdjust(s, force_execute)
    [] s.state = "SETTLE"          -> StepSettle(s)
    [] s.state = "HOLD"            -> StepHold(s)

CheckModeFuture(s) ==
  IF s.mode_call = "answered" THEN [s EXCEPT !.mode_call = "none"] ELSE s

CheckExecuteFuture(s) ==
  LET done == [s EXCEPT !.execute_call = "none", !.execute_kind = "none"]
  IN  CASE s.execute_call = "success" ->
             IF s.execute_kind = "primitive" THEN Transition(done, "SETTLE") ELSE done
        [] s.execute_call = "failed" ->
             IF s.execute_kind = "primitive" THEN PrimitiveRejected(done) ELSE PointRejected(done)
        [] OTHER -> s

CheckFutures(s) == CheckExecuteFuture(CheckModeFuture(s))

-----------------------------------------------------------------------------
(* The callbacks                                                           *)

OnTimer ==
  /\ supervisor' = Step(CheckFutures(supervisor), supervisor.auto_execute)
  /\ UNCHANGED services_ready

OnStep ==
  /\ supervisor' = Step(supervisor, TRUE)
  /\ UNCHANGED services_ready

OnSetAutoExecute(auto) ==
  /\ supervisor' = [supervisor EXCEPT !.auto_execute = auto]
  /\ UNCHANGED services_ready

Heard(says) == [says |-> says, stamp |-> "fresh", executed |-> FALSE]

OnPointProposal(says) ==
  LET heard == [supervisor EXCEPT !.point = Heard(says)]
  IN  /\ supervisor' = CASE heard.state # "POINT_NAV" -> heard
                         [] says # "rejected" -> [heard EXCEPT !.point_rejections = 0]
                         [] OTHER -> PointRejected(heard)
      /\ UNCHANGED services_ready

OnPrimitiveProposal(says) ==
  LET heard == [supervisor EXCEPT !.primitive = Heard(says)]
  IN  /\ supervisor' = CASE heard.state # "ALTITUDE_ADJUST" -> heard
                         [] says # "rejected" -> [heard EXCEPT !.primitive_rejections = 0]
                         [] OTHER -> PrimitiveRejected(heard)
      /\ UNCHANGED services_ready

\* The clock passes max_proposal_age_s or settle_s.
TimePasses ==
  /\ \/ /\ supervisor.point.stamp = "fresh"
        /\ supervisor' = [supervisor EXCEPT !.point.stamp = "old"]
     \/ /\ supervisor.primitive.stamp = "fresh"
        /\ supervisor' = [supervisor EXCEPT !.primitive.stamp = "old"]
     \/ /\ supervisor.state = "SETTLE" /\ ~supervisor.settled
        /\ supervisor' = [supervisor EXCEPT !.settled = TRUE]
  /\ UNCHANGED services_ready

Discover ==
  /\ services_ready = {}
  /\ services_ready' = Services
  /\ UNCHANGED supervisor
=============================================================================
