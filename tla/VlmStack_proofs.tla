---------------------------- MODULE VlmStack_proofs ----------------------------
(***************************************************************************)
(* The supervised stack for every rejection limit and any number of unread *)
(* messages: one move between two settles.  The supervisor is a record     *)
(* that its methods map to records, so each method has a lemma on what it  *)
(* does to the outstanding execute call and to the state.                  *)
(***************************************************************************)
EXTENDS VlmStack, TLAPS

Supervisors ==
  [state : States, auto_execute : BOOLEAN,
   requested : {"none", "point", "primitive"},
   mode_call : {"none", "point", "primitive", "answered"},
   execute_call : {"none", "sent", "success", "failed"},
   execute_kind : {"none", "point", "primitive"},
   settled : BOOLEAN,
   point : Proposals, primitive : Proposals,
   point_rejections : 0..PointRejectionLimit,
   primitive_rejections : 0..PrimitiveRejectionLimit]

\* A primitive is executed while its call is out, and the supervisor settles only
\* when it has taken the answer.
OutstandingMove(s, executed) ==
  /\ executed # << >> => s.execute_call = "success" /\ s.execute_kind = "primitive"
  /\ s.execute_call # "none" /\ s.execute_kind = "primitive" => s.state # "SETTLE"

IInv == StackInv /\ OutstandingMove(supervisor, moves)

-----------------------------------------------------------------------------
(* What the supervisor's methods keep *)

SameCall(s, t) == t.execute_call = s.execute_call /\ t.execute_kind = s.execute_kind

\* The call is left alone, and nothing settles that did not.
Quiet(s, t) ==
  /\ t \in Supervisors
  /\ SameCall(s, t)
  /\ t.state = "SETTLE" => s.state = "SETTLE"

\* A call goes out.
Sends(s, t) ==
  /\ t \in Supervisors
  /\ s.execute_call = "none" /\ t.execute_call = "sent" /\ t.state # "SETTLE"

LEMMA Counters ==
  /\ \A n \in 0 .. PointRejectionLimit :
       UpTo(PointRejectionLimit, n + 1) \in 0 .. PointRejectionLimit
  /\ \A n \in 0 .. PrimitiveRejectionLimit :
       UpTo(PrimitiveRejectionLimit, n + 1) \in 0 .. PrimitiveRejectionLimit
  /\ 0 \in 0 .. PointRejectionLimit /\ 0 \in 0 .. PrimitiveRejectionLimit
  BY LimitsAssumption DEF UpTo

LEMMA ProposalTypes ==
  /\ NoProposal \in Proposals
  /\ \A says \in Contents : Heard(says) \in Proposals
  /\ \A p \in Proposals : [p EXCEPT !.executed = TRUE] \in Proposals
                          /\ [p EXCEPT !.stamp = "old"] \in Proposals
  BY DEF NoProposal, Heard, Proposals, Contents

LEMMA Rejections ==
  ASSUME NEW s \in Supervisors
  PROVE  /\ Quiet(s, PointRejected(s)) /\ PointRejected(s).state = s.state
         /\ Quiet(s, PrimitiveRejected(s)) /\ PrimitiveRejected(s).state = s.state
<1>1. /\ UpTo(PointRejectionLimit, s.point_rejections + 1) \in 0 .. PointRejectionLimit
      /\ UpTo(PrimitiveRejectionLimit, s.primitive_rejections + 1)
           \in 0 .. PrimitiveRejectionLimit
  BY Counters DEF Supervisors
<1>2. Quiet(s, PointRejected(s)) /\ PointRejected(s).state = s.state
  BY <1>1 DEF PointRejected, Supervisors, Quiet, SameCall
<1>3. Quiet(s, PrimitiveRejected(s)) /\ PrimitiveRejected(s).state = s.state
  BY <1>1 DEF PrimitiveRejected, Supervisors, Quiet, SameCall
<1> QED
  BY <1>2, <1>3

LEMMA Transitions ==
  ASSUME NEW s \in Supervisors, NEW state \in States
  PROVE  /\ Transition(s, state) \in Supervisors
         /\ SameCall(s, Transition(s, state))
         /\ Transition(s, state).state = state
  BY DEF Transition, Supervisors, SameCall

LEMMA Requests ==
  ASSUME NEW s \in Supervisors, NEW mode \in {"point", "primitive"}
  PROVE  Quiet(s, RequestPointMode(s, mode)) /\ RequestPointMode(s, mode).state = s.state
  BY DEF RequestPointMode, Supervisors, Quiet, SameCall

LEMMA Executions ==
  ASSUME NEW s \in Supervisors, s.execute_call = "none", s.state # "SETTLE"
  PROVE  /\ Quiet(s, ExecutePoint(s)) \/ Sends(s, ExecutePoint(s))
         /\ Quiet(s, ExecutePrimitive(s)) \/ Sends(s, ExecutePrimitive(s))
<1>1. s.point \in Proposals /\ s.primitive \in Proposals
  BY DEF Supervisors
<1>2. Quiet(s, s)
  BY DEF Quiet, SameCall
<1>3. Quiet(s, ExecutePoint(s)) \/ Sends(s, ExecutePoint(s))
  <2> DEFINE t == [s EXCEPT !.point = [s.point EXCEPT !.executed = TRUE],
                            !.execute_kind = "point", !.execute_call = "sent"]
  <2>1. ExecutePoint(s) \in {s, t}
    BY DEF ExecutePoint, Supervisors
  <2>2. [s.point EXCEPT !.executed = TRUE] \in Proposals
    BY <1>1, ProposalTypes
  <2>3. Sends(s, t)
    BY <2>2 DEF Sends, Supervisors
  <2> QED
    BY <1>2, <2>1, <2>3
<1>4. Quiet(s, ExecutePrimitive(s)) \/ Sends(s, ExecutePrimitive(s))
  <2> DEFINE p == [s.primitive EXCEPT !.executed = TRUE]
             r == [s EXCEPT !.primitive = p]
             t == [s EXCEPT !.primitive = p, !.execute_kind = "primitive",
                            !.execute_call = "sent"]
  <2>1. p \in Proposals
    BY <1>1, ProposalTypes
  <2>2. [s EXCEPT !.primitive.executed = TRUE] = r
    BY DEF Supervisors
  <2>3. ExecutePrimitive(s) \in {s, PrimitiveRejected(r), t}
    BY <2>2 DEF ExecutePrimitive, Supervisors
  <2> HIDE DEF p
  <2>4. Quiet(s, r) /\ Sends(s, t)
    BY <2>1 DEF Quiet, Sends, SameCall, Supervisors
  <2> HIDE DEF r, t
  <2>5. Quiet(s, PrimitiveRejected(r))
    BY <2>4, Rejections DEF Quiet, SameCall
  <2> QED
    BY <1>2, <2>3, <2>4, <2>5
<1> QED
  BY <1>3, <1>4

\* Steps follow one another.
LEMMA Chain ==
  ASSUME NEW s, NEW t, NEW u, Quiet(s, t), Quiet(t, u) \/ Sends(t, u)
  PROVE  Quiet(s, u) \/ Sends(s, u)
  BY DEF Quiet, Sends, SameCall

LEMMA ForgetsPoint ==
  ASSUME NEW s \in Supervisors
  PROVE  /\ Quiet(s, [s EXCEPT !.point_rejections = 0])
         /\ Quiet(s, [s EXCEPT !.point_rejections = 0, !.point = NoProposal])
         /\ Quiet(s, [s EXCEPT !.primitive_rejections = 0, !.primitive = NoProposal])
  BY Counters, ProposalTypes DEF Quiet, SameCall, Supervisors

\* A step leaves the call alone or sends one, and never settles.
LEMMA StepKeeps ==
  ASSUME NEW s \in Supervisors, NEW force \in BOOLEAN
  PROVE  Quiet(s, Step(s, force)) \/ Sends(s, Step(s, force))
<1>1. CASE s.state = "POINT_NAV"
  <2> DEFINE asked == RequestPointMode(s, "point")
             aged == IF PointIsStale(asked) THEN PointRejected(asked) ELSE asked
             cleared == [aged EXCEPT !.primitive_rejections = 0, !.primitive = NoProposal]
             moved == Transition(cleared, "ALTITUDE_ADJUST")
  <2>1. Quiet(s, asked) /\ asked.state = s.state
    BY Requests
  <2> HIDE DEF asked
  <2>2. Quiet(asked, aged) /\ aged.state = s.state
    BY <2>1, Rejections DEF Quiet, SameCall
  <2>3. Quiet(s, aged)
    BY <2>1, <2>2 DEF Quiet, SameCall
  <2> HIDE DEF aged
  <2>4. Quiet(aged, cleared)
    BY <2>3, ForgetsPoint DEF Quiet
  <2> HIDE DEF cleared
  <2>5. Quiet(cleared, moved)
    BY <2>4, Transitions DEF Quiet, States
  <2> HIDE DEF moved
  <2>6. Quiet(moved, RequestPointMode(moved, "primitive"))
    BY <2>5, Requests DEF Quiet
  <2>7. Quiet(s, RequestPointMode(moved, "primitive"))
    BY <2>3, <2>4, <2>5, <2>6 DEF Quiet, SameCall
  <2>8. ASSUME CanExecute(aged, aged.point)
        PROVE  Quiet(s, ExecutePoint(aged)) \/ Sends(s, ExecutePoint(aged))
    <3>1. Quiet(aged, ExecutePoint(aged)) \/ Sends(aged, ExecutePoint(aged))
      BY <1>1, <2>2, <2>3, <2>8, Executions DEF CanExecute, Quiet
    <3> QED
      BY <2>3, <3>1, Chain
  <2>9. Step(s, force) = StepPointNav(s, force)
    BY <1>1 DEF Step
  <2>10. Step(s, force) \in {RequestPointMode(moved, "primitive"), aged}
         \/ (CanExecute(aged, aged.point) /\ Step(s, force) = ExecutePoint(aged))
    BY <2>9, Zenon DEF StepPointNav, moved, cleared, aged, asked
  <2> QED
    BY <2>3, <2>7, <2>8, <2>10
<1>2. CASE s.state = "ALTITUDE_ADJUST"
  <2> DEFINE asked == RequestPointMode(s, "primitive")
  <2>1. Quiet(s, asked) /\ asked.state = s.state
    BY Requests
  <2> HIDE DEF asked
  <2>2. Quiet(s, Transition(asked, "HOLD"))
    BY <2>1, Transitions DEF Quiet, SameCall, States
  <2>3. ASSUME CanExecute(asked, asked.primitive)
        PROVE  Quiet(s, ExecutePrimitive(asked)) \/ Sends(s, ExecutePrimitive(asked))
    <3>1. Quiet(asked, ExecutePrimitive(asked)) \/ Sends(asked, ExecutePrimitive(asked))
      BY <1>2, <2>1, <2>3, Executions DEF CanExecute, Quiet
    <3> QED
      BY <2>1, <3>1, Chain
  <2>4. Step(s, force) = StepAltitudeAdjust(s, force)
    BY <1>2 DEF Step
  <2>5. Step(s, force) \in {Transition(asked, "HOLD"), asked}
        \/ (CanExecute(asked, asked.primitive) /\ Step(s, force) = ExecutePrimitive(asked))
    BY <2>4, Zenon DEF StepAltitudeAdjust, asked
  <2> QED
    BY <2>1, <2>2, <2>3, <2>5
<1>3. CASE s.state = "SETTLE"
  <2> DEFINE cleared == [s EXCEPT !.point_rejections = 0, !.point = NoProposal]
             moved == Transition(cleared, "POINT_NAV")
  <2>1. Quiet(s, cleared)
    BY ForgetsPoint
  <2> HIDE DEF cleared
  <2>2. Quiet(cleared, moved)
    BY <2>1, Transitions DEF Quiet, States
  <2> HIDE DEF moved
  <2>3. Quiet(s, RequestPointMode(moved, "point"))
    BY <2>1, <2>2, Requests DEF Quiet, SameCall
  <2>4. Step(s, force) = StepSettle(s)
    BY <1>3 DEF Step
  <2>5. Step(s, force) \in {RequestPointMode(moved, "point"), s}
    BY <2>4 DEF StepSettle, moved, cleared
  <2> QED
    BY <2>3, <2>5 DEF Quiet, SameCall
<1>4. CASE s.state = "HOLD"
  <2> DEFINE asked == RequestPointMode(s, "point")
             cleared == [asked EXCEPT !.point_rejections = 0]
  <2>1. Quiet(s, asked)
    BY Requests
  <2> HIDE DEF asked
  <2>2. Quiet(asked, cleared)
    BY <2>1, ForgetsPoint DEF Quiet
  <2> HIDE DEF cleared
  <2>3. Quiet(s, Transition(cleared, "POINT_NAV"))
    BY <2>1, <2>2, Transitions DEF Quiet, SameCall, States
  <2>4. Step(s, force) = StepHold(s)
    BY <1>4 DEF Step
  <2>5. Step(s, force) \in {Transition(cleared, "POINT_NAV"), asked}
    BY <2>4 DEF StepHold, asked, cleared
  <2> QED
    BY <2>1, <2>3, <2>5
<1> QED
  BY <1>1, <1>2, <1>3, <1>4 DEF Supervisors, States

\* Taking the answers: nothing but the success of a primitive starts to settle.
LEMMA FuturesKeep ==
  ASSUME NEW s \in Supervisors
  PROVE  LET t == CheckFutures(s) IN
         /\ t \in Supervisors
         /\ s.execute_call \in {"none", "sent"} => SameCall(s, t) /\ t.state = s.state
         /\ s.execute_call \in {"success", "failed"} => t.execute_call = "none"
         /\ s.execute_call = "success" /\ s.execute_kind = "primitive" => t.state = "SETTLE"
<1> DEFINE m == CheckModeFuture(s)
           done == [m EXCEPT !.execute_call = "none", !.execute_kind = "none"]
<1>1. m \in Supervisors /\ SameCall(s, m) /\ m.state = s.state
  BY DEF CheckModeFuture, Supervisors, SameCall
<1> HIDE DEF m
<1>2. done \in Supervisors /\ done.execute_call = "none" /\ done.state = m.state
  BY <1>1 DEF Supervisors
<1> HIDE DEF done
<1>3. CheckFutures(s) =
        CASE m.execute_call = "success" ->
               IF m.execute_kind = "primitive" THEN Transition(done, "SETTLE") ELSE done
          [] m.execute_call = "failed" ->
               IF m.execute_kind = "primitive" THEN PrimitiveRejected(done)
               ELSE PointRejected(done)
          [] OTHER -> m
  BY DEF CheckFutures, CheckExecuteFuture, m, done
<1>4. /\ Transition(done, "SETTLE") \in Supervisors
      /\ Transition(done, "SETTLE").execute_call = "none"
      /\ Transition(done, "SETTLE").state = "SETTLE"
  BY <1>2, Transitions DEF SameCall, States
<1>5. /\ PrimitiveRejected(done) \in Supervisors /\ PointRejected(done) \in Supervisors
      /\ PrimitiveRejected(done).execute_call = "none"
      /\ PointRejected(done).execute_call = "none"
  BY <1>2, Rejections DEF Quiet, SameCall
<1>6. s.execute_call \in {"none", "sent", "success", "failed"}
  BY DEF Supervisors
<1> QED
  BY <1>1, <1>2, <1>3, <1>4, <1>5, <1>6 DEF SameCall

-----------------------------------------------------------------------------
(* The stack's steps *)

\* The types of the stack around the supervisor.
AroundTypeOK ==
  /\ ServiceTypeOK
  /\ services_ready \subseteq Services
  /\ proposal_topic \in [Gates -> Seq(Contents)]
  /\ \A g \in Gates : Len(proposal_topic[g]) <= MaxUnread
  /\ latest_decision \in [Gates -> Contents]
  /\ moves \in Seq({"altitude", "move"})

LEMMA Parts ==
  IInv <=> /\ AroundTypeOK /\ supervisor \in Supervisors /\ OneMovePerSettle
           /\ OutstandingMove(supervisor, moves)
  BY DEF IInv, StackInv, TypeOK, SupervisorTypeOK, AroundTypeOK, Supervisors

LEMMA PartsNext ==
  IInv' <=> /\ AroundTypeOK' /\ supervisor' \in Supervisors /\ OneMovePerSettle'
            /\ OutstandingMove(supervisor', moves')
  BY DEF IInv, StackInv, TypeOK, SupervisorTypeOK, AroundTypeOK, Supervisors, OutstandingMove

LEMMA InitIInv == Init => IInv
<1> SUFFICES ASSUME Init PROVE IInv
  OBVIOUS
<1>1. supervisor \in Supervisors
  BY Counters, ProposalTypes DEF Init, SupervisorInit, Supervisors, States
<1>2. AroundTypeOK
  <2>1. /\ services_ready = {} /\ proposal_topic = [g \in Gates |-> << >>]
        /\ latest_decision = [g \in Gates |-> "none"] /\ moves = << >>
    BY DEF Init, SupervisorInit
  <2>2. ServiceTypeOK
    BY DEF Init, ServiceInit, ServiceTypeOK
  <2>3. \A g \in Gates : Len(proposal_topic[g]) <= MaxUnread
    BY <2>1, MaxUnreadAssumption
  <2> QED
    BY <2>1, <2>2, <2>3 DEF AroundTypeOK, Contents
<1>3. OneMovePerSettle /\ OutstandingMove(supervisor, moves)
  BY DEF Init, SupervisorInit, OneMovePerSettle, OutstandingMove
<1> QED
  BY <1>1, <1>2, <1>3, Parts

\* A step of the supervisor that leaves everything else alone.
LEMMA Alone ==
  ASSUME IInv, UNCHANGED <<service, gateVars>>, services_ready' \subseteq Services,
         Quiet(supervisor, supervisor') \/ Sends(supervisor, supervisor')
  PROVE  IInv'
<1>1. AroundTypeOK' /\ OneMovePerSettle'
  BY Parts DEF AroundTypeOK, ServiceTypeOK, service, gateVars, OneMovePerSettle
<1>2. supervisor' \in Supervisors
  BY DEF Quiet, Sends
<1>3. OutstandingMove(supervisor', moves')
  BY Parts DEF OutstandingMove, Quiet, Sends, SameCall, gateVars
<1> QED
  BY <1>1, <1>2, <1>3, PartsNext

LEMMA PublishKeeps ==
  ASSUME IInv, NEW text, PublishResult(text)
  PROVE  IInv'
<1>1. \A g \in Gates : Judge(g, text) \in Contents
  BY DEF Judge, Gates, Understood, Contents
<1>2. /\ proposal_topic' = [g \in Gates |-> Append(proposal_topic[g], Judge(g, text))]
      /\ latest_decision' = [g \in Gates |-> Judge(g, text)]
      /\ \A g \in Gates : Len(proposal_topic[g]) < MaxUnread
      /\ UNCHANGED <<supervisorVars, moves>>
  BY DEF PublishResult
<1>3. ServiceTypeOK'
  BY Parts DEF PublishResult, Answer, AroundTypeOK, ServiceTypeOK
<1>4. \A g \in Gates : /\ proposal_topic'[g] \in Seq(Contents)
                       /\ Len(proposal_topic'[g]) <= MaxUnread
  BY <1>1, <1>2, Parts, MaxUnreadAssumption DEF AroundTypeOK
<1>5. AroundTypeOK'
  BY <1>1, <1>2, <1>3, <1>4, Parts DEF AroundTypeOK, supervisorVars
<1> QED
  BY <1>2, <1>5, Parts, PartsNext DEF supervisorVars, OneMovePerSettle

LEMMA AnswerModeKeeps == ASSUME IInv, AnswerMode PROVE IInv'
<1>1. Quiet(supervisor, supervisor')
  BY Parts DEF AnswerMode, Quiet, SameCall, Supervisors
<1>2. AroundTypeOK'
  BY Parts DEF AnswerMode, SetMode, AroundTypeOK, ServiceTypeOK, StartModes, gateVars
<1>3. OneMovePerSettle' /\ OutstandingMove(supervisor', moves') /\ supervisor' \in Supervisors
  BY <1>1, Parts DEF AnswerMode, gateVars, OneMovePerSettle, OutstandingMove, Quiet, SameCall
<1> QED
  BY <1>2, <1>3, PartsNext

LEMMA NodeStepKeeps == ASSUME IInv, NodeStep PROVE IInv'
<1>1. ServiceTypeOK'
  BY Parts DEF NodeStep, Ask, Answer, AroundTypeOK, ServiceTypeOK
<1>2. UNCHANGED <<supervisorVars, gateVars>>
  BY DEF NodeStep
<1> QED
  BY <1>1, <1>2, Parts, PartsNext
     DEF AroundTypeOK, supervisorVars, gateVars, OneMovePerSettle

LEMMA GateKeeps ==
  ASSUME IInv, NEW g \in Gates, GateOnExecuteNext(g)
  PROVE  IInv'
<1>1. /\ supervisor.execute_call = "sent" /\ supervisor.execute_kind = g
      /\ UNCHANGED <<service, services_ready, proposal_topic, latest_decision>>
  BY DEF GateOnExecuteNext
<1>2. /\ supervisor \in Supervisors /\ moves = << >>
      /\ supervisor.state # "SETTLE" \/ g = "point"
  BY <1>1, Parts DEF OutstandingMove, Gates
<1>3. \E answer \in {"success", "failed"} :
        /\ supervisor' = [supervisor EXCEPT !.execute_call = answer]
        /\ answer = "success" =>
             /\ latest_decision[g] \in Understood[g]
             /\ moves' = IF g = "primitive" THEN Append(moves, latest_decision[g]) ELSE moves
        /\ answer = "failed" => moves' = moves
  BY DEF GateOnExecuteNext
<1>4. supervisor' \in Supervisors /\ supervisor'.execute_kind = g
      /\ supervisor'.state = supervisor.state
  BY <1>1, <1>2, <1>3 DEF Supervisors
<1>5. moves' = << >>
      \/ \E move \in {"altitude", "move"} :
           moves' = <<move>> /\ g = "primitive" /\ supervisor'.execute_call = "success"
  BY <1>2, <1>3 DEF Understood, Gates, Supervisors
<1>6. moves' \in Seq({"altitude", "move"}) /\ Len(moves') <= 1
  <2>1. << >> \in Seq({"altitude", "move"}) /\ Len(<< >>) = 0
    OBVIOUS
  <2>2. \A move \in {"altitude", "move"} : <<move>> \in Seq({"altitude", "move"})
                                           /\ Len(<<move>>) = 1
    OBVIOUS
  <2>3. CASE moves' = << >>
    BY <2>1, <2>3
  <2>4. CASE \E move \in {"altitude", "move"} : moves' = <<move>>
    BY <2>2, <2>4
  <2> QED
    BY <1>5, <2>3, <2>4
<1>7. AroundTypeOK'
  BY <1>1, <1>6, Parts DEF AroundTypeOK, ServiceTypeOK, service
<1>8. OutstandingMove(supervisor', moves')
  BY <1>1, <1>2, <1>4, <1>5 DEF OutstandingMove
<1> QED
  BY <1>4, <1>6, <1>7, <1>8, PartsNext DEF OneMovePerSettle

LEMMA HearKeeps ==
  ASSUME IInv, NEW g \in Gates, HearProposal(g)
  PROVE  IInv'
<1> DEFINE says == Head(proposal_topic[g])
<1>1. /\ proposal_topic[g] # << >> /\ proposal_topic[g] \in Seq(Contents)
      /\ Len(proposal_topic[g]) <= MaxUnread
      /\ proposal_topic' = [proposal_topic EXCEPT ![g] = Tail(@)]
      /\ UNCHANGED <<service, latest_decision, moves, services_ready>>
  BY Parts DEF HearProposal, AroundTypeOK, OnPointProposal, OnPrimitiveProposal
<1>2. says \in Contents
  BY <1>1
<1>3. Tail(proposal_topic[g]) \in Seq(Contents) /\ Len(Tail(proposal_topic[g])) <= MaxUnread
  BY <1>1, MaxUnreadAssumption
<1>4. AroundTypeOK'
  BY <1>1, <1>3, Parts DEF AroundTypeOK, ServiceTypeOK, service
<1> HIDE DEF says
<1>5. Heard(says) \in Proposals
  BY <1>2, ProposalTypes
<1>6. Quiet(supervisor, supervisor')
  <2>1. CASE g = "point"
    <3> DEFINE heard == [supervisor EXCEPT !.point = Heard(says)]
    <3>1. Quiet(supervisor, heard)
      BY <1>5, Parts DEF Quiet, SameCall, Supervisors
    <3>2. supervisor' \in {heard, [heard EXCEPT !.point_rejections = 0], PointRejected(heard)}
      BY <2>1 DEF HearProposal, OnPointProposal, says
    <3> HIDE DEF heard
    <3>3. Quiet(heard, heard) /\ Quiet(heard, [heard EXCEPT !.point_rejections = 0])
          /\ Quiet(heard, PointRejected(heard))
      BY <3>1, Rejections, ForgetsPoint DEF Quiet, SameCall
    <3> QED
      BY <3>1, <3>2, <3>3 DEF Quiet, SameCall
  <2>2. CASE g = "primitive"
    <3> DEFINE heard == [supervisor EXCEPT !.primitive = Heard(says)]
    <3>1. Quiet(supervisor, heard)
      BY <1>5, Parts DEF Quiet, SameCall, Supervisors
    <3>2. supervisor' \in {heard, [heard EXCEPT !.primitive_rejections = 0],
                           PrimitiveRejected(heard)}
      BY <2>2 DEF HearProposal, OnPrimitiveProposal, says
    <3> HIDE DEF heard
    <3>3. Quiet(heard, heard) /\ Quiet(heard, [heard EXCEPT !.primitive_rejections = 0])
          /\ Quiet(heard, PrimitiveRejected(heard))
      BY <3>1, Rejections, Counters DEF Quiet, SameCall, Supervisors
    <3> QED
      BY <3>1, <3>2, <3>3 DEF Quiet, SameCall
  <2> QED
    BY <2>1, <2>2 DEF Gates
<1>7. OutstandingMove(supervisor', moves') /\ OneMovePerSettle'
  BY <1>1, <1>6, Parts DEF OutstandingMove, OneMovePerSettle, Quiet, SameCall
<1> QED
  BY <1>4, <1>6, <1>7, PartsNext DEF Quiet

LEMMA TickKeeps == ASSUME IInv, Tick PROVE IInv'
<1> DEFINE s == supervisor
           t == CheckFutures(supervisor)
           u == Step(t, supervisor.auto_execute)
<1>1. /\ supervisor' = u /\ UNCHANGED <<services_ready, service, proposal_topic, latest_decision>>
      /\ moves' = IF s.state # "SETTLE" /\ t.state = "SETTLE" THEN << >> ELSE moves
  BY DEF Tick, OnTimer
<1>2. s \in Supervisors /\ OutstandingMove(s, moves) /\ moves \in Seq({"altitude", "move"})
      /\ Len(moves) <= 1
  BY Parts DEF AroundTypeOK, OneMovePerSettle
<1>3. /\ t \in Supervisors
      /\ s.execute_call \in {"none", "sent"} => SameCall(s, t) /\ t.state = s.state
      /\ s.execute_call \in {"success", "failed"} => t.execute_call = "none"
      /\ s.execute_call = "success" /\ s.execute_kind = "primitive" => t.state = "SETTLE"
  BY <1>2, FuturesKeep
<1> HIDE DEF t
<1>4. Quiet(t, u) \/ Sends(t, u)
  BY <1>2, <1>3, StepKeeps DEF Supervisors
<1> HIDE DEF u
<1>5. moves' = << >>
  <2>1. CASE moves = << >>
    BY <1>1, <2>1
  <2>2. CASE moves # << >>
    BY <1>1, <1>2, <1>3, <2>2 DEF OutstandingMove
  <2> QED
    BY <2>1, <2>2
<1>6. u \in Supervisors
  BY <1>4 DEF Quiet, Sends
<1>7. OutstandingMove(u, moves')
  <2>1. s.execute_call \in {"none", "sent", "success", "failed"}
    BY <1>2 DEF Supervisors
  <2>2. CASE Sends(t, u)
    BY <1>5, <2>2 DEF Sends, OutstandingMove
  <2>3. CASE Quiet(t, u)
    BY <1>2, <1>3, <1>5, <2>1, <2>3 DEF Quiet, SameCall, OutstandingMove
  <2> QED
    BY <1>4, <2>2, <2>3
<1>8. AroundTypeOK' /\ OneMovePerSettle'
  BY <1>1, <1>5, Parts DEF AroundTypeOK, ServiceTypeOK, service, OneMovePerSettle
<1> QED
  BY <1>1, <1>6, <1>7, <1>8, PartsNext

LEMMA SupervisorStepKeeps == ASSUME IInv, SupervisorStep PROVE IInv'
<1>1. supervisor \in Supervisors /\ services_ready \subseteq Services
  BY Parts DEF AroundTypeOK
<1>2. UNCHANGED <<service, gateVars>>
  BY DEF SupervisorStep
<1>3. services_ready' \subseteq Services
  BY <1>1 DEF SupervisorStep, OnStep, OnSetAutoExecute, TimePasses, Discover
<1>4. Quiet(supervisor, supervisor') \/ Sends(supervisor, supervisor')
  <2>1. CASE OnStep
    BY <1>1, <2>1, StepKeeps DEF OnStep
  <2>2. CASE \E auto \in BOOLEAN : OnSetAutoExecute(auto)
    BY <1>1, <2>2 DEF OnSetAutoExecute, Quiet, SameCall, Supervisors
  <2>3. CASE TimePasses
    <3>1. supervisor.point \in Proposals /\ supervisor.primitive \in Proposals
      BY <1>1 DEF Supervisors
    <3> DEFINE p == [supervisor.point EXCEPT !.stamp = "old"]
               q == [supervisor.primitive EXCEPT !.stamp = "old"]
    <3>2. p \in Proposals /\ q \in Proposals
      BY <3>1, ProposalTypes
    <3>3. supervisor' \in {[supervisor EXCEPT !.point = p], [supervisor EXCEPT !.primitive = q],
                          [supervisor EXCEPT !.settled = TRUE]}
      BY <1>1, <2>3 DEF TimePasses, Supervisors
    <3> HIDE DEF p, q
    <3>4. CASE supervisor' = [supervisor EXCEPT !.point = p]
      BY <1>1, <3>2, <3>4 DEF Quiet, SameCall, Supervisors
    <3>5. CASE supervisor' = [supervisor EXCEPT !.primitive = q]
      BY <1>1, <3>2, <3>5 DEF Quiet, SameCall, Supervisors
    <3>6. CASE supervisor' = [supervisor EXCEPT !.settled = TRUE]
      BY <1>1, <3>6 DEF Quiet, SameCall, Supervisors
    <3> QED
      BY <3>3, <3>4, <3>5, <3>6
  <2>4. CASE Discover
    BY <1>1, <2>4 DEF Discover, Quiet, SameCall
  <2> QED
    BY <2>1, <2>2, <2>3, <2>4 DEF SupervisorStep
<1> QED
  BY <1>2, <1>3, <1>4, Alone

-----------------------------------------------------------------------------
(* Theorems *)

\* The inductive invariant: the types, and where an executed move may be.
\* (vlm_nav_supervisor.py with both gates)
THEOREM StackInvariance == Spec => []IInv
<1>1. Init => IInv
  BY InitIInv
<1>2. IInv /\ [Next]_vars => IInv'
  <2> SUFFICES ASSUME IInv, [Next]_vars PROVE IInv'
    OBVIOUS
  <2>1. CASE UNCHANGED vars
    BY <2>1, Parts, PartsNext
       DEF vars, service, supervisorVars, gateVars, AroundTypeOK, ServiceTypeOK, OneMovePerSettle
  <2>2. CASE \E text \in UNION {Texts[m] : m \in PromptModes} : PublishResult(text)
    BY <2>2, PublishKeeps
  <2>3. CASE AnswerMode
    BY <2>3, AnswerModeKeeps
  <2>4. CASE NodeStep
    BY <2>4, NodeStepKeeps
  <2>5. CASE \E g \in Gates : GateOnExecuteNext(g) \/ HearProposal(g)
    BY <2>5, GateKeeps, HearKeeps
  <2>6. CASE Tick
    BY <2>6, TickKeeps
  <2>7. CASE SupervisorStep
    BY <2>7, SupervisorStepKeeps
  <2> QED
    BY <2>1, <2>2, <2>3, <2>4, <2>5, <2>6, <2>7 DEF Next
<1> QED
  BY <1>1, <1>2, PTL DEF Spec

\* One UP, DOWN or HOLD at most between two settles, for any rejection limits and
\* however calls, answers, manual steps and mode changes interleave.
\* (_check_execute_future, _step_altitude_adjust, _step_settle)
THEOREM MovesAreSingle == Spec => []StackInv
<1>1. IInv => StackInv
  BY DEF IInv
<1> QED
  BY <1>1, StackInvariance, PTL
=============================================================================
