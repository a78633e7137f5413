---------------------------- MODULE BehaviourTree ----------------------------
(***************************************************************************)
(* The nodes of an imav_bt tree: the composites and decorators of py_trees *)
(* 2.5 as the package uses them, its own decorators (decorators/policy.py) *)
(* and its leaves (behaviors/).                                            *)
(*                                                                         *)
(* A node is an object with a method: a record of its id, of the ids below *)
(* it (its own and its children's) and of `tick`, a function that maps the *)
(* state of the tree and the blackboard to what one tick of the node makes *)
(* of them, and the status it returns.  A tree is built from its leaves    *)
(* up, as the source builds it.                                            *)
(*                                                                         *)
(* What py_trees stores in the node objects is one set `mem`: the RUNNING  *)
(* nodes, each with a number, which is the child a composite is at, the    *)
(* failures a retry has counted, or the ticks a stub or a deadline has     *)
(* seen.  initialise() of a node that is not RUNNING resets that number,   *)
(* so nothing else survives.                                               *)
(***************************************************************************)
EXTENDS Integers, Sequences, FiniteSets

CONSTANTS
  Ids,             \* what nodes may be called
  Configs,         \* the `steps:` of missions.yaml to consider: key -> [outcome, ticks]
  DeadlineTicks    \* bound: deadline_s of every mission, in ticks

Outcomes == {"success", "failure", "running"}

ASSUME TreeAssumption ==
  /\ \A c \in Configs : \A key \in DOMAIN c :
       c[key].outcome \in Outcomes /\ c[key].ticks \in Nat \ {0}
  /\ DeadlineTicks \in Nat

-----------------------------------------------------------------------------
(* The blackboard, and the states of a tree *)

Missions == {"mission1", "mission2", "mission3", "mission4"}
Plans == {"idle", "flight_a", "flight_b"}
Objectives == {
  "m1.window_a_red", "m1.window_a_blue", "m1.bar_red_high", "m1.bar_red_middle",
  "m1.bar_blue_low", "m1.bar_blue_middle", "m1.tubes", "m1.window_b_red", "m1.window_b_blue",
  "m2.enter_red", "m2.enter_blue", "m2.counted", "m2.exit_red", "m2.exit_blue",
  "m3.hotbox_detected", "m3.cone_dropped", "m4.ring_grabbed", "m4.disc_touched",
  "landing.moving", "landing.static"}
Problems == {"abort", "battery", "no odometry", "odometry stale", "outside geofence"}

Boards ==
  [running : BOOLEAN, flight_plan : Plans, abort_requested : BOOLEAN,
   battery : {"none", "ok", "low"}, odom : {"none", "stale", "inside", "outside"},
   safety_reason : Problems \cup {""},
   mission_outcomes : [Missions -> {"none", "success", "skipped"}],
   objectives : SUBSET Objectives]

States == [mem : SUBSET [id : Ids, number : Nat], board : Boards, config : Configs]

Running(id, s) == \E m \in s.mem : m.id = id
Number(id, s) == IF Running(id, s) THEN (CHOOSE m \in s.mem : m.id = id).number ELSE 0

\* stop(INVALID) of the nodes with these ids.
Forget(ids, s) == [s EXCEPT !.mem = {m \in @ : m.id \notin ids}]

\* A node that is finished, and one that goes on.
Done(id, status, s) == [status |-> status, s |-> Forget({id}, s)]
Goes(id, number, s) ==
  [status |-> "RUNNING",
   s |-> [s EXCEPT !.mem = {m \in @ : m.id # id} \cup {[id |-> id, number |-> number]}]]

-----------------------------------------------------------------------------
(* Leaves *)

Leaf(id, tick) == [id |-> id, below |-> {id}, tick |-> tick]

\* RUNNING until its number of ticks, then its outcome.
TickStub(id, does, s) ==
  LET elapsed == Number(id, s) + 1 IN
    CASE does.outcome = "running" -> Goes(id, 0, s)
      [] does.outcome # "running" /\ elapsed < does.ticks -> Goes(id, elapsed, s)
      [] does.outcome # "running" /\ elapsed >= does.ticks ->
           Done(id, IF does.outcome = "success" THEN "SUCCESS" ELSE "FAILURE", s)

Stub(id, outcome, ticks) ==
  Leaf(id, [s \in States |-> TickStub(id, [outcome |-> outcome, ticks |-> ticks], s)])

\* A stub that the yaml configures, where a one-tick success is the default.
Configured(key, c) == IF key \in DOMAIN c THEN c[key] ELSE [outcome |-> "success", ticks |-> 1]
Step(id, key) == Leaf(id, [s \in States |-> TickStub(id, Configured(key, s.config), s)])

MarkObjective(objective) ==
  LET id == <<"Mark", objective>> IN
    Leaf(id, [s \in States |->
                Done(id, "SUCCESS", [s EXCEPT !.board.objectives = @ \cup {objective}])])

\* Mutant: the flight stays armed when it is over.
StopArmed == Leaf(<<"StopRunning">>, [s \in States |-> Done(<<"StopRunning">>, "SUCCESS", s)])

StopRunning ==
  Leaf(<<"StopRunning">>, [s \in States |->
         Done(<<"StopRunning">>, "SUCCESS", [s EXCEPT !.board.running = FALSE])])

\* SafetyTripped._first_problem: the first check that objects, "" when none.
\* A pose that is stale hides where the vehicle is.
FirstProblem(board) ==
  CASE board.abort_requested  -> "abort"
    [] ~board.abort_requested /\ board.battery = "low" -> "battery"
    [] ~board.abort_requested /\ board.battery # "low" ->
         CASE board.odom = "none"    -> "no odometry"
           [] board.odom = "stale"   -> "odometry stale"
           [] board.odom = "outside" -> "outside geofence"
           [] board.odom = "inside"  -> ""

\* Safety is only armed while running.
SafetyTripped ==
  Leaf(<<"Emergency?">>, [s \in States |->
    LET problem == IF s.board.running THEN FirstProblem(s.board) ELSE "" IN
      Done(<<"Emergency?">>, IF problem # "" THEN "SUCCESS" ELSE "FAILURE",
           [s EXCEPT !.board.safety_reason = problem])])

FlightPlanIs(plan) ==
  LET id == <<"Plan is", plan>> IN
    Leaf(id, [s \in States |->
      Done(id, IF s.board.running /\ s.board.flight_plan = plan THEN "SUCCESS" ELSE "FAILURE", s)])

-----------------------------------------------------------------------------
(* Composites *)

\* stop(INVALID) of the children from the i-th on.
ForgetFrom(kids, i, s) ==
  [s EXCEPT !.mem = {m \in @ : \A j \in i..Len(kids) : m.id \notin kids[j].below}]

\* A visit of the i-th child, after the visit v of the one before it: unless that one
\* ended the walk, or the walk starts later.
Visit(kid, i, first, goesOn, v) ==
  IF i < first \/ v.status # goesOn THEN v
  ELSE LET r == kid.tick[v.s] IN [at |-> i, status |-> r.status, s |-> r.s]

\* The children in order, from the first to visit until one does not let the walk go on.
Walk(kids, first, goesOn, s) ==
  LET visit[i \in 0..Len(kids)] ==
        IF i = 0 THEN [at |-> 0, status |-> goesOn, s |-> s]
        ELSE Visit(kids[i], i, first, goesOn, visit[i - 1])
  IN visit[Len(kids)]

\* A composite that was not RUNNING starts over.
Enter(id, kids, s) == IF Running(id, s) THEN s ELSE ForgetFrom(kids, 1, s)
First(id, memory, s) == IF memory /\ Running(id, s) THEN Number(id, s) ELSE 1

TickComposite(id, memory, kids, goesOn, stopsRest, s) ==
  LET v == Walk(kids, First(id, memory, s), goesOn, Enter(id, kids, s))
      rest == IF stopsRest THEN ForgetFrom(kids, v.at + 1, v.s) ELSE v.s
  IN IF v.status = "RUNNING" THEN Goes(id, v.at, rest) ELSE Done(id, v.status, rest)

Composite(id, memory, kids, goesOn, stopsRest) ==
  [id |-> id, below |-> {id} \cup UNION {kids[i].below : i \in DOMAIN kids},
   tick |-> [s \in States |-> TickComposite(id, memory, kids, goesOn, stopsRest, s)]]

\* Children until one does not succeed; without memory the rest is stopped.
Sequence(id, memory, kids) == Composite(id, memory, kids, "SUCCESS", ~memory)

\* Children until one does not fail; lower priorities are interrupted.
Selector(id, memory, kids) == Composite(id, memory, kids, "FAILURE", TRUE)

-----------------------------------------------------------------------------
(* Decorators: what a tick of the child came to decides *)

Decorator(id, child, tick) == [id |-> id, below |-> {id} \cup child.below, tick |-> tick]

\* The child is ticked first: one that finishes on the last tick has finished.
TickDeadline(id, child, s) ==
  LET kid == child.tick[s] IN
    CASE kid.status # "RUNNING" -> Done(id, kid.status, kid.s)
      [] kid.status = "RUNNING" /\ Number(id, s) >= DeadlineTicks ->
           Done(id, "FAILURE", Forget(child.below, kid.s))
      [] kid.status = "RUNNING" /\ Number(id, s) < DeadlineTicks ->
           Goes(id, Number(id, s) + 1, kid.s)

Deadline(mission, child) ==
  LET id == <<mission, "Deadline">> IN
    Decorator(id, child, [s \in States |-> TickDeadline(id, child, s)])

\* A failed attempt costs a tick: the next one starts on the next tick.
TickRetry(id, child, attempts, s) ==
  LET kid == child.tick[s]
      failures == Number(id, s) + (IF kid.status = "FAILURE" THEN 1 ELSE 0)
  IN CASE kid.status = "SUCCESS" -> Done(id, "SUCCESS", kid.s)
       [] kid.status # "SUCCESS" /\ failures < attempts -> Goes(id, failures, kid.s)
       [] kid.status # "SUCCESS" /\ failures >= attempts -> Done(id, "FAILURE", kid.s)

AttemptBudget(mission, child, attempts) ==
  LET id == <<mission, "Attempts">> IN
    Decorator(id, child, [s \in States |-> TickRetry(id, child, attempts, s)])

\* Mutant: the outcome is read from the masked status.
TickSkipMasked(id, child, mission, s) ==
  LET kid == child.tick[s] IN
    IF kid.status = "RUNNING" THEN Goes(id, 0, kid.s)
    ELSE Done(id, "SUCCESS", [kid.s EXCEPT !.board.mission_outcomes[mission] = "success"])

TickSkip(id, child, mission, s) ==
  LET kid == child.tick[s]
      outcome == IF kid.status = "FAILURE" THEN "skipped" ELSE "success"
  IN IF kid.status = "RUNNING" THEN Goes(id, 0, kid.s)
     ELSE Done(id, "SUCCESS", [kid.s EXCEPT !.board.mission_outcomes[mission] = outcome])

SkipOnFailure(mission, child) ==
  LET id == <<mission, "Skip">> IN
    Decorator(id, child, [s \in States |-> TickSkip(id, child, mission, s)])

\* Mutant: the mission may take for ever.
guardedForever(mission, child, attempts) == SkipOnFailure(mission, child)

guarded(mission, child, attempts) ==
  SkipOnFailure(mission,
    IF attempts > 1 THEN AttemptBudget(mission, Deadline(mission, child), attempts)
    ELSE Deadline(mission, child))
=============================================================================
