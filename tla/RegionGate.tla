----------------------------- MODULE RegionGate -----------------------------
(***************************************************************************)
(* The VLM region gate (vlm_region_gate.py) against the planner: VLM       *)
(* results become decisions for one cell of the image grid, decisions that *)
(* agree become a goal, and the goal is held until the planner's last word *)
(* or until the depth image says its cell is blocked.                      *)
(*                                                                         *)
(* Abstracted: a depth image is what each cell's median says ("none",      *)
(* "blocked" below min_clearance_m, "open"); a goal is a place, and two    *)
(* goals nearer than goal_update_min_distance_m are the same place.  What  *)
(* else _can_publish_goal and _build_goal ask for (ages, camera info,      *)
(* pose, transforms, cooldown) depends on clocks and sensors only: a       *)
(* refusal that may always happen and changes nothing.                     *)
(* wait_for_planner_status is true, as both shipped configurations have it.*)
(***************************************************************************)
EXTENDS PlannerLink

CONSTANTS
  Regions,              \* the cells of the grid
  NoRegion,
  Places,               \* where goals may be
  NoPlace,
  ConsistencyRequired,  \* consistency_required
  SafetyLossRequired,   \* safety_loss_required
  MaxGoals              \* bound: goals published

ASSUME RegionsAssumption == NoRegion \notin Regions /\ NoPlace \notin Places
ASSUME ThresholdsAssumption ==
  /\ ConsistencyRequired \in Nat \ {0}
  /\ SafetyLossRequired \in Nat \ {0}
  /\ MaxGoals \in Nat

VARIABLES
  params,               \* [target, use_vlm, auto]: selection_mode, use_vlm_region, auto_execute
  decision,             \* latest_decision: the cell accepted, or NoRegion
  consensus,            \* [region, count]
  active_goal,          \* number of the goal held, 0 for none
  active_region,
  active_unsafe_count,
  last_published_goal,  \* its place
  \* What the properties need to remember:
  published,            \* number of goals published
  lately,               \* the decisions since the last release, at most the last few
  taken_away            \* a goal has been released for its depth

gate == <<params, decision, consensus, active_goal, active_region, active_unsafe_count,
          last_published_goal, published, lately, taken_away>>
vars == <<link, gate>>

NoAgreement == [region |-> NoRegion, count |-> 0]

Init ==
  /\ LinkInit
  /\ params \in [target : BOOLEAN, use_vlm : BOOLEAN, auto : BOOLEAN]
  /\ decision = NoRegion
  /\ consensus = NoAgreement
  /\ active_goal = 0
  /\ active_region = NoRegion
  /\ active_unsafe_count = 0
  /\ last_published_goal = NoPlace
  /\ published = 0
  /\ lately = << >>
  /\ taken_away = FALSE

-----------------------------------------------------------------------------
(* Decisions *)

NoDepth == << >>          \* no image near the proposal's time
Scans == [Regions -> {"none", "blocked", "open"}]
\* NoRegion: not parsed, or the target is not in sight; sure: min_confidence.
Answers == [region : Regions \cup {NoRegion}, sure : BOOLEAN]

OpenCells(scan) == {r \in Regions : scan[r] = "open"}
NamedCell(answer) == IF answer.sure THEN {answer.region} \ {NoRegion} ELSE {}

\* _decide_target: the cell the VLM sees the target in, where there is depth.
TargetCell(answer, scan) == {r \in NamedCell(answer) : scan[r] # "none"}

\* _decide_open_space: the VLM's cell if it is open, else the most open one.
OpenSpace(answer, scan) ==
  IF params.use_vlm /\ NamedCell(answer) \cap OpenCells(scan) # {} THEN NamedCell(answer)
  ELSE OpenCells(scan)

\* _decide_cell: the cells that may be decided for, none for a rejection.
Candidates(answer, scan) ==
  IF scan = NoDepth THEN {}
  ELSE IF params.target THEN TargetCell(answer, scan) ELSE OpenSpace(answer, scan)

\* _region_is_safe, of the cell of the goal held.
ActiveSafe(scan) ==
  active_region # NoRegion /\ scan[active_region] \in (IF params.target THEN {"blocked", "open"}
                                                      ELSE {"open"})

\* ConsecutiveRegionFilter.observe
Observe(r) ==
  IF r = NoRegion THEN NoAgreement
  ELSE [region |-> r,
        count |-> IF r # consensus.region THEN 1
                  ELSE IF consensus.count < ConsistencyRequired THEN consensus.count + 1
                  ELSE ConsistencyRequired]

-----------------------------------------------------------------------------
(* Goals *)

CanPublish(r, agreement, busy) ==
  r # NoRegion /\ agreement.count >= ConsistencyRequired /\ ~busy

\* The goal goes out and is held until the planner answers.
PublishGoal(r) ==
  /\ published < MaxGoals
  /\ \E place \in Places \ {last_published_goal} : last_published_goal' = place
  /\ published' = published + 1
  /\ goal_topic' = published'
  /\ active_goal' = published'
  /\ active_region' = r
  /\ active_unsafe_count' = 0

\* _release_active_goal, when there is one.
Release ==
  /\ active_goal' = 0
  /\ active_region' = NoRegion
  /\ active_unsafe_count' = 0

\* The last ConsistencyRequired elements of s.
LastFew(s) ==
  IF Len(s) <= ConsistencyRequired THEN s
  ELSE SubSeq(s, Len(s) - ConsistencyRequired + 1, Len(s))

\* _on_result, the depth watchdog: only a depth image counts, and enough
\* unsafe ones in a row release the goal.
Unsafe(scan) == active_goal # 0 /\ scan # NoDepth /\ ~ActiveSafe(scan)
Lost(scan) == Unsafe(scan) /\ active_unsafe_count + 1 >= SafetyLossRequired

Watch(scan) ==
  IF Lost(scan) THEN Release
  ELSE /\ active_unsafe_count' = CASE Unsafe(scan) -> active_unsafe_count + 1
                                   [] ~Unsafe(scan) /\ scan # NoDepth -> 0
                                   [] ~Unsafe(scan) /\ scan = NoDepth -> active_unsafe_count
       /\ UNCHANGED <<active_goal, active_region>>

OnResult(answer, scan) ==
  \E r \in IF Candidates(answer, scan) = {} THEN {NoRegion} ELSE Candidates(answer, scan) :
    /\ decision' = r
    /\ consensus' = IF Lost(scan) THEN NoAgreement ELSE Observe(r)
    /\ lately' = IF Lost(scan) THEN << >> ELSE LastFew(Append(lately, r))
    /\ taken_away' = (taken_away \/ Lost(scan))
    /\ \/ /\ Watch(scan)
          /\ UNCHANGED <<goal_topic, last_published_goal, published>>
       \/ /\ params.auto
          /\ CanPublish(r, consensus', active_goal # 0 /\ ~Lost(scan))
          /\ PublishGoal(r)
    /\ UNCHANGED <<params, status_topic, planner>>

\* Mutant: the operator's call does not ask for the goal held.
OnExecuteNextBusy ==
  /\ CanPublish(decision, consensus, FALSE)
  /\ PublishGoal(decision)
  /\ UNCHANGED <<params, decision, consensus, lately, taken_away, status_topic, planner>>

OnExecuteNext ==
  /\ CanPublish(decision, consensus, active_goal # 0)
  /\ PublishGoal(decision)
  /\ UNCHANGED <<params, decision, consensus, lately, taken_away, status_topic, planner>>

\* Mutant: the agreement outlives the goal.
OnPlannerStatusKeepsConsensus ==
  /\ status_topic # << >>
  /\ status_topic' = Tail(status_topic)
  /\ LET status == Head(status_topic).status IN
       /\ last_published_goal' = IF Refused(status) THEN NoPlace ELSE last_published_goal
       /\ IF Terminal(status) /\ active_goal # 0
          THEN Release /\ lately' = << >>
          ELSE UNCHANGED <<active_goal, active_region, active_unsafe_count, lately>>
  /\ UNCHANGED <<params, decision, consensus, published, taken_away, goal_topic, planner>>

OnPlannerStatus ==
  /\ status_topic # << >>
  /\ status_topic' = Tail(status_topic)
  /\ LET status == Head(status_topic).status IN
       /\ last_published_goal' = IF Refused(status) THEN NoPlace ELSE last_published_goal
       /\ IF Terminal(status) /\ active_goal # 0
          THEN Release /\ consensus' = NoAgreement /\ lately' = << >>
          ELSE UNCHANGED <<active_goal, active_region, active_unsafe_count, consensus, lately>>
  /\ UNCHANGED <<params, decision, published, taken_away, goal_topic, planner>>

Next ==
  \/ \E answer \in Answers, scan \in Scans \cup {NoDepth} : OnResult(answer, scan)
  \/ OnExecuteNext
  \/ OnPlannerStatus
  \/ (TakeGoal \/ ReachGoal) /\ UNCHANGED gate

Spec == Init /\ [][Next]_vars

\* Both nodes spin, so what is on a topic is read.  Nothing makes the planner
\* reach a goal, or the VLM answer.
FairSpec == Spec /\ WF_vars(OnPlannerStatus) /\ WF_vars(TakeGoal /\ UNCHANGED gate)

-----------------------------------------------------------------------------
(* Properties *)

Statuses == {<<"accepted:safety_bubble">>, <<"accepted">>, <<"reached">>}
              \cup {<<"rejected", reason>> : reason \in Reasons}
Messages == [status : Statuses, about : 1..MaxGoals]

\* The type of every variable.
TypeOK ==
  /\ goal_topic \in 0..MaxGoals
  /\ status_topic \in Seq(Messages)
  /\ received \in 0..MaxGoals
  /\ current \in 0..MaxGoals
  /\ said \in [bit : {0, 1}, statuses : Seq(Statuses), about : 0..MaxGoals]
  /\ params \in [target : BOOLEAN, use_vlm : BOOLEAN, auto : BOOLEAN]
  /\ decision \in Regions \cup {NoRegion}
  /\ consensus \in [region : Regions \cup {NoRegion}, count : 0..ConsistencyRequired]
  /\ active_goal \in 0..published
  /\ active_region \in Regions \cup {NoRegion}
  /\ active_unsafe_count \in 0..(SafetyLossRequired - 1)
  /\ last_published_goal \in Places \cup {NoPlace}
  /\ published \in 0..MaxGoals
  /\ lately \in Seq(Regions \cup {NoRegion})
  /\ taken_away \in BOOLEAN

\* No lost wake-up: while the gate holds a goal, the planner's last word on it
\* is still to come; the gate never waits for an answer it has already read.
WaitsForAnAnswer == active_goal # 0 => Pending(active_goal)

\* As long as no goal was taken away for its depth, gate and planner agree:
\* all the planner reads, flies or says is about the goal held.
InStep ==
  ~taken_away =>
    /\ goal_topic \in {0, active_goal}
    /\ current \in {0, active_goal}
    /\ \A i \in DOMAIN status_topic :
         Terminal(status_topic[i].status) => status_topic[i].about = active_goal

\* A goal goes out only after consistency_required decisions in a row for its
\* cell, all of them made since the goal before was let go.
FreshAgreement ==
  [][published' # published =>
       /\ Len(lately') = ConsistencyRequired
       /\ \A i \in DOMAIN lately' : lately'[i] = active_region']_vars

\* What makes the invariants inductive and FreshAgreement follow.  Only the
\* newest goal is ever held or unread; a goal held is in one place at a time;
\* the agreement is no longer than the run of equal decisions behind it.
NewestOnly ==
  /\ {active_goal, goal_topic} \subseteq {0, published}
  /\ IF goal_topic = 0 THEN received = published ELSE received < published

LastWords == {i \in DOMAIN status_topic : Terminal(status_topic[i].status)}
OnePlace ==
  ~taken_away =>
    /\ goal_topic = 0 \/ current = 0
    /\ goal_topic # 0 \/ current # 0 => LastWords = {}
    /\ \A i, j \in LastWords : i = j

AgreementIsRecent ==
  /\ Len(lately) <= ConsistencyRequired
  /\ consensus.count <= Len(lately)
  /\ consensus.count # 0 => consensus.region = decision
  /\ \A i \in DOMAIN lately : i > Len(lately) - consensus.count => lately[i] = consensus.region

IInv ==
  /\ TypeOK
  /\ NewestOnly
  /\ WaitsForAnAnswer
  /\ InStep
  /\ OnePlace
  /\ AgreementIsRecent

\* A goal the planner does not fly, because it was turned down or has been
\* reached, does not stay with the gate: it is let go, or flown after all.
UnflownGoalEnds ==
  \A n \in 1..MaxGoals : (active_goal = n /\ current # n) ~> (active_goal # n \/ current = n)

\* "Once published, a goal remains active until planning/goal_status reports
\* reached, rejected or failed": the status that ends a goal is about it.
OwnStatusEndsGoal ==
  [][OnPlannerStatus /\ active_goal' # active_goal =>
       Head(status_topic).about = active_goal]_vars
=============================================================================
