-------------------------- MODULE ReboundOptimizer --------------------------
(***************************************************************************)
(* The two optimisations of BsplineOptimizer (bspline_optimizer.cpp) over  *)
(* the solver Lbfgs, which calls back: every evaluation of the rebound     *)
(* cost may find a new collision and ask for a stop, and the solver polls  *)
(* that request before each further evaluation.                            *)
(*                                                                         *)
(* Abstracted: whether an evaluation finds a new collision, how near the   *)
(* peers come and where the curve hits an obstacle are any outcome (the    *)
(* pushes are in ControlPoints); the weights lambda2_ and lambda4_, which  *)
(* only scale the cost, are left out.                                      *)
(***************************************************************************)
EXTENDS Lbfgs

CONSTANTS
  MaxRestarts,    \* MAX_RESART_NUMS_SET
  ReboundLimit,   \* the 20 of the loop condition
  QuietEvals      \* evaluations before collisions are looked for: 3

ASSUME LimitsAssumption ==
  MaxRestarts \in Nat \ {0} /\ ReboundLimit \in Nat /\ QuietEvals \in Nat

VARIABLES
  job,             \* "rebound" or "refine"
  pc,              \* "prepare", "solve" or "returned"
  force_stop,      \* force_stop_type_
  iter_num,        \* iter_num_, counted to QuietEvals + 1
  min_ellip,       \* min_ellip_dist_: None, Apart, or Close: past swarm_clearance_
  restart_nums,
  rebound_times,   \* counted to ReboundLimit + 1
  success,
  \* What the properties need to remember:
  calls            \* of the solver, since a pass last found the peers close

reboundVars == <<job, pc, force_stop, iter_num, min_ellip, restart_nums,
                 rebound_times, success, calls>>
vars == <<lbfgsVars, reboundVars>>

\* dist_err in order: what the samples of the peers' trajectories yield, and the
\* value nobody wrote, of a planning that met no peer.
Apart == 0
Close == 1
None == 2

PeersClose == min_ellip = Close

Stops == {"STOP_FOR_REBOUND", "STOP_FOR_ERROR"}

Init ==
  /\ job = "rebound"
  /\ pc = "prepare"
  /\ force_stop \in Stops \cup {"DONT_STOP"}     \* what the last planning left
  /\ iter_num = 0
  /\ min_ellip = None
  /\ restart_nums = 0
  /\ rebound_times = 0
  /\ success = FALSE
  /\ calls = 0
  /\ ret = "idle"
  /\ k = 1
  /\ end = 0
  /\ lm = [i \in 0 .. Mem - 1 |-> NoCorrection]
  /\ used = [down |-> << >>, up |-> << >>]
  /\ ls = LineSearch
  /\ points = "iterate"

-----------------------------------------------------------------------------
(* rebound_optimize *)

\* The head of the loop, up to the call of the solver.
Prepare ==
  /\ job = "rebound"
  /\ pc = "prepare"
  /\ pc' = "solve"
  /\ min_ellip' = None
  /\ iter_num' = 0
  /\ success' = FALSE
  /\ calls' = IF PeersClose THEN 1 ELSE calls + 1
  /\ Call
  /\ UNCHANGED <<job, force_stop, restart_nums, rebound_times>>

\* combineCostRebound: the stop request is dropped and, in a smooth late
\* evaluation, raised again by a new collision; the swarm term keeps the least
\* dist_err of the whole pass, which is that of the sample farthest away.
CostRebound ==
  /\ force_stop' \in {"DONT_STOP"} \cup (IF iter_num > QuietEvals THEN Stops ELSE {})
  /\ \E err \in {Apart, Close, None} : min_ellip' = Lesser(min_ellip, err)
  /\ iter_num' = Lesser(iter_num + 1, QuietEvals + 1)

\* combineCostRefine raises no stop and knows no peers; nobody reads the count of
\* its evaluations.
CostRefine == UNCHANGED <<force_stop, min_ellip, iter_num>>

\* Mutant: the refinement passes it too.
EarlyExitAlways == force_stop \in Stops

\* The solver polls earlyExit, which only the rebound gives it.
EarlyExit == job = "rebound" /\ force_stop \in Stops

Evaluate ==
  /\ pc = "solve"
  /\ \/ FirstEvaluation
     \/ ~EarlyExit /\ \E e \in Found(ls, StepTaken(ls)) : Pass(e.f, e.d)
  /\ \/ job = "rebound" /\ CostRebound
     \/ job = "refine" /\ CostRefine
  /\ UNCHANGED <<job, pc, restart_nums, rebound_times, success, calls>>

Poll ==
  /\ pc = "solve"
  /\ EarlyExit
  /\ Cancelled
  /\ UNCHANGED reboundVars

\* Mutant: one restart too many.
AgainOnceMore(flag_occ, flag_force_return) ==
  \/ (flag_occ \/ PeersClose) /\ restart_nums' <= MaxRestarts
  \/ /\ flag_force_return
     /\ force_stop = "STOP_FOR_REBOUND"
     /\ rebound_times' <= ReboundLimit

\* The loop condition.  The disjunct on the peers counts restarts, which only a
\* solver call that succeeded adds to.
Again(flag_occ, flag_force_return) ==
  \/ (flag_occ \/ PeersClose) /\ restart_nums' < MaxRestarts
  \/ /\ flag_force_return
     /\ force_stop = "STOP_FOR_REBOUND"
     /\ rebound_times' <= ReboundLimit

LoopOrReturn(flag_occ, flag_force_return) ==
  pc' = IF Again(flag_occ, flag_force_return) THEN "prepare" ELSE "returned"

\* Mutant: rounding errors are taken for the end of the progress.
IsSolutionOrRounded == ret \in Succeeded \cup {"ROUNDING_ERROR"}

\* The results that count as a solution to be checked.
IsSolution == ret \in Succeeded

\* Phase 1: the peers are too close all along.
PeersTooClose ==
  /\ IsSolution
  /\ PeersClose
  /\ restart_nums' = restart_nums + 1
  /\ LoopOrReturn(FALSE, FALSE)
  /\ UNCHANGED <<rebound_times, success>>

\* Phase 2: the first points collide.
StartBlocked ==
  /\ IsSolution
  /\ ~PeersClose
  /\ pc' = "returned"
  /\ UNCHANGED <<restart_nums, rebound_times, success>>

CurveBlocked ==
  /\ IsSolution
  /\ ~PeersClose
  /\ restart_nums' = restart_nums + 1
  /\ LoopOrReturn(TRUE, FALSE)
  /\ UNCHANGED <<rebound_times, success>>

CurveFree ==
  /\ IsSolution
  /\ ~PeersClose
  /\ success' = TRUE
  /\ UNCHANGED <<restart_nums, rebound_times>>
  /\ LoopOrReturn(FALSE, FALSE)

Rebounded ==
  /\ ret = "CANCELED"
  /\ rebound_times' = Lesser(rebound_times + 1, ReboundLimit + 1)
  /\ UNCHANGED restart_nums
  /\ LoopOrReturn(FALSE, TRUE)
  /\ UNCHANGED success

SolverError ==
  /\ ~IsSolution /\ ret # "CANCELED"
  /\ UNCHANGED <<restart_nums, rebound_times>>
  /\ LoopOrReturn(FALSE, FALSE)
  /\ UNCHANGED success

Judge ==
  /\ job = "rebound"
  /\ pc = "solve"
  /\ ret \notin {"evaluating", "searching"}
  /\ \/ PeersTooClose
     \/ StartBlocked
     \/ CurveBlocked
     \/ CurveFree
     \/ Rebounded
     \/ SolverError
  /\ UNCHANGED <<lbfgsVars, job, force_stop, iter_num, min_ellip, calls>>

-----------------------------------------------------------------------------
(* refine_optimize, of a trajectory the rebound succeeded with *)

Refine ==
  /\ job = "rebound"
  /\ pc = "returned"
  /\ success
  /\ job' = "refine"
  /\ pc' = "solve"
  /\ iter_num' = 0
  /\ success' = FALSE
  /\ restart_nums' = 0
  /\ rebound_times' = 0
  /\ calls' = 0
  /\ Call
  /\ UNCHANGED <<force_stop, min_ellip>>

\* Whatever the solver returned, the curve decides; the loop is run once.
Refined ==
  /\ job = "refine"
  /\ pc = "solve"
  /\ ret \notin {"evaluating", "searching"}
  /\ success' \in BOOLEAN
  /\ pc' = "returned"
  /\ UNCHANGED <<lbfgsVars, job, force_stop, iter_num, min_ellip, restart_nums,
                 rebound_times, calls>>

Next == Prepare \/ Evaluate \/ Poll \/ Judge \/ Refine \/ Refined

Spec == Init /\ [][Next]_vars

-----------------------------------------------------------------------------
(* Properties *)

TypeOK ==
  /\ LbfgsTypeOK
  /\ job \in {"rebound", "refine"}
  /\ pc \in {"prepare", "solve", "returned"}
  /\ force_stop \in Stops \cup {"DONT_STOP"}
  /\ iter_num \in 0 .. QuietEvals + 1
  /\ min_ellip \in {Apart, Close, None}
  /\ restart_nums \in 0 .. MaxRestarts
  /\ rebound_times \in 0 .. ReboundLimit + 1
  /\ success \in BOOLEAN

\* A rebound that succeeds hands out what the solver found: cps_.points, which
\* the callbacks left at the last trial, is the solver's solution and final_cost
\* its cost (planner_manager compares variants by it); the peers were not close.
SuccessIsTheSolution ==
  job = "rebound" /\ pc = "returned" /\ success => points = "iterate" /\ ~PeersClose

\* Once an evaluation has asked for a stop the rebound makes no other in that
\* call of the solver, and the request it leaves behind cancels no refinement.
StopsAreHonoured ==
  [][/\ ret = "searching" /\ job = "rebound" /\ force_stop \in Stops => ret' = "CANCELED"
     /\ job = "refine" => ret' # "CANCELED"]_vars

\* The planning ends, unless the peers are found close in one pass after the
\* other: restarts and rebounds, in whatever order they come, allow only so many
\* calls of the solver.
CallsAreLimited == calls <= MaxRestarts + ReboundLimit

\* Both at once: the types, and the limit on the solver's calls.  (rebound_optimize)
OptimizerInv == TypeOK /\ CallsAreLimited
=============================================================================
