-------------------------------- MODULE Lbfgs --------------------------------
(***************************************************************************)
(* The solver of the trajectory optimiser: lbfgs_optimize (lbfgs.hpp) with *)
(* the line search of More and Thuente.  One step is one evaluation of the *)
(* objective, which the solver's caller makes: what the callbacks do is    *)
(* the business of the module that extends this one.                       *)
(*                                                                         *)
(* Abstracted: steps are whole numbers, the finest the arithmetic tells    *)
(* apart; along each search direction the value is counted from that of    *)
(* the iterate, the slope is scaled to -4 at the start and the two         *)
(* coefficients are in quarters; values and slopes found are any of small  *)
(* sets, the same again at the best step; what the interpolations yield is *)
(* any step their formulas can reach.                                      *)
(***************************************************************************)
EXTENDS Integers, Sequences

CONSTANTS
  Mem,             \* mem_size
  MaxIterations,   \* max_iterations
  MaxLinesearch,   \* max_linesearch
  MaxStep,         \* max_step
  FirstStep,       \* the step a line search begins with
  FDec, SCurv,     \* f_dec_coeff and s_curv_coeff, in quarters
  Costs, Slopes    \* what an evaluation may find

ASSUME MemAssumption == Mem \in Nat \ {0} /\ MaxIterations \in Nat \ {0}
ASSUME SearchAssumption ==
  /\ MaxLinesearch \in Nat \ {0}
  /\ FirstStep \in Nat \ {0} /\ MaxStep \in Nat /\ FirstStep <= MaxStep
ASSUME WolfeAssumption == FDec \in 1 .. 3 /\ SCurv \in 1 .. 3 /\ FDec < SCurv
ASSUME CostsAssumption == Costs \subseteq Int /\ Slopes \subseteq Int

VARIABLES
  ret,       \* what lbfgs_optimize returned, "evaluating" the start or "searching"
  k,         \* the iteration
  end,       \* where the next correction goes in lm
  lm,        \* the corrections: [no, positive], the sign of ys
  used,      \* the corrections the two loops went through: [down, up]
  ls,        \* the line search
  points     \* what was evaluated last, which the caller holds: the solver's
             \* "iterate" x or another "trial"

lbfgsVars == <<ret, k, end, lm, used, ls, points>>

NoCorrection == [no |-> 0, positive |-> TRUE]

\* One entry of lm: of its numbers, the sign of ys and which one it is.
Corrections == [no : 0 .. MaxIterations, positive : BOOLEAN]

dginit == -4
dgtest == (FDec * dginit) \div 4

Lesser(a, b) == IF a < b THEN a ELSE b
Greater(a, b) == IF a < b THEN b ELSE a
Abs(a) == IF a < 0 THEN -a ELSE a
Between(a, b) == Lesser(a, b) .. Greater(a, b)

Succeeded == {"CONVERGENCE", "ALREADY_MINIMIZED", "MAXIMUMITERATION"}
LineSearchErrors == {"ROUNDING_ERROR", "MAXIMUMSTEP", "MINIMUMSTEP", "MAXIMUMLINESEARCH"}

\* The return values within reach of parameters that are in order.
Codes == Succeeded \cup LineSearchErrors \cup {"CANCELED", "INCREASEGRADIENT"}

-----------------------------------------------------------------------------
(* One pass of line_search_morethuente *)

\* The line search along a new direction.
LineSearch ==
  [count |-> 0, brackt |-> FALSE, stage1 |-> TRUE, uinfo |-> FALSE,
   stx |-> 0, fx |-> 0, dgx |-> dginit, sty |-> 0, fy |-> 0, dgy |-> dginit,
   stp |-> FirstStep, fell |-> FALSE, width |-> MaxStep, prev_width |-> 2 * MaxStep]

\* stmin and stmax: the interval, or how far a step may go without one.
Low(s) == IF s.brackt THEN Lesser(s.stx, s.sty) ELSE s.stx
High(s) == IF s.brackt THEN Greater(s.stx, s.sty) ELSE s.stp + 4 * (s.stp - s.stx)

Clipped(s) == Lesser(s.stp, MaxStep)

\* The next step would leave the interval, or no step is left.
OutOfInterval(s, stp) == s.brackt /\ (stp <= Low(s) \/ High(s) <= stp)
Unusual(s) ==
  \/ OutOfInterval(s, Clipped(s))
  \/ (s.brackt /\ (MaxLinesearch <= s.count + 1 \/ s.uinfo))

\* The step that is evaluated.
StepTaken(s) == IF Unusual(s) THEN s.stx ELSE Clipped(s)

Decreases(stp, f) == f <= stp * dgtest

\* The tests after an evaluation, in their order; "goes_on" when the search does.
Verdict(s, stp, f, dg) ==
  CASE OutOfInterval(s, stp) \/ (s.brackt /\ s.uinfo) -> "ROUNDING_ERROR"
    [] stp = MaxStep /\ Decreases(stp, f) /\ dg <= dgtest -> "MAXIMUMSTEP"
    [] stp = 0 /\ (~Decreases(stp, f) \/ dgtest <= dg) -> "MINIMUMSTEP"
    [] MaxLinesearch <= s.count + 1 -> "MAXIMUMLINESEARCH"
    [] Decreases(stp, f) /\ 4 * Abs(dg) <= SCurv * (-dginit) -> "accept"
    [] OTHER -> "goes_on"

-----------------------------------------------------------------------------
(* update_trial_interval: x is the best end, y the other, t the trial *)

DSign(X, T) == X.d # 0 /\ T.d * X.d < 0
Flatter(X, T) == ~DSign(X, T) /\ Abs(T.d) < Abs(X.d)

\* CUBIC_MINIMIZER2 from x to a flatter t, when the cubic through them has no
\* minimum: theta (here times the distance) tells tmin from tmax, and the bound
\* it takes may be the one t comes from.  Where that one is the nearer of the
\* two candidates in an interval, or the farther without one, it is the trial.
FallsBehind(X, T, behind, brackt) ==
  LET D == T.st - X.st
      theta == 3 * (X.f - T.f) + (X.d + T.d) * D
      secant == Abs(T.d) * Abs(D)
      back == Abs(T.st - behind) * (Abs(X.d) - Abs(T.d))
  IN /\ theta * theta <= X.d * T.d * D * D
     /\ theta > 0 \/ (theta = 0 /\ D > 0)
     /\ IF brackt THEN back < secant ELSE back > secant

\* The steps the interpolations may yield: for a higher value, and for a lower
\* one with the slope turned, between x and t; with a flatter slope, beyond t
\* unless the cubic falls behind it; with a slope no flatter, a bound or between
\* t and y.
NewTrials(X, Y, T, tmin, tmax, brackt) ==
  LET up == X.st < T.st
      behind == IF up THEN tmin ELSE tmax
  IN CASE X.f < T.f \/ DSign(X, T) -> Between(X.st, T.st)
       [] X.f >= T.f /\ Flatter(X, T) ->
            IF FallsBehind(X, T, behind, brackt) THEN {behind}
            ELSE IF up THEN T.st .. tmax ELSE tmin .. T.st
       [] OTHER -> IF brackt THEN Between(T.st, Y.st) ELSE {IF up THEN tmax ELSE tmin}

Behind(X, T, newt) ==
  X.f >= T.f /\ Flatter(X, T) /\ (IF X.st < T.st THEN newt < T.st ELSE newt > T.st)

\* The trial is then kept away from y.
Bound(X, T) == X.f < T.f \/ Flatter(X, T)

\* The trial must lie inside the interval and the function decrease towards it.
BadInterval(X, Y, T, tmin, tmax, brackt) ==
  /\ brackt
  /\ \/ T.st <= Lesser(X.st, Y.st) \/ Greater(X.st, Y.st) <= T.st
     \/ 0 <= X.d * (T.st - X.st)
     \/ tmax < tmin

\* Within the bounds, and short of two thirds of the way to y.
Limited(newt, X, Y, tmin, tmax, limit) ==
  LET clipped == Greater(Lesser(newt, tmax), tmin)
      most == X.st + (2 * (Y.st - X.st)) \div 3
  IN IF ~limit THEN clipped
     ELSE IF X.st < Y.st THEN Lesser(most, clipped) ELSE Greater(most, clipped)

\* Mutant: the best end does not become the other one when the slope turned.
NewYKept(X, Y, T, higher, turned) == IF higher THEN T ELSE Y

\* The ends after the trial T.
NewX(X, T, higher) == IF higher THEN X ELSE T
NewY(X, Y, T, higher, turned) == IF higher THEN T ELSE IF turned THEN X ELSE Y

\* An end in the terms of the modified function, whose minimum the first stage
\* looks for.
Modified(e) == [e EXCEPT !.f = @ - e.st * dgtest, !.d = @ - dgtest]

\* What a pass leaves when the search goes on: for every next trial, the line
\* search with the interval updated.
Updated(s, stp, f, dg) ==
  LET X0 == [st |-> s.stx, f |-> s.fx, d |-> s.dgx]
      Y0 == [st |-> s.sty, f |-> s.fy, d |-> s.dgy]
      T0 == [st |-> stp, f |-> f, d |-> dg]
      tmin == Low(s)
      tmax == High(s)
      stage1 == s.stage1 /\ ~(Decreases(stp, f) /\ dgtest <= dg)
      modify == stage1 /\ ~Decreases(stp, f) /\ f <= s.fx
      X == IF modify THEN Modified(X0) ELSE X0
      Y == IF modify THEN Modified(Y0) ELSE Y0
      T == IF modify THEN Modified(T0) ELSE T0
      bad == BadInterval(X, Y, T, tmin, tmax, s.brackt)
      brackt == s.brackt \/ (~bad /\ (X.f < T.f \/ DSign(X, T)))
      nx == IF bad THEN X0 ELSE NewX(X0, T0, X.f < T.f)
      ny == IF bad THEN Y0 ELSE NewY(X0, Y0, T0, X.f < T.f, DSign(X, T))
      Next(newt) ==
        LET t == IF bad THEN stp ELSE Limited(newt, nx, ny, tmin, tmax, brackt /\ Bound(X, T))
            wide == brackt /\ 2 * s.prev_width <= 3 * Abs(ny.st - nx.st)
        IN [s EXCEPT !.count = @ + 1, !.brackt = brackt, !.stage1 = stage1, !.uinfo = bad,
                     !.stx = nx.st, !.fx = nx.f, !.dgx = nx.d,
                     !.sty = ny.st, !.fy = ny.f, !.dgy = ny.d,
                     !.stp = IF wide THEN nx.st + (ny.st - nx.st) \div 2 ELSE t,
                     !.fell = @ \/ (~bad /\ ~wide /\ Behind(X, T, newt)),
                     !.prev_width = IF brackt THEN s.width ELSE @,
                     !.width = IF brackt THEN Abs(ny.st - nx.st) ELSE @]
  IN {Next(newt) : newt \in NewTrials(X, Y, T, tmin, tmax, brackt)}

-----------------------------------------------------------------------------
(* lbfgs_optimize *)

\* The call: the start is still to be evaluated.
Call ==
  /\ ret' = "evaluating"
  /\ k' = 1
  /\ end' = 0
  /\ lm' = [i \in 0 .. Mem - 1 |-> NoCorrection]
  /\ used' = [down |-> << >>, up |-> << >>]
  /\ UNCHANGED <<ls, points>>

\* The start is evaluated: it is flat, or the first search begins.
FirstEvaluation ==
  /\ ret = "evaluating"
  /\ points' = "iterate"
  /\ ls' = LineSearch
  /\ ret' \in {"ALREADY_MINIMIZED", "searching"}
  /\ UNCHANGED <<k, end, lm, used>>

\* proc_progress asks to stop: the solver goes back to the iterate, the caller's
\* points do not.
Cancelled ==
  /\ ret = "searching"
  /\ ret' = "CANCELED"
  /\ ls' = LineSearch
  /\ UNCHANGED <<k, end, lm, used, points>>

\* A line search that fails; the iterate stays, and so do the caller's points.
SearchFails(stp, f, dg) ==
  /\ Verdict(ls, stp, f, dg) \in LineSearchErrors
  /\ ret' = Verdict(ls, stp, f, dg)
  /\ ls' = LineSearch
  /\ points' = IF stp = 0 THEN "iterate" ELSE "trial"
  /\ UNCHANGED <<k, end, lm, used>>

\* The interval is narrowed and the search goes on.
SearchGoesOn(stp, f, dg) ==
  /\ Verdict(ls, stp, f, dg) = "goes_on"
  /\ \E updated \in Updated(ls, stp, f, dg) : ls' = updated
  /\ points' = IF stp = 0 THEN "iterate" ELSE "trial"
  /\ UNCHANGED <<ret, k, end, lm, used>>

\* The trial becomes the iterate: it is flat, or the iterations are used up.
Finishes(stp, f, dg) ==
  /\ Verdict(ls, stp, f, dg) = "accept"
  /\ \/ ret' = "CONVERGENCE"
     \/ MaxIterations < k + 1 /\ ret' = "MAXIMUMITERATION"
  /\ ls' = LineSearch
  /\ points' = "iterate"
  /\ UNCHANGED <<k, end, lm, used>>

\* Mutant: the way up begins a correction too high.
UpOneHigh(ring, from, bound) == [i \in 1 .. bound |-> ring[(from + Mem - bound + i) % Mem].no]

\* The two loops: j steps down the ring from end, then up again from where it is.
Down(ring, from, bound) == [i \in 1 .. bound |-> ring[(from + Mem - i) % Mem].no]
Up(ring, from, bound) == [i \in 1 .. bound |-> ring[(from + Mem - bound + i - 1) % Mem].no]

\* The trial becomes the iterate, its correction is stored and the next
\* direction computed; a direction that does not descend fails at once.
NextIteration(stp, f, dg) ==
  LET stored == [lm EXCEPT ![end] = [no |-> k, positive |-> stp * (dg - dginit) > 0]]
      bound == Lesser(Mem, k)
      from == (end + 1) % Mem
      descends == \A i \in 0 .. Mem - 1 : stored[i].positive
  IN /\ Verdict(ls, stp, f, dg) = "accept"
     /\ MaxIterations >= k + 1
     /\ points' = "iterate"
     /\ lm' = stored
     /\ k' = k + 1
     /\ end' = from
     /\ used' = [down |-> Down(stored, from, bound), up |-> Up(stored, from, bound)]
     /\ ls' = LineSearch
     /\ ret' = IF descends THEN "searching" ELSE "INCREASEGRADIENT"

\* What the objective may turn out to be at a step: at the best step and at the
\* start it is what it was there.
Found(s, stp) ==
  IF stp = s.stx THEN {[f |-> s.fx, d |-> s.dgx]}
  ELSE IF stp = 0 THEN {[f |-> 0, d |-> dginit]}
  ELSE [f : Costs, d : Slopes]

\* A pass of the line search: the trial is evaluated and judged.
Pass(f, dg) ==
  LET stp == StepTaken(ls)
  IN /\ ret = "searching"
     /\ \/ SearchFails(stp, f, dg)
        \/ SearchGoesOn(stp, f, dg)
        \/ Finishes(stp, f, dg)
        \/ NextIteration(stp, f, dg)

-----------------------------------------------------------------------------
(* Properties *)

LbfgsTypeOK ==
  /\ ret \in Codes \cup {"idle", "evaluating", "searching"}
  /\ k \in 1 .. MaxIterations + 1
  /\ end \in 0 .. Mem - 1
  /\ lm \in [0 .. Mem - 1 -> Corrections]
  /\ ls.count \in 0 .. MaxLinesearch - 1
  /\ {ls.stx, ls.sty} \subseteq 0 .. MaxStep /\ ls.stp \in Int
  /\ points \in {"iterate", "trial"}

\* brackt: "the minimizer has been bracketed": the function falls from the best
\* end towards the other one, and update_trial_interval finds no fault with the
\* interval (its errors, :527-545).
Bracketed == ~ls.uinfo /\ (ls.brackt => ls.dgx * (ls.sty - ls.stx) < 0)

\* The best end is no worse than the start, and the interval brackets a minimum,
\* whichever of the two functions guided the steps: only a cubic that fell behind
\* the trial it started from can lose it.
BracketKept ==
  ret = "searching" => ls.fx <= 0 /\ (Bracketed \/ ls.fell)

\* The two loops go through the latest corrections, newest first and back, never
\* one that was overwritten; each has positive curvature, so that the direction
\* they give descends.
CorrectionsAreLatest ==
  LET bound == Lesser(Mem, k - 1)
  IN ret \notin {"idle", "evaluating"} =>
       /\ used.down = [i \in 1 .. bound |-> k - i]
       /\ used.up = [i \in 1 .. bound |-> k - 1 - bound + i]
       /\ \A i \in 0 .. Mem - 1 : lm[i].positive
=============================================================================
