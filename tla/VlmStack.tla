------------------------------- MODULE VlmStack -------------------------------
(***************************************************************************)
(* Supervised mode (enable_nav_supervisor): the VLM node, known by its     *)
(* promise (VlmService, which VlmNode keeps) and not closed here, the      *)
(* point and the primitive gate, and the supervisor, with the topics and   *)
(* services between them.  Both gates read every result, whatever prompt   *)
(* it was made with.                                                       *)
(*                                                                         *)
(* A text is what the gates' parsers make of it: a pixel ("point"), UP,    *)
(* DOWN or HOLD ("altitude"), another primitive ("move"), or nothing they  *)
(* accept ("junk").  What _can_publish_goal and _build_goal ask of poses,  *)
(* depth and clocks can only refuse, and changes nothing.                  *)
(***************************************************************************)
EXTENDS VlmService, NavSupervisor, Sequences

CONSTANT MaxUnread        \* bound: unread messages of a topic
ASSUME MaxUnreadAssumption == MaxUnread \in Nat \ {0}

Gates == {"point", "primitive"}

VARIABLES
  proposal_topic,         \* each gate's ~/proposal, as the supervisor has to read it
  latest_decision,        \* of each gate
  \* What the properties need to remember:
  moves                   \* primitives executed since the supervisor last settled

gateVars == <<proposal_topic, latest_decision, moves>>
vars == <<service, supervisorVars, gateVars>>

Texts == [point |-> {"point", "junk"}, primitive |-> {"altitude", "move", "junk"}]
Understood == [point |-> {"point"}, primitive |-> {"altitude", "move"}]

TypeOK ==
  /\ ServiceTypeOK
  /\ SupervisorTypeOK
  /\ proposal_topic \in [Gates -> Seq(Contents)]
  /\ \A g \in Gates : Len(proposal_topic[g]) <= MaxUnread
  /\ latest_decision \in [Gates -> Contents]
  /\ moves \in Seq({"altitude", "move"})

Init ==
  /\ ServiceInit
  /\ prompt_mode = "point"                    \* the launch file's default
  /\ SupervisorInit
  /\ proposal_topic = [g \in Gates |-> << >>]
  /\ latest_decision = [g \in Gates |-> "none"]
  /\ moves = << >>

-----------------------------------------------------------------------------
(* The VLM node                                                            *)

Judge(g, text) == IF text \in Understood[g] THEN text ELSE "rejected"

\* A result reaches both gates, and each says what it makes of it.  The topic's
\* own delay is left out: nobody but the gates reads it, so it cannot be told
\* from a slower inference.
PublishResult(text) ==
  /\ Answer
  /\ text \in Texts[question]
  /\ \A g \in Gates : Len(proposal_topic[g]) < MaxUnread
  /\ latest_decision' = [g \in Gates |-> Judge(g, text)]
  /\ proposal_topic' = [g \in Gates |-> Append(proposal_topic[g], Judge(g, text))]
  /\ UNCHANGED <<supervisorVars, moves>>

AnswerMode ==
  /\ supervisor.mode_call \in PromptModes
  /\ SetMode(supervisor.mode_call)
  /\ supervisor' = [supervisor EXCEPT !.mode_call = "answered"]
  /\ UNCHANGED <<services_ready, gateVars>>

NodeStep ==
  /\ Ask \/ Answer
  /\ UNCHANGED <<supervisorVars, gateVars>>

-----------------------------------------------------------------------------
(* The gates                                                               *)

\* execute_next acts on the gate's latest decision when it is served.
GateOnExecuteNext(g) ==
  /\ supervisor.execute_call = "sent" /\ supervisor.execute_kind = g
  /\ \/ /\ latest_decision[g] \in Understood[g]
        /\ supervisor' = [supervisor EXCEPT !.execute_call = "success"]
        /\ moves' = IF g = "primitive" THEN Append(moves, latest_decision[g]) ELSE moves
     \/ /\ supervisor' = [supervisor EXCEPT !.execute_call = "failed"]
        /\ UNCHANGED moves
  /\ UNCHANGED <<service, services_ready, proposal_topic, latest_decision>>

-----------------------------------------------------------------------------
(* The supervisor                                                          *)

HearProposal(g) ==
  /\ proposal_topic[g] # << >>
  /\ IF g = "point" THEN OnPointProposal(Head(proposal_topic[g]))
     ELSE OnPrimitiveProposal(Head(proposal_topic[g]))
  /\ proposal_topic' = [proposal_topic EXCEPT ![g] = Tail(@)]
  /\ UNCHANGED <<service, latest_decision, moves>>

\* moves starts anew when the supervisor starts to settle.
Tick ==
  /\ OnTimer
  /\ moves' = IF supervisor.state # "SETTLE" /\ CheckFutures(supervisor).state = "SETTLE"
              THEN << >> ELSE moves
  /\ UNCHANGED <<service, proposal_topic, latest_decision>>

SupervisorStep ==
  /\ \/ OnStep
     \/ \E auto \in BOOLEAN : OnSetAutoExecute(auto)
     \/ TimePasses
     \/ Discover
  /\ UNCHANGED <<service, gateVars>>

Next ==
  \/ \E text \in UNION {Texts[m] : m \in PromptModes} : PublishResult(text)
  \/ AnswerMode
  \/ NodeStep
  \/ \E g \in Gates : GateOnExecuteNext(g) \/ HearProposal(g)
  \/ Tick
  \/ SupervisorStep

Spec == Init /\ [][Next]_vars

\* The supervisor's timer fires, its clients discover their servers, and the
\* node's executor, which comes back to its wait set after every callback,
\* takes each request.
FairSpec ==
  /\ Spec
  /\ WF_vars(Tick)
  /\ WF_vars(AnswerMode)
  /\ WF_vars(SupervisorStep /\ services_ready' # services_ready)

-----------------------------------------------------------------------------
(* Properties                                                              *)

\* README: "executes one UP, DOWN, or HOLD, waits briefly": no second
\* primitive before the supervisor has settled from the first, however the
\* calls, their answers, manual steps and mode changes interleave.
OneMovePerSettle == Len(moves) <= 1
StackInv == TypeOK /\ OneMovePerSettle

\* The node's prompt ends up being the one the supervisor's state calls for,
\* although requests made while another is out are dropped.
ModesAgree ==
  /\ <>[](supervisor.state \in {"POINT_NAV", "HOLD"}) => <>[](prompt_mode = "point")
  /\ <>[](supervisor.state = "ALTITUDE_ADJUST") => <>[](prompt_mode = "primitive")
=============================================================================
