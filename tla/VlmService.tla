------------------------------ MODULE VlmService ------------------------------
(***************************************************************************)
(* What the VLM node promises its users: it asks one question at a time,   *)
(* with the prompt of the mode it was in when it asked, and it changes     *)
(* mode on request for as long as it serves.                               *)
(***************************************************************************)

PromptModes == {"point", "primitive"}      \* what a request may ask for
StartModes == PromptModes \cup {"region"}   \* what the launch file may

VARIABLES
  prompt_mode,   \* the mode questions are asked in
  question,      \* the mode of the question being answered, or "none"
  serving        \* the node's executor takes requests

service == <<prompt_mode, question, serving>>

ServiceTypeOK ==
  /\ prompt_mode \in StartModes
  /\ question \in StartModes \cup {"none"}
  /\ serving \in BOOLEAN

ServiceInit ==
  /\ prompt_mode \in StartModes
  /\ question = "none"
  /\ serving = TRUE

SetMode(mode) ==
  /\ serving
  /\ prompt_mode' = mode
  /\ UNCHANGED <<question, serving>>

Ask ==
  /\ question = "none"
  /\ question' = prompt_mode
  /\ UNCHANGED <<prompt_mode, serving>>

\* With a result, or without one when the inference fails.
Answer ==
  /\ question # "none"
  /\ question' = "none"
  /\ UNCHANGED <<prompt_mode, serving>>

StopServing ==
  /\ serving
  /\ serving' = FALSE
  /\ UNCHANGED <<prompt_mode, question>>

ServiceNext ==
  \/ \E mode \in PromptModes : SetMode(mode)
  \/ Ask \/ Answer \/ StopServing

ServiceSpec == ServiceInit /\ [][ServiceNext]_service
=============================================================================
