------------------------------- MODULE VlmNode -------------------------------
(***************************************************************************)
(* edgellm_vlm_ros/src/vlm_node.cpp: the node that shows camera frames to  *)
(* the vision-language model.  Its executor thread runs one callback at a  *)
(* time; the inference runs in a thread of its own.  The timer callback is *)
(* split where the other thread may act between two of its reads.          *)
(***************************************************************************)

PromptModes == {"point", "primitive"}
StartModes == PromptModes \cup {"region"}

VARIABLES
  has_frame,          \* latest_frame_ holds a frame
  prompt_mode,        \* under generation_mutex_, with the prompt of that mode
  inference_running,  \* the atomic both threads test
  executor,           \* where the executor thread is
  worker,             \* the thread object: where its thread is, and its inference
  terminated          \* the process is gone: std::terminate, or a clean exit

nodeVars == <<has_frame, prompt_mode, inference_running, executor, worker, terminated>>

NoWorker == [at |-> "none", mode |-> "point"]
Joinable == worker.at # "none"
Inferring == worker.at \in {"begin", "infer", "publish", "finish"}

NodeTypeOK ==
  /\ has_frame \in BOOLEAN
  /\ prompt_mode \in StartModes
  /\ inference_running \in BOOLEAN
  /\ executor \in {"idle", "reaped", "cloned", "closing"}
  /\ worker \in [at : {"none", "begin", "infer", "publish", "finish", "ended"},
                 mode : StartModes]
  /\ terminated \in BOOLEAN

NodeInit ==
  /\ has_frame = FALSE
  /\ prompt_mode \in StartModes
  /\ inference_running = FALSE
  /\ executor = "idle"
  /\ worker = NoWorker
  /\ terminated = FALSE

Idle == executor = "idle" /\ ~terminated

-----------------------------------------------------------------------------
(* The executor thread                                                     *)

\* A frame that converts replaces the one held; one that does not changes nothing.
ImageCallback ==
  /\ Idle
  /\ has_frame' = TRUE
  /\ UNCHANGED <<prompt_mode, inference_running, executor, worker, terminated>>

HandleSetPointMode(point) ==
  /\ Idle
  /\ prompt_mode' = IF point THEN "point" ELSE "primitive"
  /\ UNCHANGED <<has_frame, inference_running, executor, worker, terminated>>

\* The first test of the timer callback: a thread that has finished is joined,
\* one that still runs is left alone.
TimerReaps ==
  /\ Idle
  /\ \/ Joinable /\ ~inference_running /\ worker.at = "ended" /\ worker' = NoWorker
     \/ ~(Joinable /\ ~inference_running) /\ UNCHANGED worker
  /\ executor' = "reaped"
  /\ UNCHANGED <<has_frame, prompt_mode, inference_running, terminated>>

TimerClones ==
  /\ executor = "reaped" /\ ~terminated
  /\ executor' = IF has_frame THEN "cloned" ELSE "idle"
  /\ UNCHANGED <<has_frame, prompt_mode, inference_running, worker, terminated>>

\* compare_exchange_strong and, when it wins, the assignment to worker_thread_.
\* Assigning to a joinable std::thread calls std::terminate.
TimerLaunches ==
  /\ executor = "cloned" /\ ~terminated
  /\ executor' = "idle"
  /\ \/ inference_running /\ UNCHANGED <<inference_running, worker, terminated>>
     \/ /\ ~inference_running /\ inference_running' = TRUE
        /\ ~Joinable /\ worker' = [at |-> "begin", mode |-> prompt_mode]
        /\ UNCHANGED terminated
     \/ /\ ~inference_running /\ inference_running' = TRUE
        /\ Joinable /\ terminated' = TRUE
        /\ UNCHANGED worker
  /\ UNCHANGED <<has_frame, prompt_mode>>

\* main leaves spin and destroys the node: no more callbacks, then it waits for the worker.
Close ==
  /\ Idle
  /\ executor' = "closing"
  /\ UNCHANGED <<has_frame, prompt_mode, inference_running, worker, terminated>>

Closed ==
  /\ executor = "closing" /\ ~terminated
  /\ worker.at \in {"none", "ended"}
  /\ worker' = NoWorker
  /\ terminated' = TRUE
  /\ UNCHANGED <<has_frame, prompt_mode, inference_running, executor>>

-----------------------------------------------------------------------------
(* The worker thread: runInference                                         *)

WorkerGoes(from, to) == ~terminated /\ worker.at = from /\ worker' = [worker EXCEPT !.at = to]

\* Mutant: the worker reads its prompt when it was launched, not when it begins.
WorkerKeepsLaunchMode ==
  /\ ~terminated /\ worker.at = "begin"
  /\ worker' = [worker EXCEPT !.at = "infer"]
  /\ UNCHANGED <<has_frame, prompt_mode, inference_running, executor, terminated>>

WorkerReadsMode ==
  /\ ~terminated /\ worker.at = "begin"
  /\ worker' = [worker EXCEPT !.at = "infer", !.mode = prompt_mode]
  /\ UNCHANGED <<has_frame, prompt_mode, inference_running, executor, terminated>>

\* Mutant: an exception leaves the thread without its last statement.
InferThrowsOut ==
  /\ WorkerGoes("infer", "publish") \/ WorkerGoes("infer", "ended")
  /\ UNCHANGED <<has_frame, prompt_mode, inference_running, executor, terminated>>

\* infer returns, cut short when the node is closing, or throws.
WorkerInfers ==
  /\ WorkerGoes("infer", "publish") \/ WorkerGoes("infer", "finish")
  /\ UNCHANGED <<has_frame, prompt_mode, inference_running, executor, terminated>>

\* Mutant: the flag is lowered before the result is out.
FlagLoweredEarly ==
  /\ WorkerGoes("publish", "finish")
  /\ inference_running' = FALSE
  /\ UNCHANGED <<has_frame, prompt_mode, executor, terminated>>

WorkerPublishes ==
  /\ WorkerGoes("publish", "finish")
  /\ UNCHANGED <<has_frame, prompt_mode, inference_running, executor, terminated>>

\* The last statement of the thread.
WorkerFinishes ==
  /\ WorkerGoes("finish", "ended")
  /\ inference_running' = FALSE
  /\ UNCHANGED <<has_frame, prompt_mode, executor, terminated>>

-----------------------------------------------------------------------------
NodeNext ==
  \/ ImageCallback
  \/ \E point \in BOOLEAN : HandleSetPointMode(point)
  \/ TimerReaps \/ TimerClones \/ TimerLaunches
  \/ Close \/ Closed
  \/ WorkerReadsMode \/ WorkerInfers \/ WorkerPublishes \/ WorkerFinishes

NodeSpec == NodeInit /\ [][NodeNext]_nodeVars

NodeRuns == executor # "closing" /\ ~terminated

\* The timer fires, both threads run, and an inference returns.
NodeFairSpec ==
  /\ NodeSpec
  /\ WF_nodeVars(TimerReaps) /\ WF_nodeVars(TimerClones) /\ WF_nodeVars(TimerLaunches)
  /\ WF_nodeVars(WorkerReadsMode \/ WorkerInfers \/ WorkerPublishes \/ WorkerFinishes)

-----------------------------------------------------------------------------
(* Properties                                                              *)

\* The flag the two threads share is up exactly while the worker is between its
\* launch and its last statement, so no second inference is launched next to
\* it, and no worker outlives the node.
OneInference ==
  /\ ~terminated => (inference_running <=> Inferring)
  /\ terminated /\ executor = "closing" => ~Joinable

\* "ticks are skipped while inference is busy" (config/vlm_node.yaml:18): a tick
\* that meets a worker that is not done never takes the process down.
BusyTicksAreSkipped == [][terminated' /\ ~terminated => executor = "closing"]_nodeVars

\* No wake-up is lost between the flag, the thread object and the timer: a node
\* that has a frame keeps asking.
KeepsAsking == [](has_frame => <>(worker.at = "infer" \/ ~NodeRuns))

\* To its users the node is a VlmService.
Promise == INSTANCE VlmService WITH
  question <- IF worker.at \in {"infer", "publish"} THEN worker.mode ELSE "none",
  serving  <- NodeRuns
KeepsVlmPromise == Promise!ServiceSpec
=============================================================================
