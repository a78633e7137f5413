\* The VLM node: its executor and its worker thread.
SPECIFICATION NodeFairSpec
INVARIANT OneInference
PROPERTIES
  KeepsAsking
  KeepsVlmPromise
CHECK_DEADLOCK FALSE
