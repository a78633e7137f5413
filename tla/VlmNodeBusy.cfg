\* A tick next to a worker that is about to end.
SPECIFICATION NodeSpec
PROPERTY BusyTicksAreSkipped
CHECK_DEADLOCK FALSE
