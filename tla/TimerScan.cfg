SPECIFICATION ScanSpec
CONSTANTS
  Queue = {wait_queue, ready_queue}
  TCB = {a, b, c}
  NULL = NULL
  wait_queue = wait_queue
  TIMER_PERIOD = 2
  UW_MAX = 7
  Limit <- MCLimit
INVARIANTS
  Linked
  NobodyOverdue
PROPERTIES
  NeverEarly
  WalkIsFifo
