SPECIFICATION Spec
CONSTANTS
  CNF_MAX_TSKID = 3
  CNF_MAX_TSKPRI = 3
  TIMER_PERIOD = 2
  UW_MAX = 15
  NULL = NULL
  ItsPri = {1, 2}
  RelTim = {1}
  Tmo <- MCTmo
  HandlerApi = {"tk_wup_tsk"}
  MaxWup = 1
INVARIANTS
  TypeOK
  QueuesMatchState
  SchedulerUpToDate
  RunsTheTop
  ExitedNeverRuns
  NothingReadyWhenIdle
  NoSleepWithPendingWakeup
PROPERTY FifoAmongEquals
