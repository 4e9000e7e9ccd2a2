SPECIFICATION Spec
CONSTANTS
  CNF_MAX_TSKID = 2
  CNF_MAX_TSKPRI = 3
  TIMER_PERIOD = 2
  UW_MAX = 15
  NULL = NULL
  ItsPri = {1, 2}
  RelTim = {3}
  Tmo <- MCTmo
  HandlerApi = {"tk_sta_tsk"}
  MaxWup = 1
INVARIANT ExitedNeverRuns
