SPECIFICATION FairSpec
CONSTANTS
  CNF_MAX_TSKID = 2
  CNF_MAX_TSKPRI = 3
  TIMER_PERIOD = 2
  UW_MAX = 15
  NULL = NULL
  ItsPri = {1, 2}
  RelTim = {3}
  Tmo <- MCTmo
  HandlerApi = {"tk_wup_tsk", "tk_sta_tsk"}
  MaxWup = 1
PROPERTIES
  TimeoutsFire
  ChosenRuns
