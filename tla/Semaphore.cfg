SPECIFICATION SemSpec
CONSTANTS
  CNF_MAX_TSKID = 2
  CNF_MAX_TSKPRI = 3
  TIMER_PERIOD = 2
  UW_MAX = 15
  NULL = NULL
  ItsPri = {1, 2}
  RelTim = {1}
  Tmo <- MCTmo
  HandlerApi = {"tk_sig_sem"}
  MaxWup = 0
  CNF_MAX_SEMID = 1
  CSem <- MCPair
  Cnt = {1, 2}
INVARIANTS
  SemTypeOK
  UnitsConserved
PROPERTIES
  TimeoutHitsTheWaiter
  GrantsInOrder
