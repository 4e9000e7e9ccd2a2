SPECIFICATION AppFairSpec
CONSTANTS
  CNF_MAX_TSKID = 3
  CNF_MAX_TSKPRI = 3
  TIMER_PERIOD = 2
  UW_MAX = 15
  NULL = NULL
  ItsPri = {2}
  RelTim = {1}
  Tmo <- MCTmo
  MbfTmo <- MCMbfTmo
  HandlerApi = {"tk_wup_tsk"}
  MaxWup = 2
  CNF_MAX_MBFID = 1
  CMbf <- MCCMbf
  Msg <- MCDistance
  PriApp = 2
  SlpTmo = 3
  SndTmo = 1
  DlyTim = 1
  MbfDepth = 3
  EchoTicks = 2
INVARIANTS
  AppTypeOK
  DistanceIsFresh
  NoPileOfWakeups
  NoDistanceDropped
PROPERTIES
  MeasuresForever
  SentIsShown
