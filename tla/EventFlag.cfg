SPECIFICATION FlgSpec
CONSTANTS
  CNF_MAX_TSKID = 2
  CNF_MAX_TSKPRI = 3
  TIMER_PERIOD = 2
  UW_MAX = 15
  NULL = NULL
  ItsPri = {1}
  RelTim = {}
  Tmo = {1}
  HandlerApi = {"tk_set_flg"}
  MaxWup = 0
  CNF_MAX_FLGID = 1
  Bit = {"b0", "b1"}
  Ptn <- MCPtn
  WfMode <- MCWfMode
  WaitersPerFlag = 2
INVARIANT FlgTypeOK
PROPERTIES
  WaitsEndForCause
  ReleasedInOrder
  LeftOnlyBehindAnother
