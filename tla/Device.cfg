SPECIFICATION DevSpec
CONSTANTS
  CNF_MAX_TSKID = 2
  CNF_MAX_TSKPRI = 3
  TIMER_PERIOD = 2
  UW_MAX = 15
  NULL = NULL
  ItsPri = {2}
  RelTim = {}
  Tmo <- MCForever
  HandlerApi = {"tk_wup_tsk"}
  MaxWup = 0
  CNF_MAX_SEMID = 2
  CSem <- MCLock
  Cnt = {1}
  DevNm = {"iica", "adca"}
  OMode <- MCOMode
  Start = {0, 1}
  Size = {0, 2}
INVARIANTS
  DevTypeOK
  OneTransferPerUnit
  LocksAreDistinct
  NoWriteToAdc
  NoIdleUnits
PROPERTY IsSerialDevice
