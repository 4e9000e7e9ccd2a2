SPECIFICATION MbfSpec
CONSTANTS
  CNF_MAX_TSKID = 2
  CNF_MAX_TSKPRI = 3
  TIMER_PERIOD = 2
  UW_MAX = 15
  NULL = NULL
  ItsPri = {1}
  RelTim = {}
  Tmo = {}
  MbfTmo = {1}
  HandlerApi = {}
  MaxWup = 0
  CNF_MAX_MBFID = 1
  CMbf <- MCWhole
  Msg <- MCTwoBytes
INVARIANTS
  MbfTypeOK
  StaysInBuffer
  FreeszIsRoom
  ReceiverWaitsForMessage
  SenderWaitsForRoom
PROPERTY IsChannel
