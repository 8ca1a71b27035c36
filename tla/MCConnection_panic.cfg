CONSTANTS
  Transport = "websocket"
  PingEnabled = TRUE
  MaxQueueSize <- MCMaxQueueSize
  MsgSizes <- MCMsgSizes
  NumSenders <- MCNumSenders
  MaxMsgs <- MCMaxMsgs
  MaxPings <- MCMaxPings
SPECIFICATION Spec
CHECK_DEADLOCK FALSE
INVARIANT NoWriterPanic
