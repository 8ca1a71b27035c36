CONSTANTS
  Transport = "websocket"
  PingEnabled = TRUE
  MaxQueueSize <- MCMaxQueueSize
  MsgSizes <- MCMsgSizes
  NumSenders <- MCWsNumSenders
  MaxMsgs <- MCMaxMsgs
  MaxPings <- MCMaxPings
SPECIFICATION Spec
CHECK_DEADLOCK FALSE
INVARIANTS
  TypeOK
  WriterExitsOnlyWhenClosed
  MessagesInOrder
  PingNotArmedAfterClose
  SlowConsumerNoticed
PROPERTIES
  CloseIsFinal
  ConnectionReleased
  ChannelSpec
