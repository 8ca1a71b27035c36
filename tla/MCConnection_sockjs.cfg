CONSTANTS
  Transport = "sockjs"
  PingEnabled = FALSE
  MaxQueueSize <- MCMaxQueueSize
  MsgSizes <- MCMsgSizes
  NumSenders <- MCNumSenders
  MaxMsgs <- MCMaxMsgs
  MaxPings <- MCMaxPings
SPECIFICATION Spec
CHECK_DEADLOCK FALSE
INVARIANTS
  TypeOK
  WriterExitsOnlyWhenClosed
  MessagesInOrder
  SlowConsumerNoticed
PROPERTIES
  CloseIsFinal
  ConnectionReleased
  ChannelSpec
