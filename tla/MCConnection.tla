---------------------------- MODULE MCConnection ----------------------------
(* Model-checking instance of Connection: up to two broadcast goroutines *)
(* and the reader all adding 1-byte payloads to a queue limited to 2 bytes,   *)
(* so a third queued payload makes the connection slow, and the merge     *)
(* loop of runWriteRoutine meets up to five queued payloads (more than    *)
(* maxMessagesInFrame).                                                   *)
EXTENDS Connection

MCMaxQueueSize == 2
MCMsgSizes == {1}
MCNumSenders == 2
\* The websocket run has one broadcast goroutine beside the reader: its
\* ping timer and close frame make the state space larger.
MCWsNumSenders == 1
MCMaxMsgs == 5
MCMaxPings == 1
=============================================================================
