-------------------------- MODULE ConnectionProofs --------------------------
(***************************************************************************)
(* Proofs about Connection for every value of its constants.               *)
(***************************************************************************)
EXTENDS Connection, TLAPS

USE ConnAssumption

\* The payload record a writer.write appends is a Msg.
LEMMA NewMsgType ==
  ASSUME NEW n \in Nat, NEW sz \in MsgSizes
  PROVE  [id |-> n + 1, size |-> sz] \in Msg
BY DEF Msg

\* The oldest queued payload is a Msg and its size a natural number.
LEMMA HeadMsg ==
  ASSUME NEW q \in Seq(Msg), q # <<>>
  PROVE  /\ Head(q) \in Msg
         /\ Head(q).size \in Nat
         /\ Tail(q) \in Seq(Msg)
<1>1. Head(q) \in Msg
  OBVIOUS
<1>2. Head(q).size \in Nat
  BY <1>1 DEF Msg
<1>3. QED
  BY <1>1, <1>2

\* The ids of a sequence of payloads form a sequence of naturals.
LEMMA IdsType ==
  ASSUME NEW b \in Seq(Msg)
  PROVE  [i \in 1 .. Len(b) |-> b[i].id] \in Seq(Nat)
<1>0. \A i \in 1 .. Len(b) : b[i] \in Msg
  OBVIOUS
<1>1. \A i \in 1 .. Len(b) : b[i].id \in Nat
  BY <1>0 DEF Msg
<1>2. [i \in 1 .. Len(b) |-> b[i].id] \in [1 .. Len(b) -> Nat]
  BY <1>1
<1>3. QED
  BY <1>2, Len(b) \in Nat

(* While runWriteRoutine merges, the merge counter never exceeds what is   *)
(* left in the queue: only the writer removes payloads, so Head(queue) in  *)
(* the merge loop is always a queued payload.                              *)
MergeBounded == wr = "merge" => mcount <= Len(queue)

DataInv == DataTypeOK /\ MergeBounded

\* Every transition keeps the payloads and counters in their types.
LEMMA DataInvariant == Spec => []DataInv
<1>1. Init => DataInv
  BY DEF Init, DataInv, DataTypeOK, MergeBounded
<1>2. DataInv /\ [Next]_vars => DataInv'
  <2> SUFFICES ASSUME DataInv, [Next]_vars PROVE DataInv'
    OBVIOUS
  <2>. USE DEF DataInv, DataTypeOK, MergeBounded, Close, CloseConn, StopPing
  <2>1. CASE ReadBadFrame
    BY <2>1 DEF ReadBadFrame
  <2>2. CASE ReadFrame
    BY <2>2, NewMsgType DEF ReadFrame, QueueAdd, Producers, Reader
  <2>3. CASE ReadCheckSize
    BY <2>3 DEF ReadCheckSize, Producers, Reader
  <2>4. CASE ReadFail
    BY <2>4 DEF ReadFail
  <2>5. CASE ReaderCloseClient
    BY <2>5 DEF ReaderCloseClient
  <2>6. CASE ReaderCloseWriter
    BY <2>6 DEF ReaderCloseWriter
  <2>7. ASSUME NEW s \in Senders, SendAdd(s) PROVE DataInv'
    BY <2>7, NewMsgType DEF SendAdd, QueueAdd, Producers, Senders
  <2>8. ASSUME NEW s \in Senders, SendCheckSize(s) PROVE DataInv'
    BY <2>8 DEF SendCheckSize, Producers, Senders
  <2>9. CASE AsyncClose
    BY <2>9 DEF AsyncClose
  <2>10. CASE WriterWait
    <3>1. queue # <<>>
      BY <2>10 DEF WriterWait
    <3>2. QED
      BY <2>10, <3>1, HeadMsg DEF WriterWait
  <2>11. CASE WriterExit
    BY <2>11 DEF WriterExit
  <2>12. CASE WriterMerge
    <3>1. CASE mcount > 0 /\ Len(batch) < maxMessagesInFrame
      <4>1. queue # <<>>
        BY <2>12, <3>1 DEF WriterMerge
      <4>2. /\ Head(queue) \in Msg
            /\ Head(queue).size \in Nat
            /\ Tail(queue) \in Seq(Msg)
            /\ Len(Tail(queue)) = Len(queue) - 1
        BY <4>1, HeadMsg
      <4>3. /\ batch' = Append(batch, Head(queue))
            /\ queue' = Tail(queue)
            /\ qsize' = qsize - Head(queue).size
            /\ mcount' = mcount - 1
            /\ wr' = wr
            /\ UNCHANGED <<qclosed, nextId, wire, pings, pending, closers>>
        BY <2>12, <3>1 DEF WriterMerge
      <4>4. QED
        BY <3>1, <4>2, <4>3
    <3>2. CASE ~(mcount > 0 /\ Len(batch) < maxMessagesInFrame)
      BY <2>12, <3>2 DEF WriterMerge
    <3>3. QED
      BY <3>1, <3>2
  <2>13. CASE WriteCheckClosed
    <3>1. CASE closed
      BY <2>13, <3>1 DEF WriteCheckClosed
    <3>2. CASE ~closed
      BY <2>13, <3>2 DEF WriteCheckClosed
    <3>3. QED
      BY <3>1, <3>2
  <2>14. CASE WsNextWriter
    BY <2>14 DEF WsNextWriter
  <2>15. CASE WsFlush
    <3>1. CASE connUp
      <4>1. [i \in 1 .. Len(batch) |-> batch[i].id] \in Seq(Nat)
        BY IdsType
      <4>2. /\ wire' = wire \o [i \in 1 .. Len(batch) |-> batch[i].id]
            /\ wr' = "wait" /\ batch' = <<>>
            /\ UNCHANGED <<queue, qsize, qclosed, nextId, pings, mcount, pending, closers>>
        BY <2>15, <3>1 DEF WsFlush
      <4>3. QED
        BY <4>1, <4>2
    <3>2. CASE ~connUp
      BY <2>15, <3>2 DEF WsFlush
    <3>3. QED
      BY <3>1, <3>2
  <2>16. CASE SockjsSend
    <3>1. CASE batch = <<>>
      BY <2>16, <3>1 DEF SockjsSend
    <3>2. CASE batch # <<>> /\ connUp
      <4>1. Head(batch) \in Msg /\ Tail(batch) \in Seq(Msg)
        BY <3>2, HeadMsg
      <4>2. Head(batch).id \in Nat
        BY <4>1 DEF Msg
      <4>3. /\ wire' = Append(wire, Head(batch).id)
            /\ batch' = Tail(batch)
            /\ wr' = wr
            /\ UNCHANGED <<queue, qsize, qclosed, nextId, pings, mcount, pending, closers>>
        BY <2>16, <3>2 DEF SockjsSend
      <4>4. QED
        BY <4>1, <4>2, <4>3
    <3>3. CASE batch # <<>> /\ ~connUp
      BY <2>16, <3>3 DEF SockjsSend
    <3>4. QED
      BY <3>1, <3>2, <3>3
  <2>17. CASE PingFire
    BY <2>17 DEF PingFire
  <2>18. CASE PingWrite
    BY <2>18 DEF PingWrite
  <2>19. CASE PingRearm
    BY <2>19 DEF PingRearm
  <2>20. CASE NetFail
    BY <2>20 DEF NetFail
  <2>21. CASE UNCHANGED vars
    BY <2>21 DEF vars
  <2>22. CASE Teardown
    BY <2>22 DEF Teardown
  <2>23. QED
    BY <2>1, <2>2, <2>3, <2>4, <2>5, <2>6, <2>7, <2>8, <2>9, <2>10,
       <2>11, <2>12, <2>13, <2>14, <2>15, <2>16, <2>17, <2>18, <2>19,
       <2>20, <2>21, <2>22
    DEF Next, ReaderStep, WriterStep, PingStep
<1>3. QED
  BY <1>1, <1>2, PTL DEF Spec

\* CloseConn and StopPing keep the flags, the reason and the timer typed.
LEMMA CloseType ==
  ASSUME ControlTypeOK, NEW d \in Disconnects, Close(d)
  PROVE  /\ closed' \in BOOLEAN
         /\ tearing' \in BOOLEAN
         /\ reason' \in Disconnects \cup {"none", "normal"}
         /\ connUp' \in BOOLEAN
         /\ werr' \in BOOLEAN
         /\ ping' \in {"off", "armed", "firing", "rearm"}
<1>1. CASE closed
  BY <1>1 DEF Close, CloseConn, StopPing, ControlTypeOK
<1>2. CASE ~closed
  BY <1>2 DEF Close, CloseConn, StopPing, ControlTypeOK, Disconnects
<1>3. QED
  BY <1>1, <1>2

\* Every transition keeps the flags and program counters in their types.
LEMMA ControlTypeCorrect == Spec => []ControlTypeOK
<1>1. Init => ControlTypeOK
  BY DEF Init, ControlTypeOK, WriterPCs, ReaderPCs
<1>2. ControlTypeOK /\ [Next]_vars => ControlTypeOK'
  <2> SUFFICES ASSUME ControlTypeOK, [Next]_vars PROVE ControlTypeOK'
    OBVIOUS
  <2>. USE DEF ControlTypeOK, WriterPCs, ReaderPCs, Disconnects
  <2>1. CASE ReadBadFrame
    BY <2>1, CloseType DEF ReadBadFrame
  <2>2. CASE ReadFrame
    BY <2>2 DEF ReadFrame, QueueAdd
  <2>3. CASE ReadCheckSize
    BY <2>3, CloseType DEF ReadCheckSize
  <2>4. CASE ReadFail
    BY <2>4 DEF ReadFail
  <2>5. CASE ReaderCloseClient
    BY <2>5, CloseType DEF ReaderCloseClient
  <2>6. CASE ReaderCloseWriter
    BY <2>6 DEF ReaderCloseWriter
  <2>7. ASSUME NEW s \in Senders, SendAdd(s) PROVE ControlTypeOK'
    BY <2>7 DEF SendAdd, QueueAdd
  <2>8. ASSUME NEW s \in Senders, SendCheckSize(s) PROVE ControlTypeOK'
    BY <2>8 DEF SendCheckSize
  <2>9. CASE AsyncClose
    BY <2>9, CloseType DEF AsyncClose
  <2>10. CASE WriterWait
    BY <2>10 DEF WriterWait
  <2>11. CASE WriterExit
    BY <2>11 DEF WriterExit
  <2>12. CASE WriterMerge
    BY <2>12 DEF WriterMerge
  <2>13. CASE WriteCheckClosed
    BY <2>13 DEF WriteCheckClosed
  <2>14. CASE WsNextWriter
    BY <2>14, CloseType DEF WsNextWriter
  <2>15. CASE WsFlush
    BY <2>15, CloseType DEF WsFlush
  <2>16. CASE SockjsSend
    BY <2>16, CloseType DEF SockjsSend
  <2>17. CASE PingFire
    BY <2>17 DEF PingFire
  <2>18. CASE PingWrite
    <3>1. CASE closed \/ connUp
      BY <2>18, <3>1 DEF PingWrite
    <3>2. CASE ~closed /\ ~connUp
      BY <2>18, <3>2 DEF PingWrite, CloseConn
    <3>3. QED
      BY <3>1, <3>2
  <2>19. CASE PingRearm
    BY <2>19 DEF PingRearm
  <2>20. CASE NetFail
    <3>1. connUp' = FALSE /\ UNCHANGED <<qclosed, closed, reason, tearing, werr, ping, wr, rd>>
      BY <2>20 DEF NetFail
    <3>2. connUp' \in BOOLEAN
      BY <3>1
    <3>3. QED
      BY <3>1, <3>2
  <2>21. CASE UNCHANGED vars
    BY <2>21 DEF vars
  <2>22. CASE Teardown
    <3>1. /\ tearing' = FALSE /\ connUp' = FALSE
          /\ werr' = (werr \/ (Transport = "websocket" /\ reason # "nil"))
          /\ UNCHANGED <<qclosed, closed, reason, ping, wr, rd>>
      BY <2>22 DEF Teardown
    <3>2. werr' \in BOOLEAN /\ tearing' \in BOOLEAN /\ connUp' \in BOOLEAN
      BY <3>1
    <3>3. /\ qclosed' \in BOOLEAN /\ closed' \in BOOLEAN
          /\ reason' \in Disconnects \cup {"none", "normal"}
          /\ ping' \in {"off", "armed", "firing", "rearm"}
          /\ wr' \in WriterPCs /\ rd' \in ReaderPCs
      BY <3>1
    <3>4. QED
      BY <3>2, <3>3
  <2>23. QED
    BY <2>1, <2>2, <2>3, <2>4, <2>5, <2>6, <2>7, <2>8, <2>9, <2>10,
       <2>11, <2>12, <2>13, <2>14, <2>15, <2>16, <2>17, <2>18, <2>19,
       <2>20, <2>21, <2>22
    DEF Next, ReaderStep, WriterStep, PingStep
<1>3. QED
  BY <1>1, <1>2, PTL DEF Spec

\* Theorem: every reachable state of the connection is well typed.
THEOREM TypeCorrect == Spec => []TypeOK
BY DataInvariant, ControlTypeCorrect, PTL DEF TypeOK, DataInv
-----------------------------------------------------------------------------
\* Every Close leaves the transport closed, whoever called it first.
LEMMA CloseCloses ==
  ASSUME NEW d, Close(d)
  PROVE  closed'
<1>1. CASE closed
  BY <1>1 DEF Close, CloseConn
<1>2. CASE ~closed
  BY <1>2 DEF Close, CloseConn
<1>3. QED
  BY <1>1, <1>2

(* Theorem: a connection whose queue has outgrown MaxQueueSize is closed,  *)
(* or a "go t.Close(slow)" goroutine is pending, or some writer.write has  *)
(* added its bytes and not yet compared Size() with MaxQueueSize. The size *)
(* check of writer.write runs after the unlock, so between the two the     *)
(* queue may be too large; the theorem says no path forgets the check.     *)
THEOREM SlowConsumerSafe == Spec => []SlowConsumerNoticed
<1>1. Init => SlowConsumerNoticed
  BY DEF Init, SlowConsumerNoticed, ConnAssumption
<1>2. TypeOK /\ MergeBounded /\ SlowConsumerNoticed /\ [Next]_vars
        => SlowConsumerNoticed'
  <2> SUFFICES ASSUME TypeOK, MergeBounded, SlowConsumerNoticed, [Next]_vars
               PROVE  SlowConsumerNoticed'
    OBVIOUS
  <2>. USE DEF TypeOK, DataTypeOK
  <2>1. CASE ReadBadFrame
    BY <2>1, CloseCloses DEF ReadBadFrame, SlowConsumerNoticed
  <2>2. CASE ReadFrame
    <3>1. PICK sz \in MsgSizes : QueueAdd(Reader, sz)
      BY <2>2 DEF ReadFrame
    <3>2. pending'[Reader] = sz /\ sz > 0
      BY <3>1 DEF QueueAdd, Producers, Reader
    <3>3. QED
      BY <3>2 DEF SlowConsumerNoticed, Producers, Reader
  <2>3. CASE ReadCheckSize
    <3>1. CASE Slow
      BY <2>3, <3>1, CloseCloses DEF ReadCheckSize, SlowConsumerNoticed
    <3>2. CASE ~Slow
      BY <2>3, <3>2 DEF ReadCheckSize, SlowConsumerNoticed, Slow
    <3>3. QED
      BY <3>1, <3>2
  <2>4. CASE ReadFail
    BY <2>4 DEF ReadFail, SlowConsumerNoticed
  <2>5. CASE ReaderCloseClient
    BY <2>5, CloseCloses DEF ReaderCloseClient, SlowConsumerNoticed
  <2>6. CASE ReaderCloseWriter
    BY <2>6 DEF ReaderCloseWriter, SlowConsumerNoticed
  <2>7. ASSUME NEW s \in Senders, SendAdd(s) PROVE SlowConsumerNoticed'
    <3>1. PICK sz \in MsgSizes : QueueAdd(s, sz)
      BY <2>7 DEF SendAdd
    <3>2. pending'[s] = sz /\ sz > 0
      BY <3>1 DEF QueueAdd, Producers, Senders
    <3>3. QED
      BY <3>2 DEF SlowConsumerNoticed, Producers, Senders
  <2>8. ASSUME NEW s \in Senders, SendCheckSize(s) PROVE SlowConsumerNoticed'
    <3>1. CASE Slow
      BY <2>8, <3>1 DEF SendCheckSize, SlowConsumerNoticed
    <3>2. CASE ~Slow
      BY <2>8, <3>2 DEF SendCheckSize, SlowConsumerNoticed, Slow
    <3>3. QED
      BY <3>1, <3>2
  <2>9. CASE AsyncClose
    BY <2>9, CloseCloses DEF AsyncClose, SlowConsumerNoticed
  <2>10. CASE WriterWait
    <3>1. Head(queue).size \in Nat
      BY <2>10, HeadMsg DEF WriterWait
    <3>2. qsize' \in Int /\ qsize' <= qsize /\ UNCHANGED <<closed, closers, pending>>
      BY <2>10, <3>1 DEF WriterWait
    <3>3. QED
      BY <3>2 DEF SlowConsumerNoticed, Slow
  <2>11. CASE WriterExit
    BY <2>11 DEF WriterExit, SlowConsumerNoticed
  <2>12. CASE WriterMerge
    <3>1. CASE mcount > 0 /\ Len(batch) < maxMessagesInFrame
      <4>1. queue # <<>>
        BY <2>12, <3>1 DEF WriterMerge, MergeBounded
      <4>2. Head(queue).size \in Nat
        BY <4>1, HeadMsg
      <4>3. qsize' \in Int /\ qsize' <= qsize /\ UNCHANGED <<closed, closers, pending>>
        BY <2>12, <3>1, <4>2 DEF WriterMerge
      <4>4. QED
        BY <4>3 DEF SlowConsumerNoticed
    <3>2. CASE ~(mcount > 0 /\ Len(batch) < maxMessagesInFrame)
      BY <2>12, <3>2 DEF WriterMerge, SlowConsumerNoticed
    <3>3. QED
      BY <3>1, <3>2
  <2>13. CASE WriteCheckClosed
    BY <2>13 DEF WriteCheckClosed, SlowConsumerNoticed
  <2>14. CASE WsNextWriter
    BY <2>14, CloseCloses DEF WsNextWriter, SlowConsumerNoticed
  <2>15. CASE WsFlush
    BY <2>15, CloseCloses DEF WsFlush, SlowConsumerNoticed
  <2>16. CASE SockjsSend
    BY <2>16, CloseCloses DEF SockjsSend, SlowConsumerNoticed
  <2>17. CASE PingFire
    BY <2>17 DEF PingFire, SlowConsumerNoticed
  <2>18. CASE PingWrite
    BY <2>18 DEF PingWrite, CloseConn, SlowConsumerNoticed
  <2>19. CASE PingRearm
    BY <2>19 DEF PingRearm, SlowConsumerNoticed
  <2>20. CASE NetFail
    BY <2>20 DEF NetFail, SlowConsumerNoticed
  <2>21. CASE UNCHANGED vars
    BY <2>21 DEF vars, SlowConsumerNoticed
  <2>22. CASE Teardown
    BY <2>22 DEF Teardown, SlowConsumerNoticed
  <2>23. QED
    BY <2>1, <2>2, <2>3, <2>4, <2>5, <2>6, <2>7, <2>8, <2>9, <2>10,
       <2>11, <2>12, <2>13, <2>14, <2>15, <2>16, <2>17, <2>18, <2>19,
       <2>20, <2>21, <2>22
    DEF Next, ReaderStep, WriterStep, PingStep
<1>3. QED
  BY <1>1, <1>2, TypeCorrect, DataInvariant, PTL DEF Spec, DataInv
-----------------------------------------------------------------------------
(* Theorem: after websocketTransport.Close no ping timer is armed. Close   *)
(* stops an armed timer under the lock; a timer that has already fired     *)
(* either finds closeCh closed in ping, or reaches addPing, which looks at *)
(* closed under the same lock before it arms a new timer.                  *)
THEOREM PingStopsAfterClose == Spec => []PingNotArmedAfterClose
<1>1. Init => PingNotArmedAfterClose
  BY DEF Init, PingNotArmedAfterClose
<1>2. PingNotArmedAfterClose /\ [Next]_vars => PingNotArmedAfterClose'
  <2> SUFFICES ASSUME PingNotArmedAfterClose, [Next]_vars
               PROVE  PingNotArmedAfterClose'
    OBVIOUS
  <2>. USE DEF PingNotArmedAfterClose
  \* Every Close of either transport leaves the timer off or not armed.
  <2>1. ASSUME NEW d, Close(d) PROVE ping' # "armed"
    <3>1. CASE closed
      BY <2>1, <3>1 DEF Close, StopPing
    <3>2. CASE ~closed
      BY <2>1, <3>2 DEF Close, StopPing
    <3>3. QED
      BY <3>1, <3>2
  <2>2. CASE ReadBadFrame
    BY <2>1, <2>2 DEF ReadBadFrame
  <2>3. CASE ReadCheckSize
    BY <2>1, <2>3 DEF ReadCheckSize
  <2>4. CASE ReaderCloseClient
    BY <2>1, <2>4 DEF ReaderCloseClient
  <2>5. CASE AsyncClose
    BY <2>1, <2>5 DEF AsyncClose
  <2>6. CASE WsNextWriter
    BY <2>1, <2>6 DEF WsNextWriter
  <2>7. CASE WsFlush
    BY <2>1, <2>7 DEF WsFlush
  <2>8. CASE SockjsSend
    BY <2>1, <2>8 DEF SockjsSend
  <2>9. CASE PingFire
    BY <2>9 DEF PingFire
  <2>10. CASE PingWrite
    BY <2>10 DEF PingWrite, CloseConn
  <2>11. CASE PingRearm
    BY <2>11 DEF PingRearm
  <2>12. CASE ReadFrame \/ ReadFail \/ ReaderCloseWriter \/ WriterWait
              \/ WriterExit \/ WriterMerge \/ WriteCheckClosed \/ NetFail
              \/ Teardown \/ UNCHANGED vars
    BY <2>12 DEF ReadFrame, QueueAdd, ReadFail, ReaderCloseWriter, WriterWait,
                 WriterExit, WriterMerge, WriteCheckClosed, NetFail, Teardown,
                 vars
  <2>13. ASSUME NEW s \in Senders, SendAdd(s) \/ SendCheckSize(s)
         PROVE  PingNotArmedAfterClose'
    BY <2>13 DEF SendAdd, QueueAdd, SendCheckSize
  <2>14. QED
    BY <2>2, <2>3, <2>4, <2>5, <2>6, <2>7, <2>8, <2>9, <2>10, <2>11,
       <2>12, <2>13
    DEF Next, ReaderStep, WriterStep, PingStep
<1>3. QED
  BY <1>1, <1>2, PTL DEF Spec
-----------------------------------------------------------------------------
(* The queue is closed only by the reader's deferred writer.close(), which *)
(* runs after its deferred c.Close(nil): so a closed queue, and a reader   *)
(* past c.Close, imply a closed transport.                                 *)
WriterClosedInv ==
  /\ WriterExitsOnlyWhenClosed
  /\ qclosed => closed
  /\ rd \in {"closeWriter", "done"} => closed

(* Theorem: runWriteRoutine never ends while the transport is open. It     *)
(* returns on a closed, drained queue (closed by the reader after it       *)
(* closed the client), or after a failed write that has closed the         *)
(* transport itself; the panic of the finding also comes after a Close.    *)
THEOREM WriterExitSafe == Spec => []WriterExitsOnlyWhenClosed
<1>1. Init => WriterClosedInv
  BY DEF Init, WriterClosedInv, WriterExitsOnlyWhenClosed
<1>2. WriterClosedInv /\ [Next]_vars => WriterClosedInv'
  <2> SUFFICES ASSUME WriterClosedInv, [Next]_vars
               PROVE  WriterClosedInv'
    OBVIOUS
  <2>. USE DEF WriterClosedInv, WriterExitsOnlyWhenClosed
  <2>1. CASE ReadBadFrame
    BY <2>1, CloseCloses DEF ReadBadFrame
  <2>2. CASE ReadCheckSize
    <3>1. CASE Slow
      BY <2>2, <3>1, CloseCloses DEF ReadCheckSize
    <3>2. CASE ~Slow
      BY <2>2, <3>2 DEF ReadCheckSize
    <3>3. QED
      BY <3>1, <3>2
  <2>3. CASE ReaderCloseClient
    BY <2>3, CloseCloses DEF ReaderCloseClient
  <2>4. CASE ReaderCloseWriter
    BY <2>4 DEF ReaderCloseWriter
  <2>5. CASE AsyncClose
    BY <2>5, CloseCloses DEF AsyncClose
  <2>6. CASE WriterExit
    BY <2>6 DEF WriterExit
  <2>7. CASE WsNextWriter
    <3>1. CASE werr
      BY <2>7, <3>1, CloseCloses DEF WsNextWriter
    <3>2. CASE ~werr
      BY <2>7, <3>2 DEF WsNextWriter
    <3>3. QED
      BY <3>1, <3>2
  <2>8. CASE WsFlush
    <3>1. CASE connUp
      BY <2>8, <3>1 DEF WsFlush
    <3>2. CASE ~connUp
      BY <2>8, <3>2, CloseCloses DEF WsFlush
    <3>3. QED
      BY <3>1, <3>2
  <2>9. CASE SockjsSend
    <3>1. CASE batch = <<>>
      BY <2>9, <3>1 DEF SockjsSend
    <3>2. CASE batch # <<>> /\ connUp
      BY <2>9, <3>2 DEF SockjsSend
    <3>3. CASE batch # <<>> /\ ~connUp
      BY <2>9, <3>3, CloseCloses DEF SockjsSend
    <3>4. QED
      BY <3>1, <3>2, <3>3
  <2>10. CASE PingWrite
    BY <2>10 DEF PingWrite, CloseConn
  <2>11. CASE WriteCheckClosed
    BY <2>11 DEF WriteCheckClosed
  <2>12. CASE ReadFrame \/ ReadFail \/ WriterWait \/ WriterMerge
              \/ PingFire \/ PingRearm \/ NetFail \/ Teardown
              \/ UNCHANGED vars
    BY <2>12 DEF ReadFrame, QueueAdd, ReadFail, WriterWait, WriterMerge,
                 PingFire, PingRearm, NetFail, Teardown, vars
  <2>13. ASSUME NEW s \in Senders, SendAdd(s) \/ SendCheckSize(s)
         PROVE  WriterClosedInv'
    BY <2>13 DEF SendAdd, QueueAdd, SendCheckSize
  <2>14. QED
    BY <2>1, <2>2, <2>3, <2>4, <2>5, <2>6, <2>7, <2>8, <2>9, <2>10,
       <2>11, <2>12, <2>13
    DEF Next, ReaderStep, WriterStep, PingStep
<1>3. WriterClosedInv => WriterExitsOnlyWhenClosed
  BY DEF WriterClosedInv
<1>4. QED
  BY <1>1, <1>2, <1>3, PTL DEF Spec
=============================================================================
