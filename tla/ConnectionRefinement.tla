------------------------ MODULE ConnectionRefinement ------------------------
(***************************************************************************)
(* Proof that Connection implements the FIFO channel of ConnectionChannel  *)
(* under the mapping of Connection!Channel (accepted <- nextId, delivered  *)
(* <- wire, open <- ~closed, limit <- what may still reach the peer), for  *)
(* every value of the constants: every step of the connection's goroutines *)
(* is a step of the channel or leaves the channel's state alone.  The      *)
(* fairness part (WF of DeliverOpen) is only model-checked.                *)
(***************************************************************************)
EXTENDS ConnectionProofs, SequenceTheorems

USE ConnAssumption

\* runWriteRoutine waits in messages.Wait only with an empty msgs.
WaitEmpty == wr = "wait" => batch = <<>>

\* The peer received 1, 2, ..., in order, and no id the queue never issued.
WirePrefix == (\A i \in 1 .. Len(wire) : wire[i] = i) /\ Len(wire) <= nextId

(* While the transport is open, the payloads not yet on the wire are in    *)
(* msgs and then in the queue, with the next ids, in order.                *)
InFlight ==
  ~closed =>
    /\ Len(wire) + Len(batch) + Len(queue) = nextId
    /\ \A i \in 1 .. Len(batch) : batch[i].id = Len(wire) + i
    /\ \A i \in 1 .. Len(queue) : queue[i].id = Len(wire) + Len(batch) + i

(* A write past its closeCh check holds the next ids, whether or not the  *)
(* transport has been closed since: Close does not stop it, and the peer  *)
(* may still receive them.                                                 *)
CommitNext ==
  PastCheck =>
    /\ \A i \in 1 .. Len(batch) : batch[i].id = Len(wire) + i
    /\ Len(wire) + Len(batch) <= nextId

OrderInv == WaitEmpty /\ WirePrefix /\ InFlight /\ CommitNext

\* The part of transport.Close under the lock leaves the transport closed.
LEMMA CloseConnCloses ==
  ASSUME NEW d, CloseConn(d)
  PROVE  closed' = TRUE
BY DEF CloseConn

\* A step that leaves the payload path alone and at most closes the
\* transport keeps the order invariant.
LEMMA FrozenStep ==
  ASSUME TypeOK, OrderInv,
         UNCHANGED <<queue, batch, wire, nextId, wr>>,
         closed' = closed \/ closed' = TRUE
  PROVE  OrderInv'
BY DEF OrderInv, WaitEmpty, WirePrefix, InFlight, CommitNext, PastCheck,
       TypeOK, ControlTypeOK

\* writer.write's Add puts the next id at the end of the queue.
LEMMA AddStep ==
  ASSUME TypeOK, OrderInv, NEW p, NEW sz \in MsgSizes, QueueAdd(p, sz),
         UNCHANGED <<batch, wire, closed, connUp, wr>>
  PROVE  OrderInv'
<1>1. /\ queue' = Append(queue, [id |-> nextId + 1, size |-> sz])
      /\ nextId' = nextId + 1
  BY DEF QueueAdd
<1>2. Len(queue') = Len(queue) + 1
  BY <1>1 DEF TypeOK, DataTypeOK
<1>3. WirePrefix'
  BY <1>1 DEF OrderInv, WirePrefix, TypeOK, DataTypeOK
<1>4. InFlight'
  <2> SUFFICES ASSUME ~closed PROVE InFlight'
    BY DEF InFlight
  <2>1. Len(wire) + Len(batch) + Len(queue) = nextId
    BY DEF OrderInv, InFlight
  <2>2. \A i \in 1 .. Len(queue') : queue'[i].id = Len(wire) + Len(batch) + i
    <3> SUFFICES ASSUME NEW i \in 1 .. Len(queue')
                 PROVE  queue'[i].id = Len(wire) + Len(batch) + i
      OBVIOUS
    <3>1. CASE i \in 1 .. Len(queue)
      <4>1. queue'[i] = queue[i]
        BY <1>1, <3>1 DEF TypeOK, DataTypeOK
      <4>2. QED
        BY <3>1, <4>1 DEF OrderInv, InFlight
    <3>2. CASE i = Len(queue) + 1
      <4>1. queue'[i] = [id |-> nextId + 1, size |-> sz]
        BY <1>1, <3>2 DEF TypeOK, DataTypeOK
      <4>2. QED
        BY <2>1, <3>2, <4>1 DEF TypeOK, DataTypeOK
    <3>3. QED
      BY <1>2, <3>1, <3>2 DEF TypeOK, DataTypeOK
  <2>3. QED
    BY <1>1, <1>2, <2>1, <2>2 DEF OrderInv, InFlight
<1>5. CommitNext'
  <2>1. Len(wire) + Len(batch) <= nextId => Len(wire) + Len(batch) <= nextId'
    BY <1>1 DEF TypeOK, DataTypeOK
  <2>2. QED
    BY <2>1 DEF OrderInv, CommitNext, PastCheck
<1>6. QED
  BY <1>3, <1>4, <1>5 DEF OrderInv, WaitEmpty

\* messages.Wait moves the oldest payload into the empty msgs.
LEMMA WaitStep ==
  ASSUME TypeOK, OrderInv, WriterWait
  PROVE  OrderInv'
<1>1. /\ queue # <<>> /\ batch = <<>>
      /\ batch' = <<Head(queue)>> /\ queue' = Tail(queue)
      /\ wr' = "merge"
      /\ UNCHANGED <<wire, nextId, closed>>
  BY DEF WriterWait, OrderInv, WaitEmpty
<1>2. InFlight'
  <2> SUFFICES ASSUME ~closed PROVE InFlight'
    BY <1>1 DEF InFlight
  <2>1. /\ Len(wire) + Len(queue) = nextId
        /\ \A i \in 1 .. Len(queue) : queue[i].id = Len(wire) + i
    BY <1>1 DEF OrderInv, InFlight
  <2>2. /\ Len(batch') = 1 /\ batch'[1].id = Len(wire) + 1
        /\ Len(queue') = Len(queue) - 1
        /\ \A i \in 1 .. Len(queue') : queue'[i] = queue[i + 1]
    BY <1>1, <2>1 DEF TypeOK, DataTypeOK
  <2>3. \A i \in 1 .. Len(queue') : queue'[i].id = Len(wire) + Len(batch') + i
    <3> SUFFICES ASSUME NEW i \in 1 .. Len(queue')
                 PROVE  queue'[i].id = Len(wire) + Len(batch') + i
      OBVIOUS
    <3>1. i + 1 \in 1 .. Len(queue)
      BY <2>2, <1>1 DEF TypeOK, DataTypeOK
    <3>2. queue[i + 1].id = Len(wire) + i + 1
      BY <2>1, <3>1
    <3>3. QED
      BY <2>2, <3>2 DEF TypeOK, DataTypeOK
  <2>0. wire' = wire /\ nextId' = nextId
    BY DEF WriterWait
  <2>4. Len(wire') + Len(batch') + Len(queue') = nextId'
    <3>1. Len(wire') = Len(wire) /\ nextId' = nextId
      BY <2>0
    <3>2. Len(queue) \in Nat /\ Len(wire) \in Nat
      BY DEF TypeOK, DataTypeOK
    <3>3. QED
      BY <3>1, <3>2, <2>1, <2>2
  <2>5. \A i \in 1 .. Len(batch') : batch'[i].id = Len(wire') + i
    BY <2>0, <2>2
  <2>6. QED
    BY <1>1, <2>3, <2>4, <2>5 DEF InFlight
<1>3. QED
  BY <1>1, <1>2 DEF OrderInv, WaitEmpty, WirePrefix, CommitNext, PastCheck

\* One turn of the merge loop moves the oldest payload to the end of msgs.
LEMMA MergeStep ==
  ASSUME TypeOK, MergeBounded, OrderInv, WriterMerge
  PROVE  OrderInv'
<1>1. CASE mcount > 0 /\ Len(batch) < maxMessagesInFrame
  <2>1. /\ queue # <<>>
        /\ batch' = Append(batch, Head(queue)) /\ queue' = Tail(queue)
        /\ wr' = "merge"
        /\ UNCHANGED <<wire, nextId, closed>>
    BY <1>1 DEF WriterMerge, MergeBounded, TypeOK, DataTypeOK
  <2>2. InFlight'
    <3> SUFFICES ASSUME ~closed PROVE InFlight'
      BY <2>1 DEF InFlight
    <3>1. /\ Len(wire) + Len(batch) + Len(queue) = nextId
          /\ \A i \in 1 .. Len(batch) : batch[i].id = Len(wire) + i
          /\ \A i \in 1 .. Len(queue) : queue[i].id = Len(wire) + Len(batch) + i
      BY <2>1 DEF OrderInv, InFlight
    <3>2. /\ Len(batch') = Len(batch) + 1
          /\ \A i \in 1 .. Len(batch) : batch'[i] = batch[i]
          /\ batch'[Len(batch) + 1] = queue[1]
          /\ Len(queue') = Len(queue) - 1
          /\ \A i \in 1 .. Len(queue') : queue'[i] = queue[i + 1]
      BY <2>1 DEF TypeOK, DataTypeOK
    <3>3. \A i \in 1 .. Len(batch') : batch'[i].id = Len(wire) + i
      <4> SUFFICES ASSUME NEW i \in 1 .. Len(batch')
                   PROVE  batch'[i].id = Len(wire) + i
        OBVIOUS
      <4>1. CASE i \in 1 .. Len(batch)
        BY <3>1, <3>2, <4>1
      <4>2. CASE i = Len(batch) + 1
        BY <3>1, <3>2, <4>2, <2>1 DEF TypeOK, DataTypeOK
      <4>3. QED
        BY <3>2, <4>1, <4>2 DEF TypeOK, DataTypeOK
    <3>4. \A i \in 1 .. Len(queue') : queue'[i].id = Len(wire) + Len(batch') + i
      <4> SUFFICES ASSUME NEW i \in 1 .. Len(queue')
                   PROVE  queue'[i].id = Len(wire) + Len(batch') + i
        OBVIOUS
      <4>1. i + 1 \in 1 .. Len(queue)
        BY <3>2, <2>1 DEF TypeOK, DataTypeOK
      <4>2. queue[i + 1].id = Len(wire) + Len(batch) + i + 1
        BY <3>1, <4>1
      <4>3. QED
        BY <3>2, <4>2 DEF TypeOK, DataTypeOK
    <3>5. QED
      BY <2>1, <3>1, <3>2, <3>3, <3>4 DEF InFlight, TypeOK, DataTypeOK
  <2>3. QED
    BY <2>1, <2>2 DEF OrderInv, WaitEmpty, WirePrefix, CommitNext, PastCheck
<1>2. CASE ~(mcount > 0 /\ Len(batch) < maxMessagesInFrame)
  BY <1>2 DEF WriterMerge, OrderInv, WaitEmpty, WirePrefix, InFlight,
              CommitNext, PastCheck
<1>3. QED
  BY <1>1, <1>2

\* write on a closed transport drops msgs; on an open one it goes on.
LEMMA CheckClosedStep ==
  ASSUME TypeOK, OrderInv, WriteCheckClosed
  PROVE  OrderInv'
<1>1. CASE closed
  BY <1>1 DEF WriteCheckClosed, OrderInv, WaitEmpty, WirePrefix, InFlight,
              CommitNext, PastCheck
<1>2. CASE ~closed
  <2>1. /\ UNCHANGED <<queue, batch, wire, nextId, closed>>
        /\ wr' \in {"nextWriter", "send"}
    BY <1>2 DEF WriteCheckClosed
  <2>2. /\ Len(wire) + Len(batch) + Len(queue) = nextId
        /\ \A i \in 1 .. Len(batch) : batch[i].id = Len(wire) + i
    BY <1>2 DEF OrderInv, InFlight
  <2>3. CommitNext'
    BY <2>1, <2>2 DEF CommitNext, TypeOK, DataTypeOK
  <2>4. QED
    BY <2>1, <2>3 DEF OrderInv, WaitEmpty, WirePrefix, InFlight
<1>3. QED
  BY <1>1, <1>2 DEF TypeOK, ControlTypeOK

\* conn.NextWriter: on gorilla's write error Close (and the panic).
LEMMA NextWriterStep ==
  ASSUME TypeOK, OrderInv, WsNextWriter
  PROVE  OrderInv'
<1>1. CASE werr
  <2>1. closed' = TRUE
    BY <1>1, CloseConnCloses DEF WsNextWriter, Close
  <2>2. UNCHANGED <<queue, batch, wire, nextId>> /\ wr' = "panic"
    BY <1>1 DEF WsNextWriter
  <2>3. QED
    BY <2>1, <2>2 DEF OrderInv, WaitEmpty, WirePrefix, InFlight, CommitNext,
                      PastCheck
<1>2. CASE ~werr
  BY <1>2 DEF WsNextWriter, OrderInv, WaitEmpty, WirePrefix, InFlight,
              CommitNext, PastCheck
<1>3. QED
  BY <1>1, <1>2 DEF TypeOK, ControlTypeOK
\* The ids of msgs, as the frame writes them.
Written == [i \in 1 .. Len(batch) |-> batch[i].id]

\* websocket: one frame with every payload of msgs reaches the peer, or a
\* failed write closes the transport.  The frame may be written after
\* Close, as long as the socket is still up.
LEMMA FlushStep ==
  ASSUME TypeOK, OrderInv, WsFlush
  PROVE  OrderInv'
<1>1. CASE connUp
  <2>2. /\ wire' = wire \o Written /\ batch' = <<>> /\ wr' = "wait"
        /\ queue' = queue /\ nextId' = nextId /\ closed' = closed
    BY <1>1 DEF WsFlush, Written
  <2>4. /\ \A i \in 1 .. Len(batch) : batch[i].id = Len(wire) + i
        /\ Len(wire) + Len(batch) <= nextId
    BY DEF WsFlush, OrderInv, CommitNext, PastCheck
  <2>5. Written \in Seq(Nat) /\ Len(Written) = Len(batch)
    BY IdsType DEF Written, TypeOK, DataTypeOK
  <2>6. /\ Len(wire') = Len(wire) + Len(batch)
        /\ \A i \in 1 .. Len(wire) + Len(batch) :
             wire'[i] = IF i <= Len(wire) THEN wire[i] ELSE Written[i - Len(wire)]
    <3>1. /\ Len(wire \o Written) = Len(wire) + Len(Written)
          /\ \A i \in 1 .. Len(wire) + Len(Written) :
               (wire \o Written)[i] =
                 IF i <= Len(wire) THEN wire[i] ELSE Written[i - Len(wire)]
      BY <2>5, ConcatProperties DEF TypeOK, DataTypeOK
    <3>2. QED
      BY <2>2, <2>5, <3>1
  <2>7. \A i \in 1 .. Len(wire') : wire'[i] = i
    <3> SUFFICES ASSUME NEW i \in 1 .. Len(wire') PROVE wire'[i] = i
      OBVIOUS
    <3>1. CASE i \in 1 .. Len(wire)
      BY <2>6, <3>1 DEF OrderInv, WirePrefix, TypeOK, DataTypeOK
    <3>2. CASE i \in Len(wire) + 1 .. Len(wire) + Len(batch)
      <4>1. wire'[i] = Written[i - Len(wire)]
        BY <2>6, <3>2 DEF TypeOK, DataTypeOK
      <4>2. Written[i - Len(wire)] = Len(wire) + (i - Len(wire))
        <5>1. i - Len(wire) \in 1 .. Len(batch)
          BY <3>2 DEF TypeOK, DataTypeOK
        <5>2. Written[i - Len(wire)] = batch[i - Len(wire)].id
          BY <5>1 DEF Written
        <5>3. QED
          BY <2>4, <5>1, <5>2
      <4>3. QED
        BY <4>1, <4>2, <3>2 DEF TypeOK, DataTypeOK
    <3>3. QED
      BY <2>6, <3>1, <3>2 DEF TypeOK, DataTypeOK
  <2>8. WirePrefix'
    BY <2>2, <2>4, <2>6, <2>7 DEF WirePrefix, TypeOK, DataTypeOK
  <2>10. InFlight'
    <3> SUFFICES ASSUME ~closed' PROVE InFlight'
      BY DEF InFlight
    <3>1. /\ Len(wire) + Len(batch) + Len(queue) = nextId
          /\ \A i \in 1 .. Len(queue) : queue[i].id = Len(wire) + Len(batch) + i
      BY <2>2 DEF OrderInv, InFlight
    <3>2. QED
      BY <2>2, <2>6, <3>1 DEF InFlight, TypeOK, DataTypeOK
  <2>11. WaitEmpty' /\ CommitNext'
    BY <2>2 DEF WaitEmpty, CommitNext, PastCheck
  <2>12. QED
    BY <2>8, <2>10, <2>11 DEF OrderInv
<1>2. CASE ~connUp
  <2>1. closed' = TRUE
    BY <1>2, CloseConnCloses DEF WsFlush, Close
  <2>2. wire' = wire /\ wr' = "done" /\ nextId' = nextId /\ batch' = <<>>
    BY <1>2 DEF WsFlush
  <2>3. QED
    BY <2>1, <2>2 DEF OrderInv, WaitEmpty, WirePrefix, InFlight, CommitNext,
                      PastCheck
<1>3. QED
  BY <1>1, <1>2 DEF TypeOK, ControlTypeOK

\* sockjs: session.Send of the oldest payload of msgs, or a failed send
\* that closes the transport.  The loop goes on after Close until the
\* session is closed.
LEMMA SendStep ==
  ASSUME TypeOK, OrderInv, SockjsSend
  PROVE  OrderInv'
<1>1. CASE batch = <<>>
  BY <1>1 DEF SockjsSend, OrderInv, WaitEmpty, WirePrefix, InFlight,
              CommitNext, PastCheck
<1>2. CASE batch # <<>> /\ connUp
  <2>2. /\ wire' = Append(wire, Head(batch).id) /\ batch' = Tail(batch)
        /\ wr' = wr /\ queue' = queue /\ nextId' = nextId /\ closed' = closed
    BY <1>2 DEF SockjsSend
  <2>4. /\ \A i \in 1 .. Len(batch) : batch[i].id = Len(wire) + i
        /\ Len(wire) + Len(batch) <= nextId
    BY DEF SockjsSend, OrderInv, CommitNext, PastCheck
  <2>5. Len(batch) >= 1 /\ Head(batch).id = Len(wire) + 1
    BY <1>2, <2>4 DEF TypeOK, DataTypeOK
  <2>6. /\ Len(wire') = Len(wire) + 1 /\ Len(batch') = Len(batch) - 1
        /\ \A i \in 1 .. Len(wire) : wire'[i] = wire[i]
        /\ wire'[Len(wire) + 1] = Len(wire) + 1
        /\ \A i \in 1 .. Len(batch') : batch'[i] = batch[i + 1]
    BY <2>2, <2>5 DEF TypeOK, DataTypeOK
  <2>7. \A i \in 1 .. Len(batch') : batch'[i].id = Len(wire') + i
    <3> SUFFICES ASSUME NEW i \in 1 .. Len(batch')
                 PROVE  batch'[i].id = Len(wire') + i
      OBVIOUS
    <3>1. i + 1 \in 1 .. Len(batch)
      BY <2>6 DEF TypeOK, DataTypeOK
    <3>2. batch[i + 1].id = Len(wire) + i + 1
      BY <2>4, <3>1
    <3>3. QED
      BY <2>6, <3>2 DEF TypeOK, DataTypeOK
  <2>8. WirePrefix'
    <3>1. \A i \in 1 .. Len(wire') : wire'[i] = i
      <4> SUFFICES ASSUME NEW i \in 1 .. Len(wire') PROVE wire'[i] = i
        OBVIOUS
      <4>0. \A j \in 1 .. Len(wire) : wire[j] = j
        BY DEF OrderInv, WirePrefix
      <4>1. CASE i \in 1 .. Len(wire)
        <5>1. wire'[i] = wire[i]
          BY <2>6, <4>1
        <5>2. wire[i] = i
          BY <4>0, <4>1
        <5>3. QED
          BY <5>1, <5>2
      <4>2. CASE i = Len(wire) + 1
        BY <2>6, <4>2
      <4>3. i \in 1 .. Len(wire) \/ i = Len(wire) + 1
        <5>1. Len(wire) \in Nat
          BY DEF TypeOK, DataTypeOK
        <5>2. Len(wire') = Len(wire) + 1
          BY <2>6
        <5>3. QED
          BY <5>1, <5>2
      <4>4. QED
        BY <4>1, <4>2, <4>3
    <3>2. Len(wire') <= nextId'
      BY <2>2, <2>4, <2>5, <2>6 DEF TypeOK, DataTypeOK
    <3>3. QED
      BY <3>1, <3>2 DEF WirePrefix
  <2>9. Len(wire') + Len(batch') = Len(wire) + Len(batch)
    BY <2>5, <2>6 DEF TypeOK, DataTypeOK
  <2>10. CommitNext'
    BY <2>2, <2>4, <2>7, <2>9 DEF CommitNext
  <2>13. InFlight'
    <3> SUFFICES ASSUME ~closed' PROVE InFlight'
      BY DEF InFlight
    <3>1. /\ Len(wire) + Len(batch) + Len(queue) = nextId
          /\ \A i \in 1 .. Len(queue) : queue[i].id = Len(wire) + Len(batch) + i
      BY <2>2 DEF OrderInv, InFlight
    <3>2. QED
      BY <2>2, <2>7, <2>9, <3>1 DEF InFlight
  <2>11. WaitEmpty'
    BY <2>2 DEF SockjsSend, WaitEmpty
  <2>12. QED
    BY <2>8, <2>10, <2>11, <2>13 DEF OrderInv
<1>3. CASE batch # <<>> /\ ~connUp
  <2>1. closed' = TRUE
    BY <1>3, CloseConnCloses DEF SockjsSend, Close
  <2>2. wire' = wire /\ wr' = "done" /\ nextId' = nextId /\ batch' = <<>>
    BY <1>3 DEF SockjsSend
  <2>3. QED
    BY <2>1, <2>2 DEF OrderInv, WaitEmpty, WirePrefix, InFlight, CommitNext,
                      PastCheck
<1>4. QED
  BY <1>1, <1>2, <1>3 DEF TypeOK, ControlTypeOK

\* Every step of the connection keeps the order invariant.
LEMMA OrderStep ==
  ASSUME TypeOK, DataInv, OrderInv, [Next]_vars
  PROVE  OrderInv'
<1>. USE DEF DataInv
<1>1. CASE ReadBadFrame
  BY <1>1, FrozenStep, CloseConnCloses DEF ReadBadFrame, Close
<1>2. CASE ReadFrame
  BY <1>2, AddStep DEF ReadFrame
<1>3. CASE ReadCheckSize
  <2>1. CASE Slow
    BY <1>3, <2>1, FrozenStep, CloseConnCloses DEF ReadCheckSize, Close
  <2>2. CASE ~Slow
    BY <1>3, <2>2, FrozenStep DEF ReadCheckSize
  <2>3. QED
    BY <2>1, <2>2
<1>4. CASE ReadFail \/ ReaderCloseWriter \/ PingFire \/ PingRearm \/ NetFail
           \/ Teardown
  BY <1>4, FrozenStep DEF ReadFail, ReaderCloseWriter, PingFire, PingRearm,
                          NetFail, Teardown
<1>5. CASE ReaderCloseClient
  BY <1>5, FrozenStep, CloseConnCloses DEF ReaderCloseClient, Close
<1>6. ASSUME NEW s \in Senders, SendAdd(s) PROVE OrderInv'
  BY <1>6, AddStep DEF SendAdd
<1>7. ASSUME NEW s \in Senders, SendCheckSize(s) PROVE OrderInv'
  BY <1>7, FrozenStep DEF SendCheckSize
<1>8. CASE AsyncClose
  BY <1>8, FrozenStep, CloseConnCloses DEF AsyncClose, Close
<1>9. CASE WriterWait
  BY <1>9, WaitStep
<1>10. CASE WriterExit
  BY <1>10 DEF WriterExit, OrderInv, WaitEmpty, WirePrefix, InFlight,
               CommitNext, PastCheck
<1>11. CASE WriterMerge
  BY <1>11, MergeStep
<1>12. CASE WriteCheckClosed
  BY <1>12, CheckClosedStep
<1>13. CASE WsNextWriter
  BY <1>13, NextWriterStep
<1>14. CASE WsFlush
  BY <1>14, FlushStep
<1>15. CASE SockjsSend
  BY <1>15, SendStep
<1>16. CASE PingWrite
  <2>1. CASE closed \/ connUp
    BY <1>16, <2>1, FrozenStep DEF PingWrite, TypeOK, ControlTypeOK
  <2>2. CASE ~closed /\ ~connUp
    BY <1>16, <2>2, FrozenStep, CloseConnCloses DEF PingWrite
  <2>3. QED
    BY <2>1, <2>2
<1>17. CASE UNCHANGED vars
  BY <1>17 DEF vars, OrderInv, WaitEmpty, WirePrefix, InFlight, CommitNext,
               PastCheck
<1>18. QED
  BY <1>1, <1>2, <1>3, <1>4, <1>5, <1>6, <1>7, <1>8, <1>9, <1>10, <1>11,
     <1>12, <1>13, <1>14, <1>15, <1>16, <1>17
  DEF Next, ReaderStep, WriterStep, PingStep

(* The ids on their way to the peer stay in acceptance order: the peer has *)
(* received 1, 2, ...; while the transport is open, msgs and the queue     *)
(* hold the following ids in order; and a write past its closeCh check     *)
(* holds the following ids even after Close.                               *)
LEMMA OrderInvariant == Spec => []OrderInv
<1>1. Init => OrderInv
  BY DEF Init, OrderInv, WaitEmpty, WirePrefix, InFlight, CommitNext,
         PastCheck
<1>2. QED
  BY <1>1, OrderStep, TypeCorrect, DataInvariant, PTL DEF Spec
-----------------------------------------------------------------------------
(* The refinement mapping                                                  *)

\* What may still reach the peer: every accepted payload while the
\* transport is open, after Close only what a write past its closeCh check
\* holds.
Limit == IF closed THEN Len(wire) + Committed ELSE nextId

\* A step that changes neither nextId, wire, closed nor what a write past
\* its check holds is a channel stutter.
LEMMA Stutter ==
  ASSUME UNCHANGED <<nextId, wire, closed>>, Committed' = Committed
  PROVE  [Channel!Next]_Channel!avars
BY DEF Channel!avars

\* While the transport stays open, only nextId and wire matter.
LEMMA StutterOpen ==
  ASSUME ~closed, UNCHANGED <<nextId, wire, closed>>
  PROVE  [Channel!Next]_Channel!avars
BY DEF Channel!avars

\* Limit is at least what the peer received and, while the transport is
\* open, at most what the queue accepted.
LEMMA LimitBounds ==
  ASSUME TypeOK, OrderInv
  PROVE  /\ Committed \in Nat
         /\ Len(wire) + Committed <= nextId \/ closed
         /\ Len(wire) <= nextId
<1>1. Committed \in Nat
  BY DEF Committed, TypeOK, DataTypeOK
<1>2. CASE ~closed
  BY <1>2 DEF OrderInv, InFlight, Committed, TypeOK, DataTypeOK
<1>3. Len(wire) <= nextId
  BY DEF OrderInv, WirePrefix
<1>4. QED
  BY <1>1, <1>2, <1>3

(* The part of Close under the lock, with the write routine either left    *)
(* alone or giving up what it held: the channel's Close when the transport *)
(* was open; when it was already closed, a stutter or the channel's        *)
(* Abandon of the payloads the write gave up.                              *)
LEMMA CloseMaps ==
  ASSUME TypeOK, OrderInv, NEW d, CloseConn(d), UNCHANGED <<nextId, wire>>,
         Committed' = Committed \/ Committed' = 0
  PROVE  [Channel!Next]_Channel!avars
<1>0. Committed \in Nat /\ Len(wire) \in Nat
  BY LimitBounds DEF TypeOK, DataTypeOK
<1>1. CASE closed
  <2>1. closed' = closed
    BY <1>1 DEF CloseConn
  <2>2. CASE Committed' = Committed
    BY <2>1, <2>2, Stutter
  <2>3. CASE Committed' = 0 /\ Committed = 0
    BY <2>1, <2>3, Stutter
  <2>4. CASE Committed' = 0 /\ Committed # 0
    <3>1. Channel!Abandon
      BY <1>0, <1>1, <2>1, <2>4 DEF Channel!Abandon
    <3>2. QED
      BY <3>1 DEF Channel!Next
  <2>5. QED
    BY <2>2, <2>3, <2>4
<1>2. CASE ~closed
  <2>1. closed' = TRUE
    BY <1>2 DEF CloseConn
  <2>2. Len(wire) + Committed <= nextId /\ Len(wire) <= nextId
    BY <1>2, LimitBounds
  <2>3. Len(wire) + Committed' \in Len(wire) .. nextId
    BY <1>0, <2>2
  <2>4. Channel!Close
    BY <1>2, <2>1, <2>3 DEF Channel!Close
  <2>5. QED
    BY <2>4 DEF Channel!Next
<1>3. QED
  BY <1>1, <1>2

\* writer.write's Add is the channel's Accept.
LEMMA AddMaps ==
  ASSUME NEW p, NEW sz, QueueAdd(p, sz), UNCHANGED <<wire, closed, wr, batch>>
  PROVE  [Channel!Next]_Channel!avars
<1>1. Committed' = Committed
  BY DEF Committed, PastCheck
<1>2. Channel!Accept
  BY <1>1 DEF QueueAdd, Channel!Accept
<1>3. QED
  BY <1>2 DEF Channel!Next

\* A websocket frame that reaches the peer is the channel's Deliver of the
\* payloads in msgs, before or after Close; a failed one is a Close.
LEMMA FlushMaps ==
  ASSUME TypeOK, OrderInv, WsFlush
  PROVE  [Channel!Next]_Channel!avars
<1>1. CASE connUp
  <2>1. PastCheck /\ Committed = Len(batch) /\ Committed' = 0
    BY <1>1 DEF WsFlush, PastCheck, Committed
  <2>2. wire' = wire \o Written /\ UNCHANGED <<nextId, closed>>
    BY <1>1 DEF WsFlush, Written
  <2>3. /\ \A i \in 1 .. Len(batch) : batch[i].id = Len(wire) + i
        /\ Len(wire) + Len(batch) <= nextId
    BY <2>1 DEF OrderInv, CommitNext
  <2>4. Written = [i \in 1 .. Len(batch) |-> Len(wire) + i]
    BY <2>3 DEF Written
  <2>5. CASE batch = <<>>
    <3>1. Written = <<>>
      BY <2>5 DEF Written
    <3>2. wire' = wire
      BY <2>2, <3>1, ConcatEmptySeq DEF TypeOK, DataTypeOK
    <3>3. Committed' = Committed
      BY <2>1, <2>5
    <3>4. QED
      BY <2>2, <3>2, <3>3, Stutter
  <2>6. CASE batch # <<>>
    <3>1. Len(wire') = Len(wire) + Len(batch)
      BY <2>2, <2>4 DEF TypeOK, DataTypeOK
    <3>2. Len(batch) \in 1 .. Limit - Len(wire)
      BY <2>1, <2>3, <2>6 DEF Limit, TypeOK, DataTypeOK
    <3>3. Limit' = Limit
      BY <2>1, <2>2, <3>1 DEF Limit
    <3>4. Channel!Deliver
      BY <2>2, <2>4, <3>2, <3>3 DEF Channel!Deliver, Limit
    <3>5. QED
      BY <3>4 DEF Channel!Next
  <2>7. QED
    BY <2>5, <2>6
<1>2. CASE ~connUp
  <2>1. Committed' = 0
    BY <1>2 DEF WsFlush, Committed, PastCheck
  <2>2. QED
    BY <1>2, <2>1, CloseMaps DEF WsFlush, Close
<1>3. QED
  BY <1>1, <1>2 DEF TypeOK, ControlTypeOK

\* A payload session.Send delivers is the channel's Deliver of one id,
\* before or after Close; a failed send is a Close.
LEMMA SendMaps ==
  ASSUME TypeOK, OrderInv, SockjsSend
  PROVE  [Channel!Next]_Channel!avars
<1>1. CASE batch = <<>>
  <2>1. Committed = 0 /\ Committed' = 0
    BY <1>1 DEF SockjsSend, Committed, PastCheck
  <2>2. QED
    BY <1>1, <2>1, Stutter DEF SockjsSend
<1>2. CASE batch # <<>> /\ connUp
  <2>1. /\ wire' = Append(wire, Head(batch).id) /\ batch' = Tail(batch)
        /\ wr' = wr /\ UNCHANGED <<nextId, closed>>
    BY <1>2 DEF SockjsSend
  <2>2. /\ \A i \in 1 .. Len(batch) : batch[i].id = Len(wire) + i
        /\ Len(wire) + Len(batch) <= nextId
        /\ PastCheck /\ Committed = Len(batch)
    BY <1>2 DEF SockjsSend, OrderInv, CommitNext, PastCheck, Committed
  <2>3. /\ 1 \in 1 .. Len(batch) /\ Head(batch) = batch[1]
        /\ Len(batch') = Len(batch) - 1
    BY <1>2, <2>1 DEF TypeOK, DataTypeOK
  <2>4. Head(batch).id = Len(wire) + 1
    BY <2>2, <2>3
  <2>5. wire' = wire \o [i \in 1 .. 1 |-> Len(wire) + i]
    <3>1. Append(wire, Len(wire) + 1) = wire \o <<Len(wire) + 1>>
      BY AppendIsConcat DEF TypeOK, DataTypeOK
    <3>2. <<Len(wire) + 1>> = [i \in 1 .. 1 |-> Len(wire) + i]
      OBVIOUS
    <3>3. QED
      BY <2>1, <2>4, <3>1, <3>2
  <2>6. /\ Len(wire') = Len(wire) + 1
        /\ Committed' = Len(batch) - 1
    BY <2>1, <2>2, <2>3 DEF TypeOK, DataTypeOK, Committed, PastCheck
  <2>7. 1 \in 1 .. Limit - Len(wire)
    BY <2>2, <2>3 DEF Limit, TypeOK, DataTypeOK
  <2>8. Limit' = Limit
    BY <2>1, <2>2, <2>6 DEF Limit, TypeOK, DataTypeOK
  <2>9. Channel!Deliver
    BY <2>1, <2>5, <2>7, <2>8 DEF Channel!Deliver, Limit
  <2>10. QED
    BY <2>9 DEF Channel!Next
<1>3. CASE batch # <<>> /\ ~connUp
  <2>1. Committed' = 0
    BY <1>3 DEF SockjsSend, Committed, PastCheck
  <2>2. QED
    BY <1>3, <2>1, CloseMaps DEF SockjsSend, Close
<1>4. QED
  BY <1>1, <1>2, <1>3 DEF TypeOK, ControlTypeOK

-----------------------------------------------------------------------------
\* Every step of the connection is a step of the channel or a stutter.
LEMMA RefinementStep ==
  ASSUME TypeOK, OrderInv, [Next]_vars
  PROVE  [Channel!Next]_Channel!avars
<1>0. ASSUME NEW d, Close(d), UNCHANGED <<nextId, wire, wr, batch>>
      PROVE  [Channel!Next]_Channel!avars
  <2>1. Committed' = Committed
    BY <1>0 DEF Committed, PastCheck
  <2>2. QED
    BY <1>0, <2>1, CloseMaps DEF Close
<1>1. CASE ReadBadFrame
  BY <1>1, <1>0 DEF ReadBadFrame
<1>2. CASE ReadFrame
  BY <1>2, AddMaps DEF ReadFrame
<1>3. CASE ReadCheckSize
  <2>1. CASE Slow
    BY <1>3, <2>1, <1>0 DEF ReadCheckSize
  <2>2. CASE ~Slow
    BY <1>3, <2>2, Stutter DEF ReadCheckSize, Committed, PastCheck
  <2>3. QED
    BY <2>1, <2>2
<1>4. CASE ReaderCloseClient
  BY <1>4, <1>0 DEF ReaderCloseClient
<1>5. ASSUME NEW s \in Senders, SendAdd(s) PROVE [Channel!Next]_Channel!avars
  BY <1>5, AddMaps DEF SendAdd
<1>6. CASE AsyncClose
  BY <1>6, <1>0 DEF AsyncClose
<1>7. CASE WsNextWriter
  <2>1. CASE werr
    <3>1. Committed' = 0
      BY <1>7, <2>1 DEF WsNextWriter, Committed, PastCheck
    <3>2. QED
      BY <1>7, <2>1, <3>1, CloseMaps DEF WsNextWriter, Close
  <2>2. CASE ~werr
    BY <1>7, <2>2, Stutter DEF WsNextWriter, Committed, PastCheck
  <2>3. QED
    BY <2>1, <2>2
<1>8. CASE WsFlush
  BY <1>8, FlushMaps
<1>9. CASE SockjsSend
  BY <1>9, SendMaps
<1>10. CASE PingWrite
  <2>1. CASE closed \/ connUp
    BY <1>10, <2>1, Stutter DEF PingWrite, Committed, PastCheck, TypeOK,
                                ControlTypeOK
  <2>2. CASE ~closed /\ ~connUp
    <3>1. Committed' = Committed
      BY <1>10 DEF PingWrite, Committed, PastCheck
    <3>2. QED
      BY <1>10, <2>2, <3>1, CloseMaps DEF PingWrite
  <2>3. QED
    BY <2>1, <2>2
<1>11. CASE WriteCheckClosed
  <2>1. CASE closed
    BY <1>11, <2>1, Stutter DEF WriteCheckClosed, Committed, PastCheck
  <2>2. CASE ~closed
    BY <1>11, <2>2, StutterOpen DEF WriteCheckClosed
  <2>3. QED
    BY <2>1, <2>2
<1>12. CASE WriterWait \/ WriterExit \/ WriterMerge
  BY <1>12, Stutter DEF WriterWait, WriterExit, WriterMerge, Committed,
                        PastCheck
<1>13. CASE ReadFail \/ ReaderCloseWriter \/ PingFire \/ PingRearm
            \/ NetFail \/ Teardown \/ UNCHANGED vars
  BY <1>13, Stutter DEF ReadFail, ReaderCloseWriter, PingFire, PingRearm,
                        NetFail, Teardown, vars, Committed, PastCheck
<1>14. ASSUME NEW s \in Senders, SendCheckSize(s)
       PROVE  [Channel!Next]_Channel!avars
  BY <1>14, Stutter DEF SendCheckSize, Committed, PastCheck
<1>15. QED
  BY <1>1, <1>2, <1>3, <1>4, <1>5, <1>6, <1>7, <1>8, <1>9, <1>10, <1>11,
     <1>12, <1>13, <1>14
  DEF Next, ReaderStep, WriterStep, PingStep

(* Theorem: the connection implements the FIFO channel, safety part: the   *)
(* peer receives the payloads runWriteRoutine takes from writer.messages   *)
(* in the order writer.write accepted them, several per websocket frame or *)
(* one per sockjs Send, none twice; after transport.Close only those a     *)
(* write had already taken past its closeCh check, and none accepted after *)
(* Close.                                                                  *)
THEOREM Refinement == Spec => Channel!Init /\ [][Channel!Next]_Channel!avars
<1>1. Init => Channel!Init
  BY DEF Init, Channel!Init
<1>2. QED
  BY <1>1, RefinementStep, TypeCorrect, OrderInvariant, PTL DEF Spec

-----------------------------------------------------------------------------
(* Close is final                                                          *)

\* On a closed transport every Close takes the "already closed" return,
\* and no other step touches closed or reason.
LEMMA ClosedKept ==
  ASSUME closed, [Next]_vars
  PROVE  closed' /\ reason' = reason
<1>1. ASSUME NEW d, CloseConn(d) PROVE closed' /\ reason' = reason
  BY <1>1 DEF CloseConn
<1>2. CASE ReadBadFrame \/ ReadCheckSize \/ ReaderCloseClient \/ AsyncClose
           \/ WsNextWriter \/ WsFlush \/ SockjsSend \/ PingWrite
  BY <1>1, <1>2 DEF ReadBadFrame, ReadCheckSize, ReaderCloseClient,
                    AsyncClose, WsNextWriter, WsFlush, SockjsSend, PingWrite,
                    Close
<1>3. CASE ReadFrame \/ ReadFail \/ ReaderCloseWriter \/ WriterWait
           \/ WriterExit \/ WriterMerge \/ WriteCheckClosed \/ PingFire
           \/ PingRearm \/ NetFail \/ Teardown \/ UNCHANGED vars
  BY <1>3 DEF ReadFrame, ReadFail, ReaderCloseWriter, WriterWait,
              WriterExit, WriterMerge, WriteCheckClosed, PingFire, PingRearm,
              NetFail, Teardown, vars
<1>4. ASSUME NEW s \in Senders, SendAdd(s) \/ SendCheckSize(s)
      PROVE  closed' /\ reason' = reason
  BY <1>4 DEF SendAdd, SendCheckSize
<1>5. QED
  BY <1>2, <1>3, <1>4 DEF Next, ReaderStep, WriterStep, PingStep

(* Theorem: transport.Close is final.  Whichever goroutine closes first,   *)
(* the transport stays closed and later Close calls keep its disconnect.   *)
THEOREM CloseFinal == Spec => CloseIsFinal
<1>1. [Next]_vars => [closed => closed' /\ reason' = reason]_vars
  BY ClosedKept
<1>2. QED
  BY <1>1, PTL DEF Spec, CloseIsFinal
=============================================================================
