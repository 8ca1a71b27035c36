--------------------------- MODULE ConnectionOrder ---------------------------
(***************************************************************************)
(* Proof of MessagesInOrder for every value of the constants.  While the   *)
(* transport is open OrderInv pins every id down; once it is closed the    *)
(* writer may still write what it took before Close, take payloads from   *)
(* the queue and drop them, and the queue may still accept new ones, so    *)
(* what survives is only their order: IdsOrdered.                          *)
(***************************************************************************)
EXTENDS ConnectionRefinement

\* The ids of msgs increase.
BatchSorted == \A i, j \in 1 .. Len(batch) : i < j => batch[i].id < batch[j].id

\* The ids of the queue increase.
QueueSorted == \A i, j \in 1 .. Len(queue) : i < j => queue[i].id < queue[j].id

\* The ids of msgs are below those of the queue.
BatchBelowQueue ==
  \A i \in 1 .. Len(batch), j \in 1 .. Len(queue) : batch[i].id < queue[j].id

\* Ids not yet received lie above the ones the peer received, and none is
\* above the last id the queue issued.
BatchBounds ==
  \A i \in 1 .. Len(batch) : Len(wire) < batch[i].id /\ batch[i].id <= nextId
QueueBounds ==
  \A j \in 1 .. Len(queue) : Len(wire) < queue[j].id /\ queue[j].id <= nextId

(* msgs and the queue hold increasing ids, those of msgs below those of    *)
(* the queue, all above the ones the peer received and none above the      *)
(* last id the queue issued.                                               *)
IdsOrdered ==
  BatchSorted /\ QueueSorted /\ BatchBelowQueue /\ BatchBounds /\ QueueBounds

-----------------------------------------------------------------------------
(* IdsOrdered is kept by every step                                        *)

\* The ids of a sequence of payloads are natural numbers.
LEMMA MsgIds ==
  ASSUME NEW q \in Seq(Msg)
  PROVE  \A j \in 1 .. Len(q) : q[j].id \in Nat
<1>1. \A j \in 1 .. Len(q) : q[j] \in Msg
  OBVIOUS
<1>2. QED
  BY <1>1 DEF Msg

\* A step that leaves the payload path alone.
LEMMA OrderedFrozen ==
  ASSUME IdsOrdered, UNCHANGED <<queue, batch, wire, nextId>>
  PROVE  IdsOrdered'
BY DEF IdsOrdered, BatchSorted, QueueSorted, BatchBelowQueue, BatchBounds,
       QueueBounds

\* The writer drops msgs (write on a closed transport, or a failed write).
LEMMA OrderedDrop ==
  ASSUME IdsOrdered, batch' = <<>>, UNCHANGED <<queue, wire, nextId>>
  PROVE  IdsOrdered'
BY DEF IdsOrdered, BatchSorted, QueueSorted, BatchBelowQueue, BatchBounds,
       QueueBounds

\* writer.write's Add: the new id is above every id on the path.
LEMMA OrderedAdd ==
  ASSUME TypeOK, OrderInv, IdsOrdered, NEW p, NEW sz \in MsgSizes,
         QueueAdd(p, sz), UNCHANGED <<batch, wire>>
  PROVE  IdsOrdered'
<1>1. /\ queue' = Append(queue, [id |-> nextId + 1, size |-> sz])
      /\ nextId' = nextId + 1
  BY DEF QueueAdd
<1>2. /\ Len(queue') = Len(queue) + 1
      /\ \A j \in 1 .. Len(queue) : queue'[j] = queue[j]
      /\ queue'[Len(queue) + 1].id = nextId + 1
  BY <1>1 DEF TypeOK, DataTypeOK
<1>3. Len(wire) <= nextId /\ nextId \in Nat
  BY DEF OrderInv, WirePrefix, TypeOK, DataTypeOK
<1>4. \A j \in 1 .. Len(queue') :
        j = Len(queue) + 1 \/ (j \in 1 .. Len(queue) /\ queue'[j] = queue[j])
  BY <1>2 DEF TypeOK, DataTypeOK
<1>0. queue \in Seq(Msg) /\ batch \in Seq(Msg)
  BY DEF TypeOK, DataTypeOK
<1>5. \A j \in 1 .. Len(queue) : queue[j].id <= nextId /\ queue[j].id \in Nat
  <2>1. QueueBounds
    BY DEF IdsOrdered
  <2>2. QED
    BY <1>0, <2>1, MsgIds DEF QueueBounds
<1>6. \A i \in 1 .. Len(batch) : batch[i].id <= nextId /\ batch[i].id \in Nat
  <2>1. BatchBounds
    BY DEF IdsOrdered
  <2>2. QED
    BY <1>0, <2>1, MsgIds DEF BatchBounds
<1>7. QueueSorted'
  <2> SUFFICES ASSUME NEW i \in 1 .. Len(queue'), NEW j \in 1 .. Len(queue'),
                      i < j
               PROVE  queue'[i].id < queue'[j].id
    BY DEF QueueSorted
  <2>1. i \in 1 .. Len(queue) /\ queue'[i] = queue[i]
    BY <1>2 DEF TypeOK, DataTypeOK
  <2>2. CASE j = Len(queue) + 1
    BY <1>2, <1>3, <1>5, <2>1, <2>2
  <2>3. CASE j # Len(queue) + 1
    <3>1. j \in 1 .. Len(queue) /\ queue'[j] = queue[j]
      BY <1>4, <2>3
    <3>2. QueueSorted
      BY DEF IdsOrdered
    <3>3. QED
      BY <2>1, <3>1, <3>2 DEF QueueSorted
  <2>4. QED
    BY <2>2, <2>3
<1>8. BatchBelowQueue'
  <2> SUFFICES ASSUME NEW i \in 1 .. Len(batch), NEW j \in 1 .. Len(queue')
               PROVE  batch[i].id < queue'[j].id
    BY DEF BatchBelowQueue
  <2>2. CASE j = Len(queue) + 1
    BY <1>2, <1>3, <1>6, <2>2
  <2>3. CASE j # Len(queue) + 1
    <3>1. j \in 1 .. Len(queue) /\ queue'[j] = queue[j]
      BY <1>4, <2>3
    <3>2. BatchBelowQueue
      BY DEF IdsOrdered
    <3>3. QED
      BY <3>1, <3>2 DEF BatchBelowQueue
  <2>4. QED
    BY <2>2, <2>3
<1>9. QueueBounds'
  <2> SUFFICES ASSUME NEW j \in 1 .. Len(queue')
               PROVE  Len(wire) < queue'[j].id /\ queue'[j].id <= nextId + 1
    BY <1>1 DEF QueueBounds
  <2>2. CASE j = Len(queue) + 1
    BY <1>2, <1>3, <2>2
  <2>3. CASE j # Len(queue) + 1
    <3>1. j \in 1 .. Len(queue) /\ queue'[j] = queue[j]
      BY <1>4, <2>3
    <3>2. QueueBounds
      BY DEF IdsOrdered
    <3>3. QED
      BY <1>3, <1>5, <3>1, <3>2 DEF QueueBounds
  <2>4. QED
    BY <2>2, <2>3
<1>10. BatchSorted' /\ BatchBounds'
  <2>1. BatchSorted /\ BatchBounds /\ batch' = batch /\ wire' = wire
    BY DEF IdsOrdered
  <2>2. BatchSorted'
    BY <2>1 DEF BatchSorted
  <2>3. BatchBounds'
    BY <1>1, <1>3, <1>6, <2>1 DEF BatchBounds
  <2>4. QED
    BY <2>2, <2>3
<1>11. QED
  BY <1>7, <1>8, <1>9, <1>10 DEF IdsOrdered

\* Taking the oldest payload off the queue leaves the rest increasing,
\* within bounds, and above the one taken.
LEMMA OrderedTail ==
  ASSUME TypeOK, QueueSorted, QueueBounds, queue # <<>>,
         queue' = Tail(queue), UNCHANGED <<wire, nextId>>
  PROVE  /\ QueueSorted' /\ QueueBounds'
         /\ \A j \in 1 .. Len(queue') : queue[1].id < queue'[j].id
         /\ 1 \in 1 .. Len(queue)
<1>1. /\ Len(queue') = Len(queue) - 1
      /\ \A j \in 1 .. Len(queue') : queue'[j] = queue[j + 1]
      /\ \A j \in 1 .. Len(queue') : j + 1 \in 1 .. Len(queue)
      /\ 1 \in 1 .. Len(queue)
  BY DEF TypeOK, DataTypeOK
<1>2. QueueSorted'
  <2> SUFFICES ASSUME NEW i \in 1 .. Len(queue'), NEW j \in 1 .. Len(queue'),
                      i < j
               PROVE  queue'[i].id < queue'[j].id
    BY DEF QueueSorted
  <2>1. i + 1 \in 1 .. Len(queue) /\ j + 1 \in 1 .. Len(queue) /\ i + 1 < j + 1
    BY <1>1
  <2>2. QED
    BY <1>1, <2>1 DEF QueueSorted
<1>3. QueueBounds'
  BY <1>1 DEF QueueBounds
<1>4. \A j \in 1 .. Len(queue') : queue[1].id < queue'[j].id
  <2> SUFFICES ASSUME NEW j \in 1 .. Len(queue')
               PROVE  queue[1].id < queue'[j].id
    OBVIOUS
  <2>1. j + 1 \in 1 .. Len(queue) /\ 1 < j + 1
    BY <1>1
  <2>2. QED
    BY <1>1, <2>1 DEF QueueSorted
<1>5. QED
  BY <1>1, <1>2, <1>3, <1>4

\* messages.Wait moves the oldest queued payload into the empty msgs.
LEMMA OrderedWait ==
  ASSUME TypeOK, OrderInv, IdsOrdered, WriterWait
  PROVE  IdsOrdered'
<1>1. /\ queue # <<>> /\ batch = <<>>
      /\ batch' = <<Head(queue)>> /\ queue' = Tail(queue)
      /\ UNCHANGED <<wire, nextId>>
  BY DEF WriterWait, OrderInv, WaitEmpty
<1>2. /\ QueueSorted' /\ QueueBounds'
      /\ \A j \in 1 .. Len(queue') : queue[1].id < queue'[j].id
      /\ 1 \in 1 .. Len(queue)
  BY <1>1, OrderedTail DEF IdsOrdered
<1>3. Len(batch') = 1 /\ batch'[1] = queue[1]
  BY <1>1
<1>4. BatchSorted'
  BY <1>3 DEF BatchSorted
<1>5. BatchBelowQueue'
  BY <1>2, <1>3 DEF BatchBelowQueue
<1>6. BatchBounds'
  BY <1>1, <1>2, <1>3 DEF IdsOrdered, QueueBounds, BatchBounds
<1>7. QED
  BY <1>2, <1>4, <1>5, <1>6 DEF IdsOrdered

\* One turn of the merge loop moves the oldest queued payload to the end
\* of msgs: it is above every id of msgs and below every id left queued.
LEMMA OrderedMerge ==
  ASSUME TypeOK, MergeBounded, IdsOrdered, WriterMerge
  PROVE  IdsOrdered'
<1>1. CASE mcount > 0 /\ Len(batch) < maxMessagesInFrame
  <2>1. /\ queue # <<>>
        /\ batch' = Append(batch, Head(queue)) /\ queue' = Tail(queue)
        /\ UNCHANGED <<wire, nextId>>
    BY <1>1 DEF WriterMerge, MergeBounded, TypeOK, DataTypeOK
  <2>2. /\ QueueSorted' /\ QueueBounds'
        /\ \A j \in 1 .. Len(queue') : queue[1].id < queue'[j].id
        /\ 1 \in 1 .. Len(queue)
    BY <2>1, OrderedTail DEF IdsOrdered
  <2>3. /\ Len(batch') = Len(batch) + 1
        /\ \A i \in 1 .. Len(batch) : batch'[i] = batch[i]
        /\ batch'[Len(batch) + 1] = queue[1]
        /\ \A i \in 1 .. Len(batch') :
             i = Len(batch) + 1 \/ i \in 1 .. Len(batch)
    BY <2>1 DEF TypeOK, DataTypeOK
  <2>4. /\ \A j \in 1 .. Len(queue') : queue'[j] = queue[j + 1]
        /\ \A j \in 1 .. Len(queue') : j + 1 \in 1 .. Len(queue)
    BY <2>1 DEF TypeOK, DataTypeOK
  <2>5. BatchSorted'
    <3> SUFFICES ASSUME NEW i \in 1 .. Len(batch'), NEW j \in 1 .. Len(batch'),
                        i < j
                 PROVE  batch'[i].id < batch'[j].id
      BY DEF BatchSorted
    <3>1. i \in 1 .. Len(batch)
      BY <2>3
    <3>2. CASE j = Len(batch) + 1
      BY <2>2, <2>3, <3>1, <3>2 DEF IdsOrdered, BatchBelowQueue
    <3>3. CASE j # Len(batch) + 1
      BY <2>3, <3>1, <3>3 DEF IdsOrdered, BatchSorted
    <3>4. QED
      BY <3>2, <3>3
  <2>6. BatchBelowQueue'
    <3> SUFFICES ASSUME NEW i \in 1 .. Len(batch'), NEW j \in 1 .. Len(queue')
                 PROVE  batch'[i].id < queue'[j].id
      BY DEF BatchBelowQueue
    <3>1. CASE i = Len(batch) + 1
      BY <2>2, <2>3, <3>1
    <3>2. CASE i # Len(batch) + 1
      BY <2>3, <2>4, <3>2 DEF IdsOrdered, BatchBelowQueue
    <3>3. QED
      BY <3>1, <3>2
  <2>7. BatchBounds'
    <3> SUFFICES ASSUME NEW i \in 1 .. Len(batch')
                 PROVE  Len(wire') < batch'[i].id /\ batch'[i].id <= nextId'
      BY DEF BatchBounds
    <3>1. CASE i = Len(batch) + 1
      BY <2>1, <2>2, <2>3, <3>1 DEF IdsOrdered, QueueBounds
    <3>2. CASE i # Len(batch) + 1
      BY <2>1, <2>3, <3>2 DEF IdsOrdered, BatchBounds
    <3>3. QED
      BY <3>1, <3>2
  <2>8. QED
    BY <2>2, <2>5, <2>6, <2>7 DEF IdsOrdered
<1>2. CASE ~(mcount > 0 /\ Len(batch) < maxMessagesInFrame)
  BY <1>2, OrderedFrozen DEF WriterMerge
<1>3. QED
  BY <1>1, <1>2

\* websocket: the frame carries msgs to the peer, which leaves the queued
\* ids above what the peer received; a failed write drops msgs.
LEMMA OrderedFlush ==
  ASSUME TypeOK, OrderInv, IdsOrdered, WsFlush
  PROVE  IdsOrdered'
<1>1. CASE connUp
  <2>2. /\ wire' = wire \o Written /\ batch' = <<>>
        /\ queue' = queue /\ nextId' = nextId
    BY <1>1 DEF WsFlush, Written
  \* The frame written, even after Close, holds the ids right after the
  \* wire (CommitNext), and the queued ones lie above it.
  <2>3. \A j \in 1 .. Len(queue) : Len(wire) + Len(batch) < queue[j].id
    <3> SUFFICES ASSUME NEW j \in 1 .. Len(queue)
                 PROVE  Len(wire) + Len(batch) < queue[j].id
      OBVIOUS
    <3>1. CASE batch = <<>>
      BY <3>1 DEF IdsOrdered, QueueBounds
    <3>2. CASE batch # <<>>
      <4>1. Len(batch) \in 1 .. Len(batch)
        BY <3>2 DEF TypeOK, DataTypeOK
      <4>2. batch[Len(batch)].id = Len(wire) + Len(batch)
        BY <4>1 DEF WsFlush, OrderInv, CommitNext, PastCheck
      <4>3. QED
        BY <4>1, <4>2 DEF IdsOrdered, BatchBelowQueue
    <3>3. QED
      BY <3>1, <3>2
  <2>4. Len(wire') = Len(wire) + Len(batch)
    <3>1. Written \in Seq(Nat) /\ Len(Written) = Len(batch)
      BY IdsType DEF Written, TypeOK, DataTypeOK
    <3>2. wire \in Seq(Nat)
      BY DEF TypeOK, DataTypeOK
    <3>3. Len(wire \o Written) = Len(wire) + Len(Written)
      BY <3>1, <3>2, ConcatProperties
    <3>4. QED
      BY <2>2, <3>1, <3>3
  <2>5. QueueBounds'
    <3>1. QueueBounds
      BY DEF IdsOrdered
    <3>2. Len(wire) \in Nat /\ Len(batch) \in Nat
      BY DEF TypeOK, DataTypeOK
    <3>3. QED
      BY <2>2, <2>3, <2>4, <3>1, <3>2 DEF QueueBounds
  <2>6. QueueSorted' /\ BatchSorted' /\ BatchBelowQueue' /\ BatchBounds'
    BY <2>2 DEF IdsOrdered, QueueSorted, BatchSorted, BatchBelowQueue,
                BatchBounds
  <2>7. QED
    BY <2>5, <2>6 DEF IdsOrdered
<1>2. CASE ~connUp
  BY <1>2, OrderedDrop DEF WsFlush
<1>3. QED
  BY <1>1, <1>2

\* sockjs: session.Send carries the oldest payload of msgs to the peer; the
\* ids left are above it.  A failed Send drops msgs.
LEMMA OrderedSend ==
  ASSUME TypeOK, IdsOrdered, SockjsSend
  PROVE  IdsOrdered'
<1>1. CASE batch = <<>>
  BY <1>1, OrderedFrozen DEF SockjsSend
<1>2. CASE batch # <<>> /\ connUp
  <2>1. /\ wire' = Append(wire, Head(batch).id) /\ batch' = Tail(batch)
        /\ UNCHANGED <<queue, nextId>>
    BY <1>2 DEF SockjsSend
  <2>2. /\ Len(wire') = Len(wire) + 1
        /\ Len(batch') = Len(batch) - 1
        /\ \A i \in 1 .. Len(batch') : batch'[i] = batch[i + 1]
        /\ \A i \in 1 .. Len(batch') : i + 1 \in 1 .. Len(batch) /\ 1 < i + 1
        /\ 1 \in 1 .. Len(batch)
    BY <1>2, <2>1 DEF TypeOK, DataTypeOK
  <2>3. /\ \A i \in 1 .. Len(batch) : batch[i].id \in Nat
        /\ \A j \in 1 .. Len(queue) : queue[j].id \in Nat
        /\ Len(wire) \in Nat
    BY MsgIds DEF TypeOK, DataTypeOK
  <2>4. BatchSorted'
    <3> SUFFICES ASSUME NEW i \in 1 .. Len(batch'), NEW j \in 1 .. Len(batch'),
                        i < j
                 PROVE  batch'[i].id < batch'[j].id
      BY DEF BatchSorted
    <3>1. /\ i + 1 \in 1 .. Len(batch) /\ j + 1 \in 1 .. Len(batch)
          /\ i + 1 < j + 1
          /\ batch'[i] = batch[i + 1] /\ batch'[j] = batch[j + 1]
      BY <2>2
    <3>2. QED
      BY <3>1 DEF IdsOrdered, BatchSorted
  <2>5. BatchBounds'
    <3> SUFFICES ASSUME NEW i \in 1 .. Len(batch')
                 PROVE  Len(wire') < batch'[i].id /\ batch'[i].id <= nextId'
      BY DEF BatchBounds
    <3>1. batch[1].id < batch[i + 1].id
      BY <2>2 DEF IdsOrdered, BatchSorted
    <3>2. Len(wire) < batch[1].id /\ batch[i + 1].id <= nextId
      BY <2>2 DEF IdsOrdered, BatchBounds
    <3>3. QED
      BY <2>1, <2>2, <2>3, <3>1, <3>2
  <2>6. BatchBelowQueue'
    BY <2>1, <2>2 DEF IdsOrdered, BatchBelowQueue
  <2>7. QueueBounds'
    <3> SUFFICES ASSUME NEW j \in 1 .. Len(queue')
                 PROVE  Len(wire') < queue'[j].id /\ queue'[j].id <= nextId'
      BY DEF QueueBounds
    <3>1. batch[1].id < queue[j].id /\ Len(wire) < batch[1].id
      BY <2>1, <2>2 DEF IdsOrdered, BatchBelowQueue, BatchBounds
    <3>2. queue[j].id <= nextId
      BY <2>1 DEF IdsOrdered, QueueBounds
    <3>3. QED
      BY <2>1, <2>2, <2>3, <3>1, <3>2
  <2>8. QueueSorted'
    BY <2>1 DEF IdsOrdered, QueueSorted
  <2>9. QED
    BY <2>4, <2>5, <2>6, <2>7, <2>8 DEF IdsOrdered
<1>3. CASE batch # <<>> /\ ~connUp
  BY <1>3, OrderedDrop DEF SockjsSend
<1>4. QED
  BY <1>1, <1>2, <1>3

\* Every step of the connection keeps the ids in order.
LEMMA OrderedStep ==
  ASSUME TypeOK, DataInv, OrderInv, IdsOrdered, [Next]_vars
  PROVE  IdsOrdered'
<1>1. CASE ReadFrame
  BY <1>1, OrderedAdd DEF ReadFrame
<1>2. ASSUME NEW s \in Senders, SendAdd(s) PROVE IdsOrdered'
  BY <1>2, OrderedAdd DEF SendAdd
<1>3. CASE WriterWait
  BY <1>3, OrderedWait
<1>4. CASE WriterMerge
  BY <1>4, OrderedMerge DEF DataInv
<1>5. CASE WriteCheckClosed
  <2>1. CASE closed
    BY <1>5, <2>1, OrderedDrop DEF WriteCheckClosed
  <2>2. CASE ~closed
    BY <1>5, <2>2, OrderedFrozen DEF WriteCheckClosed
  <2>3. QED
    BY <2>1, <2>2
<1>6. CASE WsFlush
  BY <1>6, OrderedFlush
<1>7. CASE SockjsSend
  BY <1>7, OrderedSend
<1>8. CASE WsNextWriter
  BY <1>8, OrderedFrozen DEF WsNextWriter
<1>9. CASE ReadBadFrame \/ ReadCheckSize \/ ReadFail \/ ReaderCloseClient
           \/ ReaderCloseWriter \/ AsyncClose \/ WriterExit \/ PingFire
           \/ PingWrite \/ PingRearm \/ NetFail \/ Teardown \/ UNCHANGED vars
  BY <1>9, OrderedFrozen DEF ReadBadFrame, ReadCheckSize, ReadFail,
                             ReaderCloseClient, ReaderCloseWriter, AsyncClose,
                             WriterExit, PingFire, PingWrite, PingRearm,
                             NetFail, Teardown, vars
<1>10. ASSUME NEW s \in Senders, SendCheckSize(s) PROVE IdsOrdered'
  BY <1>10, OrderedFrozen DEF SendCheckSize
<1>11. QED
  BY <1>1, <1>2, <1>3, <1>4, <1>5, <1>6, <1>7, <1>8, <1>9, <1>10
  DEF Next, ReaderStep, WriterStep, PingStep

LEMMA OrderedInvariant == Spec => []IdsOrdered
<1>1. Init => IdsOrdered
  BY DEF Init, IdsOrdered, BatchSorted, QueueSorted, BatchBelowQueue,
         BatchBounds, QueueBounds
<1>2. QED
  BY <1>1, OrderedStep, TypeCorrect, DataInvariant, OrderInvariant, PTL
  DEF Spec

-----------------------------------------------------------------------------
(* From the invariant to MessagesInOrder                                   *)

\* The id found at each position of the path to the peer.
PathId(k) ==
  IF k <= Len(wire) THEN k
  ELSE IF k <= Len(wire) + Len(batch) THEN batch[k - Len(wire)].id
  ELSE queue[k - Len(wire) - Len(batch)].id

\* InTransit is the wire, then the ids of msgs, then those of the queue.
LEMMA PathShape ==
  ASSUME TypeOK, OrderInv
  PROVE  /\ InTransit \in Seq(Nat)
         /\ Len(InTransit) = Len(wire) + Len(batch) + Len(queue)
         /\ \A k \in 1 .. Len(InTransit) : InTransit[k] = PathId(k)
<1>1. /\ wire \in Seq(Nat) /\ BatchIds \in Seq(Nat) /\ QueueIds \in Seq(Nat)
      /\ Len(BatchIds) = Len(batch) /\ Len(QueueIds) = Len(queue)
  BY IdsType DEF TypeOK, DataTypeOK, BatchIds, QueueIds
<1>2. /\ wire \o BatchIds \in Seq(Nat)
      /\ Len(wire \o BatchIds) = Len(wire) + Len(BatchIds)
      /\ \A k \in 1 .. Len(wire) + Len(BatchIds) :
           (wire \o BatchIds)[k] = IF k <= Len(wire) THEN wire[k] ELSE BatchIds[k - Len(wire)]
  BY <1>1, ConcatProperties, Zenon
<1>3. /\ InTransit \in Seq(Nat)
      /\ Len(InTransit) = Len(wire \o BatchIds) + Len(QueueIds)
      /\ \A k \in 1 .. Len(wire \o BatchIds) + Len(QueueIds) :
           InTransit[k] = IF k <= Len(wire \o BatchIds) THEN (wire \o BatchIds)[k]
                          ELSE QueueIds[k - Len(wire \o BatchIds)]
  <2>1. InTransit = (wire \o BatchIds) \o QueueIds
    BY DEF InTransit
  <2>2. PICK w \in Seq(Nat) : w = wire \o BatchIds
    BY <1>2
  <2>3. /\ w \o QueueIds \in Seq(Nat)
        /\ Len(w \o QueueIds) = Len(w) + Len(QueueIds)
        /\ \A k \in 1 .. Len(w) + Len(QueueIds) :
             (w \o QueueIds)[k] = IF k <= Len(w) THEN w[k] ELSE QueueIds[k - Len(w)]
    BY <1>1, ConcatProperties
  <2>4. QED
    BY <2>1, <2>2, <2>3
<1>4. \A k \in 1 .. Len(wire) : wire[k] = k
  BY DEF OrderInv, WirePrefix
<1>5. Len(wire) \in Nat /\ Len(batch) \in Nat /\ Len(queue) \in Nat
  BY DEF TypeOK, DataTypeOK
<1>6. Len(InTransit) = Len(wire) + Len(batch) + Len(queue)
  BY <1>1, <1>2, <1>3
<1>7. ASSUME NEW k \in 1 .. Len(InTransit) PROVE InTransit[k] = PathId(k)
  <2>1. k \in 1 .. Len(wire \o BatchIds) + Len(QueueIds)
    BY <1>1, <1>2, <1>6
  <2>2. CASE k <= Len(wire)
    <3>1. InTransit[k] = wire[k]
      BY <1>1, <1>2, <1>3, <1>5, <2>1, <2>2
    <3>2. QED
      BY <1>4, <2>2, <3>1 DEF PathId
  <2>3. CASE Len(wire) < k /\ k <= Len(wire) + Len(batch)
    <3>1. k - Len(wire) \in 1 .. Len(batch)
      BY <1>5, <2>3
    <3>2. InTransit[k] = BatchIds[k - Len(wire)]
      BY <1>1, <1>2, <1>3, <1>5, <2>1, <2>3
    <3>3. QED
      BY <2>3, <3>1, <3>2 DEF PathId, BatchIds
  <2>4. CASE Len(wire) + Len(batch) < k
    <3>1. k - Len(wire) - Len(batch) \in 1 .. Len(queue)
      BY <1>5, <1>6, <2>4
    <3>2. InTransit[k] = QueueIds[k - Len(wire) - Len(batch)]
      BY <1>1, <1>2, <1>3, <1>5, <2>1, <2>4
    <3>3. QED
      BY <1>5, <2>4, <3>1, <3>2 DEF PathId, QueueIds
  <2>5. QED
    BY <1>5, <2>2, <2>3, <2>4
<1>8. QED
  BY <1>3, <1>6, <1>7

\* Positions further along the path hold larger ids.
LEMMA PathIncreasing ==
  ASSUME TypeOK, IdsOrdered,
         NEW i \in 1 .. Len(wire) + Len(batch) + Len(queue),
         NEW j \in 1 .. Len(wire) + Len(batch) + Len(queue), i < j
  PROVE  PathId(i) < PathId(j)
<1> DEFINE lw == Len(wire)  lb == Len(batch)
<1>1. lw \in Nat /\ lb \in Nat /\ Len(queue) \in Nat
  BY DEF TypeOK, DataTypeOK
<1>2. /\ \A k \in 1 .. lb : batch[k].id \in Nat
      /\ \A k \in 1 .. Len(queue) : queue[k].id \in Nat
  BY MsgIds DEF TypeOK, DataTypeOK
<1>3. CASE j <= lw
  BY <1>1, <1>3 DEF PathId
<1>4. CASE lw < j /\ j <= lw + lb
  <2>1. PathId(j) = batch[j - lw].id /\ j - lw \in 1 .. lb
    BY <1>1, <1>4 DEF PathId
  <2>2. CASE i <= lw
    BY <1>1, <1>2, <2>1, <2>2 DEF PathId, IdsOrdered, BatchBounds
  <2>3. CASE lw < i
    <3>1. PathId(i) = batch[i - lw].id /\ i - lw \in 1 .. lb /\ i - lw < j - lw
      BY <1>1, <1>4, <2>3 DEF PathId
    <3>2. QED
      BY <2>1, <3>1 DEF IdsOrdered, BatchSorted
  <2>4. QED
    BY <1>1, <2>2, <2>3
<1>5. CASE lw + lb < j
  <2>1. PathId(j) = queue[j - lw - lb].id /\ j - lw - lb \in 1 .. Len(queue)
    BY <1>1, <1>5 DEF PathId
  <2>2. CASE i <= lw
    BY <1>1, <1>2, <2>1, <2>2 DEF PathId, IdsOrdered, QueueBounds
  <2>3. CASE lw < i /\ i <= lw + lb
    <3>1. PathId(i) = batch[i - lw].id /\ i - lw \in 1 .. lb
      BY <1>1, <2>3 DEF PathId
    <3>2. QED
      BY <2>1, <3>1 DEF IdsOrdered, BatchBelowQueue
  <2>4. CASE lw + lb < i
    <3>1. /\ PathId(i) = queue[i - lw - lb].id
          /\ i - lw - lb \in 1 .. Len(queue)
          /\ i - lw - lb < j - lw - lb
      BY <1>1, <2>4, <1>5 DEF PathId
    <3>2. QED
      BY <2>1, <3>1 DEF IdsOrdered, QueueSorted
  <2>5. QED
    BY <1>1, <2>2, <2>3, <2>4
<1>6. QED
  BY <1>1, <1>3, <1>4, <1>5

\* While the transport is open each position holds its own number.
LEMMA PathOpen ==
  ASSUME TypeOK, OrderInv, ~closed,
         NEW k \in 1 .. Len(wire) + Len(batch) + Len(queue)
  PROVE  PathId(k) = k
<1>1. Len(wire) \in Nat /\ Len(batch) \in Nat /\ Len(queue) \in Nat
  BY DEF TypeOK, DataTypeOK
<1>2. /\ \A i \in 1 .. Len(batch) : batch[i].id = Len(wire) + i
      /\ \A i \in 1 .. Len(queue) : queue[i].id = Len(wire) + Len(batch) + i
  BY DEF OrderInv, InFlight
<1>3. CASE k <= Len(wire)
  BY <1>3 DEF PathId
<1>4. CASE Len(wire) < k /\ k <= Len(wire) + Len(batch)
  <2>1. k - Len(wire) \in 1 .. Len(batch)
    BY <1>1, <1>4
  <2>2. PathId(k) = batch[k - Len(wire)].id
    BY <1>4 DEF PathId
  <2>3. QED
    BY <1>1, <1>2, <2>1, <2>2
<1>5. CASE Len(wire) + Len(batch) < k
  <2>1. k - Len(wire) - Len(batch) \in 1 .. Len(queue)
    BY <1>1, <1>5
  <2>2. PathId(k) = queue[k - Len(wire) - Len(batch)].id
    BY <1>1, <1>5 DEF PathId
  <2>3. QED
    BY <1>1, <1>2, <2>1, <2>2
<1>6. QED
  BY <1>1, <1>3, <1>4, <1>5

\* The invariant gives MessagesInOrder.
LEMMA InOrder ==
  ASSUME TypeOK, OrderInv, IdsOrdered
  PROVE  MessagesInOrder
<1>1. /\ InTransit \in Seq(Nat)
      /\ Len(InTransit) = Len(wire) + Len(batch) + Len(queue)
      /\ \A k \in 1 .. Len(InTransit) : InTransit[k] = PathId(k)
  BY PathShape
<1>2. DOMAIN InTransit = 1 .. Len(InTransit)
  BY <1>1
<1>3. \A i, j \in DOMAIN InTransit : i < j => InTransit[i] < InTransit[j]
  BY <1>1, <1>2, PathIncreasing
<1>4. ASSUME ~closed PROVE InTransit = [i \in 1 .. nextId |-> i]
  <2>1. Len(InTransit) = nextId
    BY <1>1, <1>4 DEF OrderInv, InFlight
  <2>2. \A k \in 1 .. nextId : InTransit[k] = k
    BY <1>1, <1>4, <2>1, PathOpen
  <2>3. QED
    BY <1>1, <1>2, <2>1, <2>2
<1>5. QED
  BY <1>3, <1>4 DEF MessagesInOrder

(* handleClientData's replies and Send's publications reach the peer in    *)
(* the order the queue accepted them, none twice, and while the transport  *)
(* is open none is lost: proved for every value of the constants.          *)
THEOREM MessagesInOrderSafe == Spec => []MessagesInOrder
BY TypeCorrect, OrderInvariant, OrderedInvariant, InOrder, PTL

=============================================================================
