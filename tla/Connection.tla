----------------------------- MODULE Connection -----------------------------
(***************************************************************************)
(* One client connection of the server, as handlers.go drives it: the      *)
(* transport (websocketTransport or sockjsTransport), its per-connection   *)
(* writer (a queue drained by runWriteRoutine), the reader goroutine that  *)
(* runs handleClientData on every frame the client sends, the hub's        *)
(* broadcast goroutines that call transport.Send, the goroutines Send      *)
(* spawns to close a slow connection, and the websocket ping timer.        *)
(*                                                                         *)
(* Payloads are abstracted to an id (the order in which the queue          *)
(* accepted them) and a byte size; a command frame is abstracted to the    *)
(* outcome handleClientData reaches on it.                                 *)
(***************************************************************************)
EXTENDS Integers, Sequences, FiniteSets

CONSTANTS
  Transport,     \* "websocket" or "sockjs"
  PingEnabled,   \* websocketTransportOptions.pingInterval > 0
  MaxQueueSize,  \* writerConfig.MaxQueueSize (bytes)
  MsgSizes,      \* byte sizes a payload may have
  NumSenders,    \* goroutines that may call transport.Send concurrently
  MaxMsgs,       \* bound: payloads the queue accepts in one behaviour
  MaxPings       \* bound: ping frames written in one behaviour

ASSUME ConnAssumption ==
  /\ Transport \in {"websocket", "sockjs"}
  /\ PingEnabled \in BOOLEAN
  /\ MaxQueueSize \in Nat
  /\ MsgSizes \subseteq Nat \ {0} /\ MsgSizes # {}
  /\ NumSenders \in Nat
  /\ MaxMsgs \in Nat
  /\ MaxPings \in Nat

\* The constant maxMessagesInFrame of runWriteRoutine.
maxMessagesInFrame == 4

\* Goroutines that write into the queue: 0 is the reader (handleClientData),
\* 1..NumSenders are broadcast goroutines calling transport.Send.
Producers == 0 .. NumSenders
Reader == 0
Senders == 1 .. NumSenders

\* Disconnect values passed to transport.Close; "nil" is Close(nil).
Disconnects == {"nil", "bad_request", "handler", "internal", "slow",
                "write_error", "server_error"}

Msg == [id : Nat, size : MsgSizes]

VARIABLES
  queue,    \* writer.messages: pending payloads, oldest first
  qsize,    \* writer.messages.Size(): bytes held by the queue
  qclosed,  \* writer.closed / writer.messages.Closed()
  nextId,   \* number of payloads the queue has accepted so far
  wire,     \* ids of the payloads the peer has received, in order
  closed,   \* transport.closed (and closeCh closed)
  reason,   \* the disconnect the transport was closed with
  tearing,  \* the first Close has left the lock, the socket is not closed yet
  connUp,   \* the underlying connection still carries data both ways
  werr,     \* gorilla's sticky write error (websocket only)
  ping,     \* websocket ping timer: "off", "armed", "firing", "rearm"
  pings,    \* ping frames written by the timer
  wr,       \* program counter of runWriteRoutine
  batch,    \* msgs: payloads taken from the queue, not yet written
  mcount,   \* messageCount of runWriteRoutine's merge loop
  rd,       \* program counter of the reader goroutine
  pending,  \* pending[p] > 0: p added pending[p] bytes, Size not checked yet
  closers   \* goroutines started by Send as "go t.Close(disconnect)"

vars == <<queue, qsize, qclosed, nextId, wire, closed, reason, tearing, connUp,
          werr,
          ping, pings, wr, batch, mcount, rd, pending, closers>>

WriterPCs == {"wait", "merge", "write", "nextWriter", "flush", "send",
              "done", "panic"}
ReaderPCs == {"read", "check", "closeClient", "closeWriter", "done"}

\* The types of the payload-carrying variables and counters ...
DataTypeOK ==
  /\ queue \in Seq(Msg)
  /\ qsize \in Int
  /\ nextId \in Nat
  /\ wire \in Seq(Nat)
  /\ pings \in Nat
  /\ batch \in Seq(Msg)
  /\ mcount \in Nat
  /\ pending \in [Producers -> Nat]
  /\ closers \in Nat

\* ... and of the flags and program counters.
ControlTypeOK ==
  /\ qclosed \in BOOLEAN
  /\ closed \in BOOLEAN
  /\ tearing \in BOOLEAN
  /\ reason \in Disconnects \cup {"none", "normal"}
  /\ connUp \in BOOLEAN
  /\ werr \in BOOLEAN
  /\ ping \in {"off", "armed", "firing", "rearm"}
  /\ wr \in WriterPCs
  /\ rd \in ReaderPCs

\* Every variable has the type its Go counterpart has.
TypeOK == DataTypeOK /\ ControlTypeOK

-----------------------------------------------------------------------------
(* newWebsocketTransport / newSockjsTransport and newWriter: an open       *)
(* connection, an empty queue, the write routine waiting, and the ping     *)
(* timer armed by addPing when pings are configured.                       *)
Init ==
  /\ queue = <<>>
  /\ qsize = 0
  /\ qclosed = FALSE
  /\ nextId = 0
  /\ wire = <<>>
  /\ closed = FALSE
  /\ reason = "none"
  /\ tearing = FALSE
  /\ connUp = TRUE
  /\ werr = FALSE
  /\ ping = IF Transport = "websocket" /\ PingEnabled THEN "armed" ELSE "off"
  /\ pings = 0
  /\ wr = "wait"
  /\ batch = <<>>
  /\ mcount = 0
  /\ rd = "read"
  /\ pending = [p \in Producers |-> 0]
  /\ closers = 0

-----------------------------------------------------------------------------
\* Mutant: Close without the "already closed" check.
CloseConnNoCheck(d) ==
  /\ closed' = TRUE
  /\ reason' = IF Transport = "sockjs" /\ d = "nil" THEN "normal" ELSE d
  /\ tearing' = TRUE
  /\ UNCHANGED <<connUp, werr>>

(* transport.Close(disconnect), the part under t.mu, without its effect   *)
(* on the ping timer.  A second call is a no-op.  The first marks the      *)
(* transport closed and closes closeCh; the socket itself is closed later  *)
(* (Teardown): websocket unlocks first, and sockjs write does not take the *)
(* lock, so a write already past its closeCh check runs on meanwhile.      *)
(* sockjs replaces a nil disconnect by DisconnectNormal.                   *)
CloseConn(d) ==
  /\ IF closed
     THEN UNCHANGED <<closed, reason, tearing>>
     ELSE /\ closed' = TRUE
          /\ reason' = IF Transport = "sockjs" /\ d = "nil" THEN "normal" ELSE d
          /\ tearing' = TRUE
  /\ UNCHANGED <<connUp, werr>>

\* websocketTransport.Close stops the ping timer; a timer that has already
\* fired is not stopped by Stop.
StopPing ==
  /\ ping' = IF ~closed /\ ping = "armed" THEN "off" ELSE ping
  /\ UNCHANGED pings

Close(d) == CloseConn(d) /\ StopPing

\* writer.write, first half: messages.Add of a payload of size sz.
QueueAdd(p, sz) ==
  /\ ~qclosed
  /\ nextId < MaxMsgs
  /\ queue' = Append(queue, [id |-> nextId + 1, size |-> sz])
  /\ qsize' = qsize + sz
  /\ nextId' = nextId + 1
  /\ pending' = [pending EXCEPT ![p] = sz]

\* writer.write, second half: the disconnect "slow" when Size() > MaxQueueSize.
Slow == qsize > MaxQueueSize

\* A panic in the write routine ends the whole process: nothing runs after.
Alive == wr # "panic"

(* The rest of the first transport.Close, after the lock: websocket writes *)
(* a close frame when the disconnect is not nil (gorilla then refuses      *)
(* every later write with ErrCloseSent, its sticky write error) and closes *)
(* the connection; sockjs closes the session.  Either way the connection   *)
(* carries no more data.                                                   *)
Teardown ==
  /\ Alive
  /\ tearing
  /\ tearing' = FALSE
  /\ connUp' = FALSE
  /\ werr' = (werr \/ (Transport = "websocket" /\ reason # "nil"))
  /\ UNCHANGED <<queue, qsize, qclosed, nextId, wire, closed, reason, ping,
                 pings, wr, batch, mcount, rd, pending, closers>>

-----------------------------------------------------------------------------
(* The reader goroutine of WebsocketHandler.ServeHTTP / sockJSHandler.     *)

\* A frame that handleClientData rejects: empty data or undecodable
\* command (transport.Close), zero command ID (c.Close, which closes the
\* transport), a disconnect returned by c.Handle, or an encoding error.
\* handleClientData returns false and the loop ends.
ReadBadFrame ==
  /\ Alive
  /\ rd = "read"
  /\ connUp
  /\ \E d \in {"bad_request", "handler", "internal"} : Close(d)
  /\ rd' = "closeClient"
  /\ UNCHANGED <<queue, qsize, qclosed, nextId, wire, wr, batch, mcount,
                 pending, closers>>

\* A frame whose commands are all handled: the encoded replies are
\* written to the queue as one payload.
ReadFrame ==
  /\ Alive
  /\ rd = "read"
  /\ connUp
  /\ \E sz \in MsgSizes : QueueAdd(Reader, sz)
  /\ rd' = "check"
  /\ UNCHANGED <<qclosed, wire, closed, reason, tearing, connUp, werr, ping, pings, wr,
                 batch, mcount, closers>>

\* The end of writer.write and of handleClientData: a slow connection is
\* closed with the disconnect and the loop ends.
ReadCheckSize ==
  /\ Alive
  /\ rd = "check"
  /\ pending' = [pending EXCEPT ![Reader] = 0]
  /\ IF Slow
     THEN Close("slow") /\ rd' = "closeClient"
     ELSE rd' = "read" /\ UNCHANGED <<closed, reason, tearing, connUp, werr, ping, pings>>
  /\ UNCHANGED <<queue, qsize, qclosed, nextId, wire, wr, batch, mcount,
                 closers>>

\* conn.ReadMessage / sess.Recv fails once the connection is gone.
ReadFail ==
  /\ Alive
  /\ rd = "read"
  /\ ~connUp
  /\ rd' = "closeClient"
  /\ UNCHANGED <<queue, qsize, qclosed, nextId, wire, closed, reason, tearing, connUp,
                 werr, ping, pings, wr, batch, mcount, pending, closers>>

\* Deferred c.Close(nil): the client closes its transport with nil.
ReaderCloseClient ==
  /\ Alive
  /\ rd = "closeClient"
  /\ Close("nil")
  /\ rd' = "closeWriter"
  /\ UNCHANGED <<queue, qsize, qclosed, nextId, wire, wr, batch, mcount,
                 pending, closers>>

\* Mutant: the deferred writer.close() is missing.
ReaderCloseWriterMissing ==
  /\ Alive
  /\ rd = "closeWriter"
  /\ rd' = "done"
  /\ UNCHANGED <<queue, qsize, qclosed, nextId, wire, closed, reason, tearing, connUp, werr,
                 ping, pings, wr, batch, mcount, pending, closers>>

\* Deferred writer.close(): closes the queue, which ends runWriteRoutine.
ReaderCloseWriter ==
  /\ Alive
  /\ rd = "closeWriter"
  /\ qclosed' = TRUE
  /\ rd' = "done"
  /\ UNCHANGED <<queue, qsize, nextId, wire, closed, reason, tearing, connUp, werr,
                 ping, pings, wr, batch, mcount, pending, closers>>

-----------------------------------------------------------------------------
(* transport.Send from a broadcast goroutine, and the Close it spawns.     *)

\* writer.write's Add. (An Add to a closed queue is refused and changes
\* nothing.)
SendAdd(s) ==
  /\ Alive
  /\ pending[s] = 0
  /\ \E sz \in MsgSizes : QueueAdd(s, sz)
  /\ UNCHANGED <<qclosed, wire, closed, reason, tearing, connUp, werr, ping, pings, wr,
                 batch, mcount, rd, closers>>

\* Mutant: Send ignores the disconnect writer.write returns.
SendCheckSizeIgnored(s) ==
  /\ Alive
  /\ pending[s] > 0
  /\ pending' = [pending EXCEPT ![s] = 0]
  /\ UNCHANGED <<queue, qsize, qclosed, nextId, wire, closed, reason, tearing, connUp,
                 werr, ping, pings, wr, batch, mcount, rd, closers>>

\* writer.write's size check; Send closes a slow transport in a new
\* goroutine so as not to block the broadcast.
SendCheckSize(s) ==
  /\ Alive
  /\ pending[s] > 0
  /\ pending' = [pending EXCEPT ![s] = 0]
  /\ closers' = IF Slow THEN closers + 1 ELSE closers
  /\ UNCHANGED <<queue, qsize, qclosed, nextId, wire, closed, reason, tearing, connUp,
                 werr, ping, pings, wr, batch, mcount, rd>>

\* The goroutine "go t.Close(disconnect)" runs.
AsyncClose ==
  /\ Alive
  /\ closers > 0
  /\ closers' = closers - 1
  /\ Close("slow")
  /\ UNCHANGED <<queue, qsize, qclosed, nextId, wire, wr, batch, mcount, rd,
                 pending>>

-----------------------------------------------------------------------------
(* runWriteRoutine and the transport's write function.                    *)

\* Mutant: messageCount is taken one too low (off by one).
WriterWaitOffByOne ==
  /\ wr = "wait"
  /\ queue # <<>>
  /\ batch' = <<Head(queue)>>
  /\ queue' = Tail(queue)
  /\ qsize' = qsize - Head(queue).size
  /\ mcount' = Len(queue) - 2
  /\ wr' = "merge"
  /\ UNCHANGED <<qclosed, nextId, wire, closed, reason, tearing, connUp, werr, ping, pings,
                 rd, pending, closers>>

\* messages.Wait returns the oldest payload; messageCount is what is left.
WriterWait ==
  /\ wr = "wait"
  /\ queue # <<>>
  /\ batch' = <<Head(queue)>>
  /\ queue' = Tail(queue)
  /\ qsize' = qsize - Head(queue).size
  /\ mcount' = Len(queue) - 1
  /\ wr' = "merge"
  /\ UNCHANGED <<qclosed, nextId, wire, closed, reason, tearing, connUp, werr, ping, pings,
                 rd, pending, closers>>

\* messages.Wait on an empty closed queue: the routine returns.
WriterExit ==
  /\ wr = "wait"
  /\ queue = <<>>
  /\ qclosed
  /\ wr' = "done"
  /\ UNCHANGED <<queue, qsize, qclosed, nextId, wire, closed, reason, tearing, connUp,
                 werr, ping, pings, batch, mcount, rd, pending, closers>>

\* Mutant: the payload returned by Wait is put after the merged ones.
WriterMergePrepend ==
  /\ wr = "merge"
  /\ IF mcount > 0 /\ Len(batch) < maxMessagesInFrame
     THEN /\ batch' = <<Head(queue)>> \o batch
          /\ queue' = Tail(queue)
          /\ qsize' = qsize - Head(queue).size
          /\ mcount' = mcount - 1
          /\ UNCHANGED wr
     ELSE /\ wr' = "write"
          /\ UNCHANGED <<batch, queue, qsize, mcount>>
  /\ UNCHANGED <<qclosed, nextId, wire, closed, reason, tearing, connUp, werr, ping, pings,
                 rd, pending, closers>>

\* One turn of the merge loop: while messageCount > 0 and fewer than
\* maxMessagesInFrame payloads are collected, messages.Remove the next one.
\* The routine is the queue's only consumer, so the messageCount payloads
\* it counted are still there and Remove does not fail.
WriterMerge ==
  /\ wr = "merge"
  /\ IF mcount > 0 /\ Len(batch) < maxMessagesInFrame
     THEN /\ batch' = Append(batch, Head(queue))
          /\ queue' = Tail(queue)
          /\ qsize' = qsize - Head(queue).size
          /\ mcount' = mcount - 1
          /\ UNCHANGED wr
     ELSE /\ wr' = "write"
          /\ UNCHANGED <<batch, queue, qsize, mcount>>
  /\ UNCHANGED <<qclosed, nextId, wire, closed, reason, tearing, connUp, werr, ping, pings,
                 rd, pending, closers>>

\* Mutant: write does not look at closeCh.
WriteCheckClosedUnchecked ==
  /\ wr = "write"
  /\ wr' = (IF Transport = "websocket" THEN "nextWriter" ELSE "send")
  /\ UNCHANGED <<queue, qsize, qclosed, nextId, wire, closed, reason, tearing,
                 connUp, werr, ping, pings, batch, mcount, rd, pending, closers>>

\* write(data...): a closed transport (closeCh) swallows the payloads.
WriteCheckClosed ==
  /\ wr = "write"
  /\ IF closed
     THEN wr' = "wait" /\ batch' = <<>>
     ELSE wr' = (IF Transport = "websocket" THEN "nextWriter" ELSE "send")
          /\ UNCHANGED batch
  /\ UNCHANGED <<queue, qsize, qclosed, nextId, wire, closed, reason, tearing, connUp,
                 werr, ping, pings, mcount, rd, pending, closers>>

\* websocket: conn.NextWriter.  It fails when gorilla holds a write error;
\* the transport is closed but write does not return, and the Write on the
\* nil writer that follows panics.
WsNextWriter ==
  /\ wr = "nextWriter"
  /\ IF werr
     THEN Close("write_error") /\ wr' = "panic"
     ELSE wr' = "flush" /\ UNCHANGED <<closed, reason, tearing, connUp, werr, ping, pings>>
  /\ UNCHANGED <<queue, qsize, qclosed, nextId, wire, batch, mcount, rd,
                 pending, closers>>

\* Mutant: a failed websocket write returns without closing the transport.
WsFlushNoClose ==
  /\ wr = "flush"
  /\ IF connUp
     THEN /\ wire' = wire \o [i \in 1 .. Len(batch) |-> batch[i].id]
          /\ wr' = "wait"
     ELSE wr' = "done" /\ UNCHANGED wire
  /\ batch' = <<>>
  /\ UNCHANGED <<closed, reason, tearing, connUp, werr, ping, pings, queue, qsize,
                 qclosed, nextId, mcount, rd, pending, closers>>

\* websocket: writer.Write of every payload and writer.Close send one
\* frame; an error closes the transport and ends the routine.
WsFlush ==
  /\ wr = "flush"
  /\ IF connUp
     THEN /\ wire' = wire \o [i \in 1 .. Len(batch) |-> batch[i].id]
          /\ wr' = "wait"
          /\ UNCHANGED <<closed, reason, tearing, connUp, werr, ping, pings>>
     ELSE Close("write_error") /\ wr' = "done" /\ UNCHANGED wire
  /\ batch' = <<>>
  /\ UNCHANGED <<queue, qsize, qclosed, nextId, mcount, rd, pending, closers>>

\* Mutant: a failed session.Send returns without closing the transport.
SockjsSendNoClose ==
  /\ wr = "send"
  /\ IF batch = <<>>
     THEN wr' = "wait" /\ UNCHANGED <<wire, batch>>
     ELSE IF connUp
     THEN /\ wire' = Append(wire, Head(batch).id)
          /\ batch' = Tail(batch)
          /\ UNCHANGED wr
     ELSE wr' = "done" /\ batch' = <<>> /\ UNCHANGED wire
  /\ UNCHANGED <<closed, reason, tearing, connUp, werr, ping, pings, queue, qsize,
                 qclosed, nextId, mcount, rd, pending, closers>>

\* sockjs: session.Send of the next payload; an error closes the
\* transport and ends the routine.
SockjsSend ==
  /\ wr = "send"
  /\ IF batch = <<>>
     THEN wr' = "wait" /\ UNCHANGED <<wire, batch, closed, reason, tearing, connUp, werr, ping, pings>>
     ELSE IF connUp
     THEN /\ wire' = Append(wire, Head(batch).id)
          /\ batch' = Tail(batch)
          /\ UNCHANGED <<wr, closed, reason, tearing, connUp, werr, ping, pings>>
     ELSE Close("write_error") /\ wr' = "done" /\ batch' = <<>> /\ UNCHANGED wire
  /\ UNCHANGED <<queue, qsize, qclosed, nextId, mcount, rd, pending, closers>>

-----------------------------------------------------------------------------
(* The websocket ping timer: ping and addPing.                             *)

PingFire ==
  /\ Alive
  /\ ping = "armed"
  /\ pings < MaxPings
  /\ ping' = "firing"
  /\ UNCHANGED <<queue, qsize, qclosed, nextId, wire, closed, reason, tearing, connUp,
                 werr, pings, wr, batch, mcount, rd, pending, closers>>

\* ping: return if closeCh is closed; WriteControl(PingMessage); on error
\* close with DisconnectServerError and return.
PingWrite ==
  /\ Alive
  /\ ping = "firing"
  /\ IF closed
     THEN ping' = "off" /\ UNCHANGED <<closed, reason, tearing, connUp, werr, pings>>
     ELSE IF connUp
     THEN ping' = "rearm" /\ pings' = pings + 1
          /\ UNCHANGED <<closed, reason, tearing, connUp, werr>>
     ELSE ping' = "off" /\ CloseConn("server_error") /\ UNCHANGED pings
  /\ UNCHANGED <<queue, qsize, qclosed, nextId, wire, wr, batch, mcount, rd,
                 pending, closers>>

\* Mutant: addPing arms the timer without looking at closed.
PingRearmUnchecked ==
  /\ Alive
  /\ ping = "rearm"
  /\ ping' = "armed"
  /\ UNCHANGED <<queue, qsize, qclosed, nextId, wire, closed, reason, tearing, connUp,
                 werr, pings, wr, batch, mcount, rd, pending, closers>>

\* addPing: under the lock, arm a new timer unless the transport is closed.
PingRearm ==
  /\ Alive
  /\ ping = "rearm"
  /\ ping' = IF closed THEN "off" ELSE "armed"
  /\ UNCHANGED <<queue, qsize, qclosed, nextId, wire, closed, reason, tearing, connUp,
                 werr, pings, wr, batch, mcount, rd, pending, closers>>

-----------------------------------------------------------------------------
(* The environment: the peer goes away or the network fails.               *)
NetFail ==
  /\ Alive
  /\ connUp
  /\ connUp' = FALSE
  /\ UNCHANGED <<queue, qsize, qclosed, nextId, wire, closed, reason, tearing, werr,
                 ping, pings, wr, batch, mcount, rd, pending, closers>>

-----------------------------------------------------------------------------
ReaderStep == ReadCheckSize \/ ReadFail \/ ReaderCloseClient \/ ReaderCloseWriter
WriterStep == WriterWait \/ WriterExit \/ WriterMerge \/ WriteCheckClosed
              \/ WsNextWriter \/ WsFlush \/ SockjsSend
PingStep == PingFire \/ PingWrite \/ PingRearm

Next ==
  \/ ReadBadFrame \/ ReadFrame \/ ReaderStep
  \/ \E s \in Senders : SendAdd(s) \/ SendCheckSize(s)
  \/ AsyncClose \/ Teardown
  \/ WriterStep
  \/ PingStep
  \/ NetFail

\* Goroutines the Go runtime keeps scheduling are weakly fair; the client
\* (frames, going away) and the hub (Send) are not.
Fairness ==
  /\ WF_vars(ReaderStep)
  /\ WF_vars(WriterStep)
  /\ WF_vars(AsyncClose)
  /\ WF_vars(Teardown)
  /\ WF_vars(PingStep)
  /\ \A s \in Senders : WF_vars(SendCheckSize(s))

Spec == Init /\ [][Next]_vars /\ Fairness

-----------------------------------------------------------------------------
(* Properties                                                              *)

QueueIds == [i \in 1 .. Len(queue) |-> queue[i].id]
BatchIds == [i \in 1 .. Len(batch) |-> batch[i].id]

\* Every payload the queue accepted, in the order it is found along the
\* path to the peer: received, being written, still queued.
InTransit == wire \o BatchIds \o QueueIds

\* Replies of handleClientData and publications of Send reach the peer in
\* the order the queue accepted them, none twice; and while the transport
\* is open none is lost (the merge loop of runWriteRoutine, the closeCh
\* check of write and the write errors all play a part).
MessagesInOrder ==
  /\ \A i, j \in DOMAIN InTransit : i < j => InTransit[i] < InTransit[j]
  /\ ~closed => InTransit = [i \in 1 .. nextId |-> i]

\* runWriteRoutine only returns once the transport is closed: a routine
\* that exits while the connection stays open would leave every later
\* reply queued forever.
WriterExitsOnlyWhenClosed ==
  wr \in {"done", "panic"} => closed

\* After websocketTransport.Close no ping timer stays armed: a ping that
\* fires concurrently with Close must not re-arm itself in addPing.
PingNotArmedAfterClose ==
  closed => ping # "armed"

\* The queue never holds more than MaxQueueSize bytes unnoticed: whenever
\* it is over the limit, some writer.write has yet to check Size(), or a
\* close of the transport is under way or done.
SlowConsumerNoticed ==
  qsize > MaxQueueSize =>
    \/ closed
    \/ closers > 0
    \/ \E p \in Producers : pending[p] > 0

\* Close is final: once the transport is closed, by whichever of the
\* reader, the write routine, a Send goroutine or the ping timer comes
\* first, it stays closed and keeps the disconnect of the first Close.
CloseIsFinal ==
  [][closed => closed' /\ reason' = reason]_vars

\* The write routine never panics: a write error closes the transport and
\* ends the routine (spec 4.6).
NoWriterPanic == wr # "panic"

\* Once the transport is closed or the connection lost, both goroutines of
\* the connection end (or the process has crashed).
ConnectionReleased ==
  (closed \/ ~connUp) ~> ((rd = "done" /\ wr = "done") \/ wr = "panic")


\* runWriteRoutine is inside write, past its closeCh check.
PastCheck == wr \in {"nextWriter", "flush", "send"}

\* The payloads a write already past its closeCh check still holds: after
\* Close they may reach the peer, the others may not.
Committed == IF PastCheck THEN Len(batch) ELSE 0

\* The connection implements the FIFO channel a transport promises: the
\* payloads the queue accepted (nextId) reach the peer (wire) in order, in
\* frames of one or more, none twice; after Close only those a write had
\* taken before Close, and none accepted later; and while the transport
\* stays open runWriteRoutine eventually writes every one of them.
Channel == INSTANCE ConnectionChannel
             WITH accepted <- nextId, delivered <- wire, open <- ~closed,
                  limit <- IF closed THEN Len(wire) + Committed ELSE nextId
ChannelSpec == Channel!Spec

=============================================================================
