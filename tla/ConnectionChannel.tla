------------------------- MODULE ConnectionChannel -------------------------
(***************************************************************************)
(* What a client transport of handlers.go promises its users (spec 4.6 and *)
(* 5): a FIFO channel from the server to one peer.  Payloads are numbered  *)
(* in the order the connection accepts them; the peer receives a prefix of *)
(* them, in order, none twice, several at once when they share a frame.    *)
(* Close is not instantaneous: the payloads already on their way when the  *)
(* transport is closed (up to limit) may still be received, or be given    *)
(* up, but nothing accepted after Close is.  While the transport stays     *)
(* open every accepted payload is eventually received.                     *)
(***************************************************************************)
EXTENDS Naturals, Sequences

CONSTANT MaxMsgs   \* bound: payloads accepted in one behaviour

VARIABLES
  accepted,   \* payloads accepted so far
  delivered,  \* ids the peer received, in order
  open,       \* the transport is not closed
  limit       \* the last payload the peer may still receive

avars == <<accepted, delivered, open, limit>>

Init ==
  /\ accepted = 0
  /\ delivered = <<>>
  /\ open = TRUE
  /\ limit = 0

\* A payload is queued, whether or not the transport is still open (the
\* queue is closed only after the transport); only while it is open may
\* the payload still reach the peer.
Accept ==
  /\ accepted < MaxMsgs
  /\ accepted' = accepted + 1
  /\ limit' = IF open THEN limit + 1 ELSE limit
  /\ UNCHANGED <<delivered, open>>

\* The next k payloads up to limit reach the peer in one write.
Deliver ==
  /\ \E k \in 1 .. limit - Len(delivered) :
       delivered' = delivered \o [i \in 1 .. k |-> Len(delivered) + i]
  /\ UNCHANGED <<accepted, open, limit>>

\* Close: of the payloads not yet received, only the oldest ones, already
\* on their way, may still be.
Close ==
  /\ open
  /\ open' = FALSE
  /\ limit' \in Len(delivered) .. limit
  /\ UNCHANGED <<accepted, delivered>>

\* After Close, the payloads still on their way are given up.
Abandon ==
  /\ ~open
  /\ limit > Len(delivered)
  /\ limit' = Len(delivered)
  /\ UNCHANGED <<accepted, delivered, open>>

Next == Accept \/ Deliver \/ Close \/ Abandon

\* Only an open transport owes its payloads to the peer.
DeliverOpen == open /\ Deliver

Spec == Init /\ [][Next]_avars /\ WF_avars(DeliverOpen)
=============================================================================
