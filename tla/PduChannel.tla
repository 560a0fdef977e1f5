------------------------------ MODULE PduChannel ------------------------------
(***************************************************************************)
(* What server.c and cclient.c expect of sendPDU and recvPDU, and what Tcp *)
(* takes one direction of a connection to be: a queue of whole PDUs, of    *)
(* which the last ones may be lost when their sender ends.                 *)
(***************************************************************************)
EXTENDS Integers, Sequences

CONSTANT Pdus

VARIABLES
  queue,      \* sent and not yet received
  delivered,  \* received
  ended,      \* by the sender
  closed      \* by the receiver

vars == <<queue, delivered, ended, closed>>

Init ==
  /\ queue = <<>>
  /\ delivered = <<>>
  /\ ended = FALSE
  /\ closed = FALSE

Send(pdu) ==
  /\ ~ended
  /\ queue' = Append(queue, pdu)
  /\ UNCHANGED <<delivered, ended, closed>>

Receive ==
  /\ ~closed
  /\ queue # <<>>
  /\ queue' = Tail(queue)
  /\ delivered' = Append(delivered, Head(queue))
  /\ UNCHANGED <<ended, closed>>

\* With a PDU half sent, or with a reset on its way.
EndOrLose ==
  /\ ended' = TRUE
  /\ \E n \in 0 .. Len(queue) : queue' = SubSeq(queue, 1, n)
  /\ UNCHANGED <<delivered, closed>>

\* recvPDU returns 0 only behind everything that can still be received.
Close ==
  /\ ended
  /\ queue = <<>>
  /\ closed' = TRUE
  /\ UNCHANGED <<queue, delivered, ended>>

Next ==
  \/ \E pdu \in Pdus : Send(pdu)
  \/ Receive
  \/ EndOrLose
  \/ Close

Spec == Init /\ [][Next]_vars
==============================================================================
