------------------------------ MODULE PduStream ------------------------------
(***************************************************************************)
(* pdu.c and safeUtil.c over one direction of a connection, byte by byte.  *)
(* The sender writes a PDU with one send(), which blocks while the socket  *)
(* buffers are full; it may end at any moment, inside a PDU too.  The      *)
(* receiver waits in pollCall and reads a PDU with two recv(MSG_WAITALL).  *)
(*                                                                         *)
(* A byte is in one of four places: unsent (given to send(), or lost), in  *)
(* wire (the socket buffers and the network), in got (what the recv() that *)
(* runs has so far), or received.                                          *)
(***************************************************************************)
EXTENDS PacketBytes

CONSTANTS
  Pdus,       \* what the senders build
  MaxPdus,    \* bound on the PDUs sent
  SockBytes,  \* bytes a connection holds
  bufferSize  \* of the receiver: PDU_LEN_MAX, 1500

PDU_HEADER_LEN == 2

\* dataBuffer is an array of uint8_t; with PDU_LEN_MAX, 1500, every PDU the
\* builders accept fits it, and its length the 16 bits of the header.
ASSUME PduStreamAssumption ==
  /\ MaxPdus \in Nat
  /\ SockBytes \in Nat \ {0}
  /\ bufferSize \in Nat /\ bufferSize + PDU_HEADER_LEN < Base * Base
  /\ Pdus \subseteq BuildablePdus
  /\ \A pdu \in Pdus : Len(Encode(pdu)) <= bufferSize

\* What each of them puts into dataBuffer.
Data == [pdu \in Pdus |-> Encode(pdu)]

VARIABLES
  built,     \* the PDUs given to sendPDU so far
  unsent,    \* bytes not on their way: still in send(), or lost
  sender,    \* "runs" or "ended"
  wire,
  phase,     \* of the receiver: poll, header, payload, closed, exited
  data_len,  \* of the payload being received
  got,
  received   \* the payloads returned by recvPDU

vars == <<built, unsent, sender, wire, phase, data_len, got, received>>

TypeOK ==
  /\ built \in Seq(Pdus) /\ Len(built) <= MaxPdus
  /\ unsent \in Seq(Bytes)
  /\ sender \in {"runs", "ended"}
  /\ wire \in Seq(Bytes) /\ Len(wire) <= SockBytes
  /\ phase \in {"poll", "header", "payload", "closed", "exited"}
  /\ data_len \in 0 .. bufferSize
  /\ got \in Seq(Bytes)
  /\ received \in Seq(Seq(Bytes))

Init ==
  /\ built = <<>>
  /\ unsent = <<>>
  /\ sender = "runs"
  /\ wire = <<>>
  /\ phase = "poll"
  /\ data_len = 0
  /\ got = <<>>
  /\ received = <<>>

------------------------------------------------------------------------------
(* The sender, and the network. *)

\* Mutant: the length is written as one byte, as if it never passed 255.
MutantHtons(n) == <<0, n>>

Htons(n) == <<Byte(n \div Base), Byte(n)>>

Frame(data) == Htons(Len(data) + PDU_HEADER_LEN) \o data

SendPDU(pdu) ==
  /\ sender = "runs"
  /\ unsent = <<>>
  /\ Len(built) < MaxPdus
  /\ built' = Append(built, pdu)
  /\ unsent' = Frame(Data[pdu])
  /\ UNCHANGED <<sender, wire, phase, data_len, got, received>>

\* The kernel takes a byte out of a send().
Copy ==
  /\ sender = "runs"
  /\ unsent # <<>>
  /\ Len(wire) < SockBytes
  /\ wire' = Append(wire, Head(unsent))
  /\ unsent' = Tail(unsent)
  /\ UNCHANGED <<built, sender, phase, data_len, got, received>>

\* close(), exit() or a signal; with a send() under way, a signal.
SenderEnds ==
  /\ sender = "runs"
  /\ sender' = "ended"
  /\ UNCHANGED <<built, unsent, wire, phase, data_len, got, received>>

\* The sender's end answers with RST: what has not arrived yet is lost.
Reset ==
  /\ sender = "ended"
  /\ \E n \in 0 .. Len(wire) - 1 :
       /\ wire' = SubSeq(wire, 1, n)
       /\ unsent' = SubSeq(wire, n + 1, Len(wire)) \o unsent
  /\ UNCHANGED <<built, sender, phase, data_len, got, received>>

------------------------------------------------------------------------------
(* The receiver. *)

\* The end of the stream, or ECONNRESET, which safeRecv takes for it.
AtEnd == sender = "ended" /\ wire = <<>>

PollReturns ==
  /\ phase = "poll"
  /\ wire # <<>> \/ AtEnd
  /\ phase' = "header"
  /\ got' = <<>>
  /\ UNCHANGED <<built, unsent, sender, wire, data_len, received>>

Wanted == IF phase = "header" THEN PDU_HEADER_LEN ELSE data_len

\* recv() takes a byte.
RecvByte ==
  /\ phase \in {"header", "payload"}
  /\ Len(got) < Wanted
  /\ wire # <<>>
  /\ got' = Append(got, Head(wire))
  /\ wire' = Tail(wire)
  /\ UNCHANGED <<built, unsent, sender, phase, data_len, received>>

\* Mutant: no MSG_WAITALL.
MutantRecvReturns == got # <<>> \/ AtEnd

\* Mutant: the end of the stream is not looked for.
MutantRecvNoEof == Len(got) = Wanted

RecvReturns == Len(got) = Wanted \/ AtEnd

Ntohs(bytes) == bytes[1] * Base + bytes[2]

\* Mutant: the header is taken for a part of the payload.
MutantDataLen(header) == Ntohs(header)

DataLen(header) == Ntohs(header) - PDU_HEADER_LEN

\* What memcpy takes for the header: a byte that did not come is what the stack
\* held.
Headers ==
  IF Len(got) = PDU_HEADER_LEN THEN {got}
  ELSE {Append(got, garbage) : garbage \in Bytes}

\* recvPDU returns 0, and its caller closes the connection.
HeaderEof ==
  /\ phase = "header"
  /\ RecvReturns
  /\ got = <<>>
  /\ phase' = "closed"
  /\ UNCHANGED <<built, unsent, sender, wire, data_len, got, received>>

\* A negative length is converted to a huge size_t: the kernel rejects the
\* buffer and safeRecv exits, or, at the end of the stream, returns 0.
HeaderReceived ==
  /\ phase = "header"
  /\ RecvReturns
  /\ got # <<>>
  /\ \E header \in Headers :
       LET len == DataLen(header)
       IN \/ /\ len > bufferSize \/ len < 0
             /\ phase' = "exited"
             /\ UNCHANGED data_len
          \/ /\ len < 0 /\ AtEnd
             /\ phase' = "closed"
             /\ UNCHANGED data_len
          \/ /\ len \in 0 .. bufferSize
             /\ phase' = "payload"
             /\ data_len' = len
  /\ got' = <<>>
  /\ UNCHANGED <<built, unsent, sender, wire, received>>

\* recvPDU returns the bytes that came, and the caller goes on to pollCall; the
\* 0 of a payload of which no byte came closes the connection.
PayloadReceived ==
  /\ phase = "payload"
  /\ RecvReturns
  /\ got' = <<>>
  /\ IF got = <<>>
     THEN phase' = "closed" /\ UNCHANGED received
     ELSE phase' = "poll" /\ received' = Append(received, got)
  /\ UNCHANGED <<built, unsent, sender, wire, data_len>>

Receiver ==
  \/ PollReturns
  \/ RecvByte
  \/ HeaderEof
  \/ HeaderReceived
  \/ PayloadReceived

Next ==
  \/ \E pdu \in Pdus : SendPDU(pdu)
  \/ Copy
  \/ SenderEnds
  \/ Reset
  \/ Receiver

Spec == Init /\ [][Next]_vars

\* The receiver runs, and a send() that is not blocked goes on: the sender may
\* be killed but is not suspended inside a PDU.
FairSpec == Spec /\ WF_vars(Receiver) /\ WF_vars(Copy)

------------------------------------------------------------------------------
(* Properties. *)

WholeReceived == {i \in DOMAIN received : Len(received[i]) = Len(Data[built[i]])}

\* How many bytes the first i frames have.
FrameEnds ==
  LET end[i \in 0 .. Len(built)] ==
        IF i = 0 THEN 0 ELSE end[i - 1] + Len(Data[built[i]]) + PDU_HEADER_LEN
  IN end

\* The bytes of the frames behind the n-th.
BytesBehind(n) == FrameEnds[Len(built)] - FrameEnds[n]

\* The PDUs of which every byte has left, or will leave, the sender.
Leaving ==
  IF sender = "runs" THEN Len(built)
  ELSE Max({n \in 0 .. Len(built) : BytesBehind(n) >= Len(unsent)})

PC == INSTANCE PduChannel WITH
  queue     <- SubSeq(built, Cardinality(WholeReceived) + 1, Leaving),
  delivered <- [i \in WholeReceived |-> Decode(received[i])],
  ended     <- sender = "ended",
  closed    <- phase \in {"closed", "exited"}

\* The bytes are the queue of whole PDUs that Tcp takes them for.  What is received
\* in full says what its sender meant: handles, numbers and texts survive
\* building, framing and parsing (chatPacket.c, pdu.c, and the handlers that take
\* a PDU apart), and none is lost but at the end of a sender that has ended.
ImplementsPduChannel == PC!Spec

\* The receiver never loses step with the sender: PDUs are received in order and
\* whole, and only the last one of a sender that has ended may be cut short; only
\* then is the connection given up, or the receiver ended by a length it has
\* made up (pdu.c:40-58).
InStep ==
  /\ Len(received) <= Len(built)
  /\ \A i \in DOMAIN received :
       \/ received[i] = Data[built[i]]
       \/ /\ i = Len(received) /\ sender = "ended"
          /\ IsStrictPrefix(received[i], Data[built[i]])
  /\ phase \in {"closed", "exited"} => sender = "ended"

\* recvPDU returns the "number of bytes received, or 0 if connection closed midway
\* through PDU processing" (pdu.c:58; pdu.h:17 says the same): its caller is never
\* handed a part of a payload.
ZeroIfCutShort == \A i \in DOMAIN received : received[i] = Data[built[i]]

\* recvPDU comes back: a peer that ends inside a PDU does not hold the server,
\* which serves nobody else meanwhile (pdu.c:40, 56).
RecvComesBack == phase \in {"header", "payload"} ~> phase \notin {"header", "payload"}

\* Everything that is sent is received, unless the sender ends.
AllReceived ==
  \A n \in 1 .. MaxPdus :
    Len(built) = n ~> Len(received) >= n \/ sender = "ended"
==============================================================================
