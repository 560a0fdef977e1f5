----------------------------- MODULE PacketBytes -----------------------------
(***************************************************************************)
(* The bytes behind ChatPacket: what the builders of chatPacket.c write    *)
(* and what the handlers of server.c and cclient.c read back.  A handle is *)
(* the sequence of its bytes, a text the sequence of its bytes without the *)
(* final NUL.  Offsets count from 0, as in the code.                       *)
(***************************************************************************)
EXTENDS ChatPacket, FiniteSetsExt, SequencesExt

CONSTANTS
  Base,             \* values of a byte: 256
  HANDLE_NAME_MAX,  \* 100
  TEXT_LEN_MAX      \* 200, with the NUL

ASSUME PacketBytesAssumption ==
  /\ Base \in Nat /\ Base > HANDLE_FINISH_FLAG
  /\ HANDLE_NAME_MAX \in 1 .. Base - 1
  /\ TEXT_LEN_MAX \in Nat \ {0}

NUL == 0
Bytes == 0 .. Base - 1

\* A conversion to uint8_t.
Byte(n) == n % Base

------------------------------------------------------------------------------
(* Builders.  <<>> stands for their -1. *)

Failed == <<>>

\* A length and the bytes it announces.
HandleField(handle) == <<Byte(Len(handle))>> \o handle

LegalLength(handle) == Len(handle) \in 1 .. HANDLE_NAME_MAX

\* handleOnlyPacket checks the length after its conversion.
HandleOnlyBytes(flag, srcHandle) ==
  LET handleLen == Byte(Len(srcHandle))
  IN IF handleLen \in 1 .. HANDLE_NAME_MAX
     THEN <<flag, handleLen>> \o SubSeq(srcHandle, 1, handleLen)
     ELSE Failed

MessageBytes(flag, srcHandle, dstHandles, text) ==
  IF /\ Len(dstHandles) \in 1 .. 9
     /\ LegalLength(srcHandle)
     /\ \A i \in DOMAIN dstHandles : LegalLength(dstHandles[i])
     /\ Len(text) + 1 <= TEXT_LEN_MAX
  THEN <<flag>> \o HandleField(srcHandle) \o <<Len(dstHandles)>>
         \o FlattenSeq([i \in DOMAIN dstHandles |-> HandleField(dstHandles[i])])
         \o text \o <<NUL>>
  ELSE Failed

BroadcastBytes(srcHandle, text) ==
  IF LegalLength(srcHandle) /\ Len(text) + 1 <= TEXT_LEN_MAX
  THEN <<BROADCAST_FLAG>> \o HandleField(srcHandle) \o text \o <<NUL>>
  ELSE Failed

\* htonl: four bytes, the most significant one first.
ListCountBytes(count) ==
  LET b3 == count \div Base
      b2 == b3 \div Base
      b1 == b2 \div Base
  IN <<HANDLE_LIST_RESP_FLAG, Byte(b1), Byte(b2), Byte(b3), Byte(count)>>

\* The builder each PDU of ChatPacket comes from.
Encode(pdu) ==
  CASE pdu.flag \in {INIT_CONNECT_FLAG, HANDLE_ERR_FLAG, HANDLE_ITEM_FLAG} ->
         HandleOnlyBytes(pdu.flag, pdu.handle)
    [] pdu.flag = BROADCAST_FLAG -> BroadcastBytes(pdu.src, pdu.text)
    [] pdu.flag \in {UNICAST_FLAG, MULTICAST_FLAG} ->
         MessageBytes(pdu.flag, pdu.src, pdu.dsts, pdu.text)
    [] pdu.flag = HANDLE_LIST_RESP_FLAG -> ListCountBytes(pdu.count)
    [] OTHER -> <<pdu.flag>>

\* The arguments the builders accept, and sendUnicast its one destination.  A handle
\* or a text comes from a C string, or was one before it was put into a PDU; a count
\* is a uint32_t.  (The uint8_t of handleOnlyPacket would also take a handle of 256
\* bytes for a short one; a client checks its own, and the others have come out of
\* a PDU.)
Handles == {handle \in Seq(Bytes \ {NUL}) : LegalLength(handle)}

Texts == {text \in Seq(Bytes \ {NUL}) : Len(text) + 1 <= TEXT_LEN_MAX}

BuildablePdus ==
  [flag : {INIT_CONNECT_FLAG, HANDLE_ERR_FLAG, HANDLE_ITEM_FLAG}, handle : Handles]
    \cup [flag : {GOOD_CONNECT_FLAG, BAD_CONNECT_FLAG, HANDLE_LIST_FLAG,
                 HANDLE_FINISH_FLAG}]
    \cup [flag : {BROADCAST_FLAG}, src : Handles, text : Texts]
    \cup [flag : {UNICAST_FLAG}, src : Handles,
          dsts : {dsts \in Seq(Handles) : Len(dsts) = 1}, text : Texts]
    \cup [flag : {MULTICAST_FLAG}, src : Handles,
          dsts : {dsts \in Seq(Handles) : Len(dsts) \in 1 .. 9}, text : Texts]
    \cup [flag : {HANDLE_LIST_RESP_FLAG}, count : 0 .. Base * Base * Base * Base - 1]

------------------------------------------------------------------------------
(* Parsers. *)

ByteAt(pdu, offset) == pdu[offset + 1]

GetFlag(pdu) == ByteAt(pdu, 0)

\* outHandle, and the offset behind it.
GetHandleAt(pdu, offset) ==
  LET handleLen == ByteAt(pdu, offset)
  IN [handle |-> SubSeq(pdu, offset + 2, offset + 1 + handleLen),
      next   |-> offset + 1 + handleLen]

\* What %s prints from there.
StringAt(pdu, offset) ==
  LET end == Min({i \in offset .. Len(pdu) - 1 : ByteAt(pdu, i) = NUL})
  IN SubSeq(pdu, offset + 1, end)

\* The offsets getHandleAt returns in flagMulticast, up to the one behind the last
\* destination.
DstOffsets(pdu, first, numOfDst) ==
  LET offset[i \in 0 .. numOfDst] ==
        IF i = 0 THEN first ELSE GetHandleAt(pdu, offset[i - 1]).next
  IN offset

\* flagMulticast: the handles it looks up.
MulticastDsts(pdu) ==
  LET first    == GetHandleAt(pdu, 1).next
      numOfDst == ByteAt(pdu, first)
      offset   == DstOffsets(pdu, first + 1, numOfDst)
  IN [i \in 1 .. numOfDst |-> GetHandleAt(pdu, offset[i - 1]).handle]

\* Mutant: the number of destinations is taken for the length of the first.
MutantUnicastDst(pdu) == GetHandleAt(pdu, GetHandleAt(pdu, 1).next).handle

\* flagUnicast: the number of destinations is stepped over unread.
UnicastDst(pdu) == GetHandleAt(pdu, GetHandleAt(pdu, 1).next + 1).handle

\* The offset behind the destinations, which flagUnicastRecv steps over.
TextOffset(pdu, first, numOfDst) ==
  LET offset[i \in 0 .. numOfDst] ==
        IF i = 0 THEN first ELSE offset[i - 1] + 1 + ByteAt(pdu, offset[i - 1])
  IN offset[numOfDst]

\* flagUnicastRecv, and flagMulticastRecv, which calls it.
MessageText(pdu) ==
  LET first == GetHandleAt(pdu, 1).next
  IN StringAt(pdu, TextOffset(pdu, first + 1, ByteAt(pdu, first)))

\* What flags 5 and 6 mean to those who take them apart: the server reads the
\* destinations, a client the source and the text.
ParseMessage(pdu) ==
  MessagePacket(GetFlag(pdu), GetHandleAt(pdu, 1).handle,
                IF GetFlag(pdu) = UNICAST_FLAG THEN <<UnicastDst(pdu)>>
                                               ELSE MulticastDsts(pdu),
                MessageText(pdu))

\* flagBroadcastRecv.
ParseBroadcast(pdu) ==
  LET src == GetHandleAt(pdu, 1)
  IN BroadcastPacket(src.handle, StringAt(pdu, src.next))

\* flagConnect, flagNotFoundRecv, and the items of flagListBegin.
ParseHandleOnly(pdu) == HandleOnlyPacket(GetFlag(pdu), GetHandleAt(pdu, 1).handle)

\* ntohl in flagListBegin.
ParseListCount(pdu) ==
  ListCountPacket(((ByteAt(pdu, 1) * Base + ByteAt(pdu, 2)) * Base
                     + ByteAt(pdu, 3)) * Base + ByteAt(pdu, 4))

\* The handler each flag is given to.
Decode(pdu) ==
  CASE GetFlag(pdu) \in {INIT_CONNECT_FLAG, HANDLE_ERR_FLAG, HANDLE_ITEM_FLAG} ->
         ParseHandleOnly(pdu)
    [] GetFlag(pdu) = BROADCAST_FLAG -> ParseBroadcast(pdu)
    [] GetFlag(pdu) \in {UNICAST_FLAG, MULTICAST_FLAG} -> ParseMessage(pdu)
    [] GetFlag(pdu) = HANDLE_LIST_RESP_FLAG -> ParseListCount(pdu)
    [] OTHER -> ChatHeaderPacket(GetFlag(pdu))
==============================================================================
