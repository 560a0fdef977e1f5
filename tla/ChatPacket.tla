------------------------------ MODULE ChatPacket ------------------------------
(***************************************************************************)
(* chatFlags.h and chatPacket.c: what a PDU says.  A PDU is a record with  *)
(* the fields its builder writes behind the flag; lengths, offsets and     *)
(* byte order are left out.                                                *)
(***************************************************************************)
EXTENDS Integers, Sequences

CONSTANTS
  LegalNames,  \* handles of 1..HANDLE_NAME_MAX bytes
  EmptyName    \* the empty handle, the only other one cclient lets through

INIT_CONNECT_FLAG     == 1
GOOD_CONNECT_FLAG     == 2
BAD_CONNECT_FLAG      == 3
BROADCAST_FLAG        == 4
UNICAST_FLAG          == 5
MULTICAST_FLAG        == 6
HANDLE_ERR_FLAG       == 7
HANDLE_LIST_FLAG      == 10
HANDLE_LIST_RESP_FLAG == 11
HANDLE_ITEM_FLAG      == 12
HANDLE_FINISH_FLAG    == 13

Names == LegalNames \cup {EmptyName}

\* The builders.  handleOnlyPacket returns -1 for the empty handle: see
\* Cclient!InitConnectHandle for what becomes of it.
HandleOnlyPacket(flag, srcHandle) == [flag |-> flag, handle |-> srcHandle]

ChatHeaderPacket(flag) == [flag |-> flag]

MessagePacket(flag, srcHandle, dstHandles, text) ==
  [flag |-> flag, src |-> srcHandle, dsts |-> dstHandles, text |-> text]

BroadcastPacket(srcHandle, text) ==
  [flag |-> BROADCAST_FLAG, src |-> srcHandle, text |-> text]

ListCountPacket(count) == [flag |-> HANDLE_LIST_RESP_FLAG, count |-> count]

\* Flags of the PDUs that carry user text.
TextFlags == {BROADCAST_FLAG, UNICAST_FLAG, MULTICAST_FLAG}
==============================================================================
