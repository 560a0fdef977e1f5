---------------------------- MODULE MCPduStream ----------------------------
(* PduStream with bytes of 16 values: PDUs of 16 bytes and more need both   *)
(* bytes of the header.                                                     *)
EXTENDS PduStream

MCLegalNames == {<<14>>, <<15, 1>>}

src == <<14>>
dst == <<15, 1>>

\* Every flag and both ends of every length; the longest one just fits.
MCPdus == {
  HandleOnlyPacket(INIT_CONNECT_FLAG, dst),
  HandleOnlyPacket(HANDLE_ERR_FLAG, src),
  HandleOnlyPacket(HANDLE_ITEM_FLAG, dst),
  ChatHeaderPacket(GOOD_CONNECT_FLAG),
  ChatHeaderPacket(HANDLE_FINISH_FLAG),
  BroadcastPacket(src, <<>>),
  BroadcastPacket(dst, <<1, 15, 1>>),
  MessagePacket(UNICAST_FLAG, src, <<src>>, <<5>>),
  MessagePacket(MULTICAST_FLAG, dst, <<src, dst>>, <<>>),
  MessagePacket(MULTICAST_FLAG, dst, <<dst, src, dst>>, <<9, 10, 11>>),
  ListCountPacket(1),
  ListCountPacket(16^3 + 2 * 16^2 + 3 * 16 + 4)}
==============================================================================
