---------------------------- MODULE ChatTableProofs ----------------------------
(***************************************************************************)
(* The handle table, the descriptors behind it and the poll set, for every *)
(* number of clients, names and descriptors: a name stands for the client  *)
(* that registered it, whatever has left, connected and been refused.      *)
(*                                                                         *)
(* First the type invariant: what is in every socket, queue and job.       *)
(*                                                                         *)
(* The inductive invariant is IInv.  NoStaleEntry alone is not inductive:  *)
(* a connection whose handle is refused is closed without removeHandle, so *)
(* it must be known that it is in no entry, which follows from each client *)
(* sending flag 1 once and first (Handshake) and from no client being      *)
(* behind two descriptors (OneConnection).                                 *)
(***************************************************************************)
EXTENDS ChatSystem, ScanLemmas, SequenceTheorems

HTP == INSTANCE HandleTableProofs WITH Sockets <- Fds

------------------------------------------------------------------------------
(* The handle table in the server: its theorems, with descriptors for       *)
(* sockets.                                                                 *)

LEMMA TableAssumption == HTP!HandleTableAssumption
BY ServerAssumption, TcpAssumption
   DEF HTP!HandleTableAssumption, Names, Fds, FirstFd, HT!HandleEntry, HTP!HandleEntry

\* The two instances of HandleTable are one.
LEMMA SameTable ==
  /\ HTP!Slots = HT!Slots /\ HTP!ValidSlots = HT!ValidSlots
  /\ HTP!Init <=> HT!Init
  /\ \A name : HTP!LookupSocket(name) = HT!LookupSocket(name)
  /\ \A name, fd : HTP!AddHandle(name, fd) <=> HT!AddHandle(name, fd)
  /\ \A name : HTP!RejectHandle(name) <=> HT!RejectHandle(name)
  /\ \A fd : HTP!RemoveHandle(fd) <=> HT!RemoveHandle(fd)
<1>1. HTP!Slots = HT!Slots /\ HTP!ValidSlots = HT!ValidSlots /\ HTP!FreeSlots = HT!FreeSlots
  BY DEF HTP!Slots, HT!Slots, HTP!ValidSlots, HT!ValidSlots, HTP!FreeSlots, HT!FreeSlots
<1>2. \A S : HTP!Min(S) = HT!Min(S)
  BY DEF HTP!Min, HT!Min
<1>3. \A name : HTP!LookupSocket(name) = HT!LookupSocket(name)
  BY <1>1, <1>2 DEF HTP!LookupSocket, HT!LookupSocket, HTP!SlotsOf, HT!SlotsOf
<1>4. \A name : HTP!Acceptable(name) <=> HT!Acceptable(name)
  BY <1>3 DEF HTP!Acceptable, HT!Acceptable
<1>5. \A name : HTP!RejectHandle(name) <=> HT!RejectHandle(name)
  BY <1>4 DEF HTP!RejectHandle, HT!RejectHandle, HTP!vars, HT!vars
<1>6. \A name, fd : HTP!AddHandle(name, fd) <=> HT!AddHandle(name, fd)
  <2>1. \A name, fd : HTP!UseFreeSlot(name, fd) <=> HT!UseFreeSlot(name, fd)
    BY <1>1, <1>2 DEF HTP!UseFreeSlot, HT!UseFreeSlot, HTP!Entry, HT!Entry,
                      HTP!FirstFree, HT!FirstFree
  <2>2. \A name, fd : HTP!Grow(name, fd) <=> HT!Grow(name, fd)
    BY DEF HTP!Grow, HT!Grow, HTP!Entry, HT!Entry, HTP!NewEntry, HT!NewEntry
  <2> QED BY <1>1, <1>4, <2>1, <2>2 DEF HTP!AddHandle, HT!AddHandle
<1>7. \A fd : HTP!RemoveHandle(fd) <=> HT!RemoveHandle(fd)
  <2>1. \A fd : HTP!SlotsBoundTo(fd) = HT!SlotsBoundTo(fd)
    BY <1>1 DEF HTP!SlotsBoundTo, HT!SlotsBoundTo
  <2>2. \A S : HTP!Cardinality(S) = HT!Cardinality(S)
    BY DEF HTP!Cardinality, HT!Cardinality
  <2> QED BY <1>1, <2>1, <2>2 DEF HTP!RemoveHandle, HT!RemoveHandle
<1>8. HTP!Init <=> HT!Init
  BY DEF HTP!Init, HT!Init
<1> QED BY <1>1, <1>3, <1>5, <1>6, <1>7, <1>8

\* The server keeps the table's invariant.
LEMMA TableInv ==
  ASSUME HTP!IInv,
         \/ \E fd \in Fds : \E name : HT!AddHandle(name, fd)
         \/ \E fd \in Fds : HT!RemoveHandle(fd)
         \/ UNCHANGED tableVars
  PROVE  HTP!IInv'
<1>1. ASSUME NEW name, NEW fd \in Fds, HT!AddHandle(name, fd)
      PROVE  HTP!Next
  <2>1. HTP!AddHandle(name, fd)
    BY <1>1, SameTable
  <2>2. name \in Names
    BY <2>1 DEF HTP!AddHandle, HTP!Acceptable, Names
  <2> QED BY <2>1, <2>2 DEF HTP!Next
<1>2. ASSUME NEW fd \in Fds, HT!RemoveHandle(fd)
      PROVE  HTP!Next
  BY <1>2, SameTable DEF HTP!Next
<1>3. CASE UNCHANGED tableVars
  <2>1. UNCHANGED HTP!vars
    BY <1>3 DEF tableVars, HTP!vars
  <2> QED BY <2>1, HTP!NextInv, TableAssumption
<1> QED BY <1>1, <1>2, <1>3, HTP!NextInv, TableAssumption

------------------------------------------------------------------------------
(* The PDUs, by who builds them. *)

Texts == [by : Clients, n : Nat]

TextPdu ==
  [flag : {BROADCAST_FLAG}, src : Names, text : Texts]
    \cup [flag : {UNICAST_FLAG, MULTICAST_FLAG}, src : Names,
          dsts : Seq(LegalNames), text : Texts]

LinePdu == TextPdu \cup [flag : {HANDLE_LIST_FLAG}]

ClientPdu == LinePdu \cup [flag : {INIT_CONNECT_FLAG}, handle : LegalNames]

AnswerPdu ==
  [flag : {GOOD_CONNECT_FLAG, BAD_CONNECT_FLAG, HANDLE_FINISH_FLAG}]
    \cup [flag : {HANDLE_ERR_FLAG, HANDLE_ITEM_FLAG}, handle : LegalNames]
    \cup [flag : {HANDLE_LIST_RESP_FLAG}, count : Nat]

ServerPdu == TextPdu \cup AnswerPdu

Sends == [sock : Fds, pdu : ServerPdu]

\* TypeOK with the PDUs that may be in each place; what the server does with a
\* PDU depends on its flag, so TypeOK, which lets any flag go with any fields,
\* is not inductive.
TcpTyped ==
  /\ backlog \in Seq(Clients)
  /\ conn \in [Fds -> Clients \cup {NoClient}]
  /\ c2s \in [Clients -> Seq(ClientPdu)]
  /\ s2c \in [Clients -> Seq(ServerPdu)]
  /\ cliEnd \in [Clients -> {"none", "open", "closed", "reset"}]
  /\ srvEnd \in [Clients -> {"none", "open", "fin", "rst"}]

ServerTyped ==
  /\ alive \in BOOLEAN
  /\ polled \subseteq Fds
  /\ job \in [fd : Fds \cup {0}, todo : Seq(Sends), closing : BOOLEAN]
  /\ HTP!IInv

ClientsTyped ==
  /\ pc \in [Clients -> Stages]
  /\ outq \in [Clients -> Seq(LinePdu)]
  /\ sent \in [Clients -> Nat] /\ \A c \in Clients : sent[c] <= Budget[c]

Typed == TcpTyped /\ ServerTyped /\ ClientsTyped

LEMMA PduKinds ==
  /\ LinePdu \subseteq ClientPdu
  /\ \A p \in ClientPdu :
       /\ p.flag = INIT_CONNECT_FLAG => p.handle \in LegalNames
       /\ p.flag \in TextFlags => p \in TextPdu
  /\ \A p \in TextPdu :
       p.flag \in {UNICAST_FLAG, MULTICAST_FLAG} => p.dsts \in Seq(LegalNames)
  /\ TextPdu \subseteq ServerPdu
BY DEF ClientPdu, LinePdu, TextPdu, ServerPdu, TextFlags, INIT_CONNECT_FLAG,
       HANDLE_LIST_FLAG, BROADCAST_FLAG, UNICAST_FLAG, MULTICAST_FLAG

\* The builders of the server.
LEMMA AnswersTyped ==
  /\ ChatHeaderPacket(GOOD_CONNECT_FLAG) \in ServerPdu
  /\ ChatHeaderPacket(BAD_CONNECT_FLAG) \in ServerPdu
  /\ ChatHeaderPacket(HANDLE_FINISH_FLAG) \in ServerPdu
  /\ \A name \in LegalNames :
       /\ HandleOnlyPacket(HANDLE_ERR_FLAG, name) \in ServerPdu
       /\ HandleOnlyPacket(HANDLE_ITEM_FLAG, name) \in ServerPdu
  /\ \A n \in Nat : ListCountPacket(n) \in ServerPdu
BY DEF ServerPdu, AnswerPdu, ChatHeaderPacket, HandleOnlyPacket, ListCountPacket

LEMMA TypedImplies == Typed => TypeOK
<1> SUFFICES ASSUME Typed PROVE TypeOK
  OBVIOUS
<1>1. TextPdu \subseteq Pdus
  <2>1. Seq(LegalNames) \subseteq Seq(Names)
    BY SeqMonotonic DEF Names
  <2> QED BY <2>1 DEF TextPdu, Pdus, Texts, TextFlags
<1>2. LinePdu \subseteq Pdus /\ ClientPdu \subseteq Pdus
  BY <1>1 DEF LinePdu, ClientPdu, Pdus, Names, HANDLE_LIST_FLAG, INIT_CONNECT_FLAG
<1>3. AnswerPdu \subseteq Pdus
  BY DEF AnswerPdu, Pdus, Names, GOOD_CONNECT_FLAG, BAD_CONNECT_FLAG,
         HANDLE_FINISH_FLAG, HANDLE_ERR_FLAG, HANDLE_ITEM_FLAG, HANDLE_LIST_RESP_FLAG
<1>4. ServerPdu \subseteq Pdus /\ Sends \subseteq [sock : Fds, pdu : Pdus]
  BY <1>1, <1>3 DEF ServerPdu, Sends
<1>5. /\ Seq(ClientPdu) \subseteq Seq(Pdus) /\ Seq(LinePdu) \subseteq Seq(Pdus)
      /\ Seq(ServerPdu) \subseteq Seq(Pdus)
      /\ Seq(Sends) \subseteq Seq([sock : Fds, pdu : Pdus])
  BY <1>2, <1>4, SeqMonotonic
<1>6. HT!TypeOK
  BY DEF Typed, ServerTyped, HTP!IInv, HTP!TypeOK, HT!TypeOK, HTP!Slots, HT!Slots,
         HTP!HandleEntry, HT!HandleEntry
<1> QED BY <1>5, <1>6 DEF TypeOK, Typed, TcpTyped, ServerTyped, ClientsTyped

------------------------------------------------------------------------------
(* Every call of the kernel keeps its types. *)

LEMMA ClientCallsTyped ==
  ASSUME TcpTyped, NEW c \in Clients,
         \/ ConnectCall(c)
         \/ \E pdu \in ClientPdu : ClientSendReturns(c, pdu)
         \/ ClientRecv(c)
         \/ ClientClose(c)
         \/ Reset(c)
  PROVE  TcpTyped'
<1>1. CASE ConnectCall(c)
  <2>1. backlog' \in Seq(Clients)
    BY <1>1 DEF ConnectCall, TcpTyped
  <2>2. /\ cliEnd' \in [Clients -> {"none", "open", "closed", "reset"}]
        /\ srvEnd' \in [Clients -> {"none", "open", "fin", "rst"}]
    BY <1>1 DEF ConnectCall, TcpTyped
  <2> QED BY <1>1, <2>1, <2>2 DEF ConnectCall, TcpTyped
<1>2. ASSUME NEW pdu \in ClientPdu, ClientSendReturns(c, pdu)
      PROVE  TcpTyped'
  <2>1. c2s' \in [Clients -> Seq(ClientPdu)]
    <3>1. Append(c2s[c], pdu) \in Seq(ClientPdu)
      BY AppendProperties DEF TcpTyped
    <3> QED BY <1>2, <3>1 DEF ClientSendReturns, TcpTyped
  <2>2. srvEnd' \in [Clients -> {"none", "open", "fin", "rst"}]
    BY <1>2 DEF ClientSendReturns, TcpTyped
  <2> QED BY <1>2, <2>1, <2>2 DEF ClientSendReturns, TcpTyped
<1>3. CASE ClientRecv(c)
  <2>1. Tail(s2c[c]) \in Seq(ServerPdu)
    BY <1>3, HeadTailProperties DEF ClientRecv, TcpTyped
  <2> QED BY <1>3, <2>1 DEF ClientRecv, TcpTyped
<1>4. CASE ClientClose(c)
  <2>1. srvEnd' \in [Clients -> {"none", "open", "fin", "rst"}]
    BY <1>4 DEF ClientClose, TcpTyped
  <2>2. cliEnd' \in [Clients -> {"none", "open", "closed", "reset"}]
    BY <1>4 DEF ClientClose, TcpTyped
  <2>3. <<>> \in Seq(ServerPdu)
    OBVIOUS
  <2>4. s2c' = s2c \/ s2c' = [s2c EXCEPT ![c] = <<>>]
    BY <1>4 DEF ClientClose
  <2>5. s2c' \in [Clients -> Seq(ServerPdu)]
    BY <2>3, <2>4 DEF TcpTyped
  <2>6. UNCHANGED <<backlog, conn, c2s>>
    BY <1>4 DEF ClientClose
  <2> QED BY <2>1, <2>2, <2>5, <2>6 DEF TcpTyped
<1>5. CASE Reset(c)
  BY <1>5 DEF Reset, TcpTyped
<1> QED BY <1>1, <1>2, <1>3, <1>4, <1>5

LEMMA ServerCallsTyped ==
  ASSUME TcpTyped,
         \/ \E fd \in Fds : AcceptCall(fd)
         \/ \E fd \in Fds : ServerRecv(fd)
         \/ \E fd \in Fds, pdu \in ServerPdu : ServerSendReturns(fd, pdu)
         \/ \E fd : ServerClose(fd)
         \/ ServerExit
  PROVE  TcpTyped'
<1>1. ASSUME NEW fd \in Fds, AcceptCall(fd)
      PROVE  TcpTyped'
  <2>1. Head(backlog) \in Clients /\ Tail(backlog) \in Seq(Clients)
    BY <1>1, HeadTailProperties DEF AcceptCall, TcpTyped
  <2> QED BY <1>1, <2>1 DEF AcceptCall, TcpTyped
<1>2. ASSUME NEW fd \in Fds, ServerRecv(fd)
      PROVE  TcpTyped'
  <2>1. conn[fd] \in Clients
    BY <1>2 DEF ServerRecv, OpenFds, TcpTyped
  <2>2. Tail(c2s[conn[fd]]) \in Seq(ClientPdu)
    BY <1>2, <2>1, HeadTailProperties DEF ServerRecv, TcpTyped
  <2> QED BY <1>2, <2>2 DEF ServerRecv, TcpTyped
<1>3. ASSUME NEW fd \in Fds, NEW pdu \in ServerPdu, ServerSendReturns(fd, pdu)
      PROVE  TcpTyped'
  <2>1. conn[fd] \in Clients
    BY <1>3 DEF ServerSendReturns, OpenFds, TcpTyped
  <2>2. Append(s2c[conn[fd]], pdu) \in Seq(ServerPdu)
    BY <2>1, AppendProperties DEF TcpTyped
  <2> QED BY <1>3, <2>2 DEF ServerSendReturns, TcpTyped
<1>4. ASSUME NEW lost, CloseServerEnds(lost)
      PROVE  /\ c2s' \in [Clients -> Seq(ClientPdu)]
             /\ s2c' \in [Clients -> Seq(ServerPdu)]
             /\ cliEnd' \in [Clients -> {"none", "open", "closed", "reset"}]
             /\ srvEnd' \in [Clients -> {"none", "open", "fin", "rst"}]
  <2>1. c2s' \in [Clients -> Seq(ClientPdu)]
    BY <1>4 DEF CloseServerEnds, TcpTyped
  <2>2. s2c' \in [Clients -> Seq(ServerPdu)]
    BY <1>4 DEF CloseServerEnds, TcpTyped
  <2>3. cliEnd' \in [Clients -> {"none", "open", "closed", "reset"}]
    BY <1>4 DEF CloseServerEnds, TcpTyped
  <2>4. srvEnd' \in [Clients -> {"none", "open", "fin", "rst"}]
    BY <1>4 DEF CloseServerEnds, TcpTyped
  <2> QED BY <2>1, <2>2, <2>3, <2>4
<1>5. ASSUME NEW fd, ServerClose(fd)
      PROVE  TcpTyped'
  BY <1>4, <1>5 DEF ServerClose, TcpTyped
<1>6. CASE ServerExit
  BY <1>4, <1>6 DEF ServerExit, TcpTyped
<1> QED BY <1>1, <1>2, <1>3, <1>5, <1>6

------------------------------------------------------------------------------
(* The handlers. *)

LEMMA InitTyped == Init => Typed
<1> SUFFICES ASSUME Init PROVE Typed
  OBVIOUS
<1>1. TcpTyped
  BY DEF Init, TcpInit, TcpTyped
<1>2. HTP!IInv
  BY SameTable, TableAssumption, HTP!InitInv DEF Init, ServerInit
<1>3. ServerTyped
  BY <1>2 DEF Init, ServerInit, ServerTyped, NoJob
<1>4. ClientsTyped
  BY CclientAssumption DEF Init, ClientInit, ClientsTyped, Stages
<1> QED BY <1>1, <1>3, <1>4 DEF Typed

\* The PDU a handler takes, and who sent it.
LEMMA ReceivedTyped ==
  ASSUME Typed, NEW fd \in Fds, NEW flag, Received(fd, flag)
  PROVE  /\ conn[fd] \in Clients
         /\ c2s[conn[fd]] # <<>>
         /\ Pdu(fd) \in ClientPdu /\ Pdu(fd).flag = flag
         /\ Pdu(fd) = c2s[conn[fd]][1]
         /\ alive /\ job = NoJob
<1>1. conn[fd] \in Clients
  BY DEF Received, ServerRecv, OpenFds, Typed, TcpTyped
<1>2. c2s[conn[fd]] \in Seq(ClientPdu) /\ c2s[conn[fd]] # <<>>
  BY <1>1 DEF Received, ServerRecv, Typed, TcpTyped
<1>3. Pdu(fd) \in ClientPdu /\ Pdu(fd) = c2s[conn[fd]][1]
  BY <1>2, HeadTailProperties DEF Pdu
<1> QED BY <1>1, <1>2, <1>3 DEF Received, Pdu, Polling

\* Every valid entry of the table is for a descriptor.
LEMMA TableTyped ==
  ASSUME Typed
  PROVE  /\ HT!ValidSlots \in SUBSET Nat /\ IsFiniteSet(HT!ValidSlots)
         /\ \A i \in HT!ValidSlots : SocketAt(i) \in Fds /\ HandleAt(i) \in LegalNames
         /\ tableCount \in Nat
<1>1. HTP!TypeOK /\ HTP!ValidLegal
  BY DEF Typed, ServerTyped, HTP!IInv
<1>2. HT!ValidSlots \in SUBSET Nat
  BY <1>1 DEF HTP!TypeOK, HT!ValidSlots, HT!Slots
<1>3. IsFiniteSet(HT!ValidSlots)
  <2>1. HTP!IsFiniteSet(HTP!ValidSlots)
    BY <1>1, TableAssumption, HTP!ValidSlotsFinite
  <2> QED BY <2>1, SameTable DEF HTP!IsFiniteSet, IsFiniteSet
<1> QED BY <1>1, <1>2, <1>3, SameTable DEF HTP!TypeOK, HTP!ValidLegal, SocketAt, HandleAt

\* lookupSocket's answer is a descriptor, if the handle is there.
LEMMA LookupTyped ==
  ASSUME Typed, NEW name, HT!LookupSocket(name) # -1
  PROVE  \E i \in HT!ValidSlots : HandleAt(i) = name /\ HT!LookupSocket(name) = SocketAt(i)
<1>1. /\ HT!SlotsOf(name) # {}
      /\ HT!LookupSocket(name) = handleTable[HT!Min(HT!SlotsOf(name))].socketNumber
  BY DEF HT!LookupSocket
<1>2. HT!SlotsOf(name) \in SUBSET Nat
  BY TableTyped DEF HT!SlotsOf
<1>3. HT!Min(HT!SlotsOf(name)) = Min(HT!SlotsOf(name))
  BY DEF HT!Min, Min
<1>4. Min(HT!SlotsOf(name)) \in HT!SlotsOf(name)
  BY <1>1, <1>2, MinInSet
<1> QED BY <1>1, <1>3, <1>4 DEF HT!SlotsOf, SocketAt, HandleAt

\* A handler's loop leaves one send per destination, and each is one that
\* ForwardTo makes.
LEMMA ForwardTyped ==
  ASSUME Typed, NEW fd \in Fds, NEW pdu \in TextPdu,
         pdu.flag \in {UNICAST_FLAG, MULTICAST_FLAG}
  PROVE  /\ Forward(fd, pdu) \in Seq(Sends)
         /\ Len(Forward(fd, pdu)) = Len(pdu.dsts)
         /\ \A k \in 1 .. Len(pdu.dsts) :
              /\ pdu.dsts[k] \in LegalNames
              /\ Forward(fd, pdu)[k] = ForwardTo(fd, pdu, pdu.dsts[k])
<1>1. pdu.dsts \in Seq(LegalNames) /\ pdu \in ServerPdu
  BY PduKinds
<1>2. DOMAIN pdu.dsts = 1 .. Len(pdu.dsts) /\ Len(pdu.dsts) \in Nat
  BY <1>1, LenProperties
<1>3. \A k \in 1 .. Len(pdu.dsts) : pdu.dsts[k] \in LegalNames
  BY <1>1, ElementOfSeq
<1>4. \A name \in LegalNames : ForwardTo(fd, pdu, name) \in Sends
  BY <1>1, LookupTyped, TableTyped, AnswersTyped DEF ForwardTo, Send, Sends
<1>5. Forward(fd, pdu) \in Seq(Sends) /\ Len(Forward(fd, pdu)) = Len(pdu.dsts)
  BY <1>2, <1>3, <1>4 DEF Forward
<1> QED BY <1>2, <1>3, <1>5 DEF Forward

LEMMA BroadcastTyped ==
  ASSUME Typed, NEW fd \in Fds, NEW pdu \in ServerPdu
  PROVE  LET others == {i \in HT!ValidSlots : SocketAt(i) # fd}
         IN /\ BroadcastSends(fd, pdu) \in Seq(Sends)
            /\ Len(BroadcastSends(fd, pdu)) = Cardinality(others)
            /\ Cardinality(others) \in Nat
            /\ \A k \in 1 .. Cardinality(others) :
                 /\ InOrder(others)[k] \in others
                 /\ BroadcastSends(fd, pdu)[k] = Send(SocketAt(InOrder(others)[k]), pdu)
<1> DEFINE others == {i \in HT!ValidSlots : SocketAt(i) # fd}
<1>1. others \in SUBSET HT!ValidSlots
  OBVIOUS
<1>2. BroadcastSends(fd, pdu)
        = [k \in DOMAIN InOrder(others) |-> Send(SocketAt(InOrder(others)[k]), pdu)]
  BY DEF BroadcastSends
<1> HIDE DEF others
<1>3. others \in SUBSET Nat /\ IsFiniteSet(others)
  BY <1>1, TableTyped, FS_Subset
<1>4. Cardinality(others) \in Nat /\ InOrder(others) \in [1 .. Cardinality(others) -> others]
  BY <1>3, InOrderEnumerates
<1>5. \A i \in others : Send(SocketAt(i), pdu) \in Sends
  BY <1>1, TableTyped DEF Send, Sends
<1>6. DOMAIN InOrder(others) = 1 .. Cardinality(others)
  BY <1>4
<1>7. \A k \in 1 .. Cardinality(others) :
        InOrder(others)[k] \in others
  BY <1>4
<1>8. \A k \in 1 .. Cardinality(others) :
        BroadcastSends(fd, pdu)[k] = Send(SocketAt(InOrder(others)[k]), pdu)
  BY <1>2, <1>6
<1>9. BroadcastSends(fd, pdu) \in [1 .. Cardinality(others) -> Sends]
  BY <1>2, <1>5, <1>6, <1>7
<1>10. /\ BroadcastSends(fd, pdu) \in Seq(Sends)
       /\ Len(BroadcastSends(fd, pdu)) = Cardinality(others)
  BY <1>4, <1>9
<1> QED BY <1>4, <1>7, <1>8, <1>10 DEF others

LEMMA WalkTyped ==
  ASSUME Typed
  PROVE  /\ Walk = InOrder(HT!ValidSlots)
         /\ Cardinality(HT!ValidSlots) \in Nat
         /\ Walk \in [1 .. Cardinality(HT!ValidSlots) -> HT!ValidSlots]
<1>1. {i \in HT!Slots : HT!GetHandleAtIndex(i) # {}} = HT!ValidSlots
  BY DEF HT!GetHandleAtIndex, HT!ValidSlots
<1> QED BY <1>1, TableTyped, InOrderEnumerates DEF Walk

LEMMA HandleListTyped ==
  ASSUME Typed, NEW fd \in Fds
  PROVE  HandleListSends(fd) \in Seq(Sends)
<1> DEFINE first == <<Send(fd, ListCountPacket(tableCount))>>
           items == [i \in DOMAIN Walk |->
                       Send(fd, HandleOnlyPacket(HANDLE_ITEM_FLAG, HandleAt(Walk[i])))]
           last == <<Send(fd, ChatHeaderPacket(HANDLE_FINISH_FLAG))>>
<1>1. first \in Seq(Sends) /\ last \in Seq(Sends)
  BY TableTyped, AnswersTyped DEF Send, Sends
<1>2. \A i \in HT!ValidSlots :
        Send(fd, HandleOnlyPacket(HANDLE_ITEM_FLAG, HandleAt(i))) \in Sends
  BY TableTyped, AnswersTyped DEF Send, Sends
<1>3. items \in Seq(Sends)
  BY <1>2, WalkTyped
<1>4. HandleListSends(fd) = first \o items \o last
  BY DEF HandleListSends
<1> HIDE DEF first, items, last
<1> QED BY <1>1, <1>3, <1>4, ConcatProperties

LEMMA JobTyped ==
  ASSUME NEW fd \in Fds \cup {0}, NEW todo \in Seq(Sends), NEW closing \in BOOLEAN
  PROVE  Job(fd, todo, closing) \in [fd : Fds \cup {0}, todo : Seq(Sends), closing : BOOLEAN]
<1>1. <<>> \in Seq(Sends)
  OBVIOUS
<1> QED BY <1>1 DEF Job, NoJob

\* The steps of the server that change no descriptor.
LEMMA HandlersTyped ==
  ASSUME Typed, NEW fd \in Fds,
         \/ FlagConnect(fd) \/ FlagBroadcast(fd) \/ FlagUnicast(fd)
         \/ FlagMulticast(fd) \/ FlagHandleList(fd)
  PROVE  TcpTyped' /\ ServerTyped'
<1>1. ASSUME NEW flag, Received(fd, flag)
      PROVE  TcpTyped' /\ Pdu(fd) \in ClientPdu /\ Pdu(fd).flag = flag
  BY <1>1, ReceivedTyped, ServerCallsTyped DEF Received, Typed
<1>2. /\ alive' = alive /\ polled' = polled
      /\ alive \in BOOLEAN /\ polled \subseteq Fds /\ HTP!IInv
  BY DEF FlagConnect, FlagBroadcast, FlagUnicast, FlagMulticast, FlagHandleList,
         Typed, ServerTyped
<1>3. CASE FlagConnect(fd)
  <2>1. TcpTyped'
    BY <1>1, <1>3 DEF FlagConnect
  <2>2. PICK f \in {GOOD_CONNECT_FLAG, BAD_CONNECT_FLAG}, closing \in BOOLEAN :
          job' = Job(fd, <<Send(fd, ChatHeaderPacket(f))>>, closing)
    BY <1>3 DEF FlagConnect
  <2>3. Send(fd, ChatHeaderPacket(f)) \in Sends
    BY AnswersTyped DEF Send, Sends
  <2>4. <<Send(fd, ChatHeaderPacket(f))>> \in Seq(Sends)
    BY <2>3
  <2>5. job' \in [fd : Fds \cup {0}, todo : Seq(Sends), closing : BOOLEAN]
    BY <2>2, <2>4, JobTyped
  <2>6. HTP!IInv'
    <3>1. HT!RejectHandle(Pdu(fd).handle) => UNCHANGED tableVars
      BY DEF HT!RejectHandle, HT!vars, tableVars
    <3>2. \/ HT!AddHandle(Pdu(fd).handle, fd)
          \/ UNCHANGED tableVars
      BY <1>3, <3>1 DEF FlagConnect
    <3> QED BY <1>2, <3>2, TableInv
  <2> QED BY <1>2, <2>1, <2>5, <2>6 DEF ServerTyped
<1>4. CASE FlagBroadcast(fd)
  <2>1. TcpTyped' /\ Pdu(fd) \in TextPdu
    BY <1>1, <1>4, PduKinds DEF FlagBroadcast, TextFlags
  <2>2. BroadcastSends(fd, Pdu(fd)) \in Seq(Sends)
    BY <2>1, PduKinds, BroadcastTyped
  <2>3. job' \in [fd : Fds \cup {0}, todo : Seq(Sends), closing : BOOLEAN]
    BY <1>4, <2>2, JobTyped DEF FlagBroadcast
  <2>4. HTP!IInv'
    BY <1>2, <1>4, TableInv DEF FlagBroadcast
  <2> QED BY <1>2, <2>1, <2>3, <2>4 DEF ServerTyped
<1>5. CASE FlagUnicast(fd) \/ FlagMulticast(fd)
  <2>1. /\ TcpTyped' /\ Pdu(fd) \in TextPdu
        /\ Pdu(fd).flag \in {UNICAST_FLAG, MULTICAST_FLAG}
    BY <1>1, <1>5, PduKinds DEF FlagUnicast, FlagMulticast, TextFlags
  <2>2. Forward(fd, Pdu(fd)) \in Seq(Sends)
    BY <2>1, ForwardTyped
  <2>3. job' \in [fd : Fds \cup {0}, todo : Seq(Sends), closing : BOOLEAN]
    BY <1>5, <2>2, JobTyped DEF FlagUnicast, FlagMulticast
  <2>4. HTP!IInv'
    BY <1>2, <1>5, TableInv DEF FlagUnicast, FlagMulticast
  <2> QED BY <1>2, <2>1, <2>3, <2>4 DEF ServerTyped
<1>6. CASE FlagHandleList(fd)
  <2>1. TcpTyped'
    BY <1>1, <1>6 DEF FlagHandleList
  <2>2. job' \in [fd : Fds \cup {0}, todo : Seq(Sends), closing : BOOLEAN]
    BY <1>6, HandleListTyped, JobTyped DEF FlagHandleList
  <2>3. HTP!IInv'
    BY <1>2, <1>6, TableInv DEF FlagHandleList
  <2> QED BY <1>2, <2>1, <2>2, <2>3 DEF ServerTyped
<1> QED BY <1>3, <1>4, <1>5, <1>6

\* The send at the head of a job.
LEMMA HeadTyped ==
  ASSUME Typed, job.todo # <<>>
  PROVE  /\ Head(job.todo) \in Sends /\ Tail(job.todo) \in Seq(Sends)
         /\ Head(job.todo).sock \in Fds /\ Head(job.todo).pdu \in ServerPdu
         /\ job.fd \in Fds \cup {0} /\ job.closing \in BOOLEAN
<1>1. job.todo \in Seq(Sends) /\ job.fd \in Fds \cup {0} /\ job.closing \in BOOLEAN
  BY DEF Typed, ServerTyped
<1>2. Head(job.todo) \in Sends /\ Tail(job.todo) \in Seq(Sends)
  BY <1>1, HeadTailProperties
<1> QED BY <1>1, <1>2 DEF Sends

LEMMA ServerNextTyped ==
  ASSUME Typed, ServerNext
  PROVE  TcpTyped' /\ ServerTyped'
<1>1. /\ TcpTyped /\ alive \in BOOLEAN /\ polled \subseteq Fds /\ HTP!IInv
      /\ job \in [fd : Fds \cup {0}, todo : Seq(Sends), closing : BOOLEAN]
  BY DEF Typed, ServerTyped
<1>2. NoJob \in [fd : Fds \cup {0}, todo : Seq(Sends), closing : BOOLEAN]
  <2>1. <<>> \in Seq(Sends)
    OBVIOUS
  <2> QED BY <2>1 DEF NoJob
<1>3. UNCHANGED tableVars => HTP!IInv'
  BY <1>1, TableInv
<1>4. CASE AcceptExits \/ SendKillsServer
  <2>1. ServerDies
    BY <1>4 DEF AcceptExits, SendKillsServer
  <2> QED BY <1>1, <1>2, <1>3, <2>1, ServerCallsTyped DEF ServerDies, ServerTyped
<1>5. CASE SendNext
  <2>1. TcpTyped'
    BY <1>1, <1>5, HeadTyped, ServerCallsTyped DEF SendNext
  <2>2. job' \in [fd : Fds \cup {0}, todo : Seq(Sends), closing : BOOLEAN]
    BY <1>5, HeadTyped, JobTyped DEF SendNext
  <2> QED BY <1>1, <1>3, <1>5, <2>1, <2>2 DEF SendNext, ServerTyped
<1>6. CASE CloseRejected
  <2>1. TcpTyped'
    BY <1>1, <1>6, ServerCallsTyped DEF CloseRejected
  <2> QED BY <1>1, <1>2, <1>3, <1>6, <2>1 DEF CloseRejected, ServerTyped
<1>7. ASSUME NEW fd \in Fds, AddNewClient(fd)
      PROVE  TcpTyped' /\ ServerTyped'
  BY <1>1, <1>3, <1>7, ServerCallsTyped DEF AddNewClient, ServerTyped
<1>8. ASSUME NEW fd \in Fds, Disconnect(fd)
      PROVE  TcpTyped' /\ ServerTyped'
  <2>1. TcpTyped'
    BY <1>1, <1>8, ServerCallsTyped DEF Disconnect
  <2>2. HTP!IInv'
    BY <1>1, <1>8, TableInv DEF Disconnect
  <2> QED BY <1>1, <1>8, <2>1, <2>2 DEF Disconnect, ServerTyped
<1> QED BY <1>4, <1>5, <1>6, <1>7, <1>8, HandlersTyped DEF ServerNext

------------------------------------------------------------------------------
(* The clients. *)

LEMMA ExitTyped ==
  ASSUME Typed, NEW c \in Clients, Exit(c)
  PROVE  TcpTyped' /\ ClientsTyped'
<1>1. TcpTyped'
  BY ClientCallsTyped DEF Exit, Typed
<1>2. outq' \in [Clients -> Seq(LinePdu)]
  <2>1. <<>> \in Seq(LinePdu)
    OBVIOUS
  <2> QED BY <2>1 DEF Exit, Typed, ClientsTyped
<1>3. pc' \in [Clients -> Stages] /\ sent' = sent
  BY DEF Exit, Goto, Typed, ClientsTyped, Stages
<1> QED BY <1>1, <1>2, <1>3 DEF Typed, ClientsTyped

\* A step that moves pc and leaves the line alone.
LEMMA GotoTyped ==
  ASSUME Typed, NEW c \in Clients, NEW stage \in Stages,
         Goto(c, stage) \/ UNCHANGED pc, UNCHANGED <<outq, sent>>
  PROVE  ClientsTyped'
BY DEF Goto, Typed, ClientsTyped

LEMMA UserTyped ==
  ASSUME Typed, NEW c \in Clients, User(c)
  PROVE  TcpTyped' /\ ClientsTyped'
<1>1. ASSUME NEW line \in Seq(LinePdu), TakeLine(c, line)
      PROVE  TcpTyped' /\ ClientsTyped'
  <2>1. TcpTyped' /\ pc' \in [Clients -> Stages]
    BY <1>1 DEF TakeLine, Goto, Stages, tcpVars, Typed, TcpTyped, ClientsTyped
  <2>2. outq' \in [Clients -> Seq(LinePdu)]
    BY <1>1 DEF TakeLine, Typed, ClientsTyped
  <2>3. Len(line) \in Nat /\ sent[c] \in Nat
    BY LenProperties DEF Typed, ClientsTyped
  <2>4. /\ sent' = [sent EXCEPT ![c] = sent[c] + Len(line)]
        /\ sent[c] + Len(line) <= Budget[c]
    BY <1>1 DEF TakeLine
  <2>5. sent' \in [Clients -> Nat] /\ \A d \in Clients : sent'[d] <= Budget[d]
    BY <2>3, <2>4 DEF Typed, ClientsTyped
  <2> QED BY <2>1, <2>2, <2>5 DEF Typed, ClientsTyped
<1>2. myHandle(c) \in Names
  BY CclientAssumption DEF myHandle
<1>3. \A i \in Nat : Piece(c, i) \in Texts
  BY DEF Piece, Texts, Typed, ClientsTyped
<1>4. CASE SendBroadcast(c)
  <2>1. PICK chunks \in 1 .. MaxChunks :
          TakeLine(c, [i \in 1 .. chunks |->
            BroadcastPacket(myHandle(c), Piece(c, i))])
    BY <1>4 DEF SendBroadcast
  <2>2. \A i \in 1 .. chunks : BroadcastPacket(myHandle(c), Piece(c, i)) \in LinePdu
    BY <1>2, <1>3 DEF BroadcastPacket, LinePdu, TextPdu
  <2>3. [i \in 1 .. chunks |-> BroadcastPacket(myHandle(c), Piece(c, i))]
          \in Seq(LinePdu)
    BY <2>2
  <2> QED BY <1>1, <2>1, <2>3
<1>5. CASE SendUnicast(c)
  <2>1. PICK chunks \in 1 .. MaxChunks, dst \in LegalNames :
          TakeLine(c, [i \in 1 .. chunks |->
            MessagePacket(UNICAST_FLAG, myHandle(c), <<dst>>, Piece(c, i))])
    BY <1>5 DEF SendUnicast
  <2>2. <<dst>> \in Seq(LegalNames)
    OBVIOUS
  <2>3. \A i \in 1 .. chunks :
          MessagePacket(UNICAST_FLAG, myHandle(c), <<dst>>, Piece(c, i)) \in LinePdu
    BY <1>2, <1>3, <2>2 DEF MessagePacket, LinePdu, TextPdu
  <2>4. [i \in 1 .. chunks |->
           MessagePacket(UNICAST_FLAG, myHandle(c), <<dst>>, Piece(c, i))]
          \in Seq(LinePdu)
    BY <2>3
  <2> QED BY <1>1, <2>1, <2>4
<1>6. CASE SendMulticast(c)
  <2>1. PICK chunks \in 1 .. MaxChunks, numOfDst \in HANDLES_MIN .. MaxDsts :
          \E dsts \in [1 .. numOfDst -> LegalNames] :
            TakeLine(c, [i \in 1 .. chunks |->
              MessagePacket(MULTICAST_FLAG, myHandle(c), dsts, Piece(c, i))])
    BY <1>6 DEF SendMulticast
  <2> PICK dsts \in [1 .. numOfDst -> LegalNames] :
          TakeLine(c, [i \in 1 .. chunks |->
            MessagePacket(MULTICAST_FLAG, myHandle(c), dsts, Piece(c, i))])
    BY <2>1
  <2>2. dsts \in Seq(LegalNames)
    BY CclientAssumption DEF HANDLES_MIN
  <2>3. \A i \in 1 .. chunks :
          MessagePacket(MULTICAST_FLAG, myHandle(c), dsts, Piece(c, i)) \in LinePdu
    BY <1>2, <1>3, <2>2 DEF MessagePacket, LinePdu, TextPdu
  <2>4. [i \in 1 .. chunks |->
           MessagePacket(MULTICAST_FLAG, myHandle(c), dsts, Piece(c, i))]
          \in Seq(LinePdu)
    BY <2>3
  <2> QED BY <1>1, <2>1, <2>4
<1>7. CASE SendHandleList(c)
  <2>1. <<ChatHeaderPacket(HANDLE_LIST_FLAG)>> \in Seq(LinePdu)
    BY DEF ChatHeaderPacket, LinePdu
  <2> QED BY <1>1, <1>7, <2>1 DEF SendHandleList
<1>8. CASE Leave(c)
  BY <1>8, ExitTyped DEF Leave
<1>9. CASE ReadFromStdin(c) \/ IgnoreLine(c)
  <2>1. /\ Goto(c, "line") \/ Goto(c, "chat")
        /\ UNCHANGED <<outq, sent>> /\ UNCHANGED tcpVars
    BY <1>9 DEF ReadFromStdin, IgnoreLine
  <2>2. TcpTyped'
    BY <2>1 DEF tcpVars, Typed, TcpTyped
  <2>3. "line" \in Stages /\ "chat" \in Stages
    BY DEF Stages
  <2> QED BY <2>1, <2>2, <2>3, GotoTyped
<1> QED BY <1>4, <1>5, <1>6, <1>7, <1>8, <1>9 DEF User

LEMMA ProgramTyped ==
  ASSUME Typed, NEW c \in Clients, Program(c)
  PROVE  TcpTyped' /\ ClientsTyped'
<1>1. CASE Exit(c)
  BY <1>1, ExitTyped
<1>2. TcpTyped /\ "wait" \in Stages /\ "chat" \in Stages /\ "list" \in Stages
  BY DEF Typed, Stages
<1>3. ASSUME ClientRecv(c), NEW stage \in Stages,
             Goto(c, stage) \/ UNCHANGED pc, UNCHANGED <<outq, sent>>
      PROVE  TcpTyped' /\ ClientsTyped'
  BY <1>2, <1>3, ClientCallsTyped, GotoTyped
<1>4. CASE InitConnectHandle(c) /\ ~Exit(c)
  <2>1. /\ ClientSendReturns(c, HandleOnlyPacket(INIT_CONNECT_FLAG, myHandle(c)))
        /\ myHandle(c) \in LegalNames
        /\ Goto(c, "wait") /\ UNCHANGED <<outq, sent>>
    BY <1>4 DEF InitConnectHandle
  <2>2. HandleOnlyPacket(INIT_CONNECT_FLAG, myHandle(c)) \in ClientPdu
    BY <2>1 DEF HandleOnlyPacket, ClientPdu
  <2> QED BY <1>2, <2>1, <2>2, ClientCallsTyped, GotoTyped
<1>5. CASE RecvConnectAnswer(c) /\ ~Exit(c)
  BY <1>2, <1>3, <1>5 DEF RecvConnectAnswer
<1>6. CASE SendPDU(c) /\ ~Exit(c)
  <2>1. /\ ClientSendReturns(c, Head(outq[c]))
        /\ outq[c] # <<>> /\ outq' = [outq EXCEPT ![c] = Tail(@)]
        /\ UNCHANGED <<pc, sent>>
    BY <1>6 DEF SendPDU
  <2>2. outq[c] \in Seq(LinePdu)
    BY DEF Typed, ClientsTyped
  <2>3. Head(outq[c]) \in LinePdu /\ Tail(outq[c]) \in Seq(LinePdu)
    BY <2>1, <2>2, HeadTailProperties
  <2>4. TcpTyped'
    BY <1>2, <2>1, <2>3, PduKinds, ClientCallsTyped
  <2>5. outq' \in [Clients -> Seq(LinePdu)]
    BY <2>1, <2>3 DEF Typed, ClientsTyped
  <2> QED BY <2>1, <2>4, <2>5 DEF Typed, ClientsTyped
<1>7. CASE ProcessMsgFromServer(c) /\ ~Exit(c)
  BY <1>2, <1>3, <1>7 DEF ProcessMsgFromServer
<1>8. CASE FlagListBegin(c) /\ ~Exit(c)
  BY <1>2, <1>3, <1>8 DEF FlagListBegin
<1> QED BY <1>1, <1>4, <1>5, <1>6, <1>7, <1>8 DEF Program

LEMMA ConnectTyped ==
  ASSUME Typed, NEW c \in Clients, Connect(c, alive)
  PROVE  TcpTyped' /\ ClientsTyped'
<1>1. ConnectCall(c) \/ UNCHANGED tcpVars
  BY DEF Connect, ResolveFails
<1>2. TcpTyped'
  <2>1. CASE UNCHANGED tcpVars
    BY <2>1 DEF tcpVars, Typed, TcpTyped
  <2> QED BY <1>1, <2>1, ClientCallsTyped DEF Typed
<1>3. \E stage \in Stages : Goto(c, stage)
  BY DEF Connect, ResolveFails, Stages
<1> QED BY <1>2, <1>3, GotoTyped DEF Connect

------------------------------------------------------------------------------
(* The system. *)

LEMMA NextTyped == Typed /\ [Next]_vars => Typed'
<1> SUFFICES ASSUME Typed, [Next]_vars PROVE Typed'
  OBVIOUS
<1>1. UNCHANGED clientVars => ClientsTyped'
  BY DEF clientVars, Typed, ClientsTyped
<1>2. UNCHANGED serverVars => ServerTyped'
  <2>1. UNCHANGED serverVars => HTP!IInv'
    BY TableInv DEF serverVars, Typed, ServerTyped
  <2> QED BY <2>1 DEF serverVars, Typed, ServerTyped
<1>3. CASE ServerStep
  BY <1>1, <1>3, ServerNextTyped DEF ServerStep, Typed
<1>4. ASSUME NEW c \in Clients, ConnectStep(c)
      PROVE  Typed'
  BY <1>2, <1>4, ConnectTyped DEF ConnectStep, Typed
<1>5. ASSUME NEW c \in Clients, UserStep(c)
      PROVE  Typed'
  BY <1>2, <1>5, UserTyped DEF UserStep, Typed
<1>6. ASSUME NEW c \in Clients, ProgramStep(c)
      PROVE  Typed'
  BY <1>2, <1>6, ProgramTyped DEF ProgramStep, Typed
<1>7. ASSUME NEW c \in Clients, NetworkStep(c)
      PROVE  Typed'
  BY <1>1, <1>2, <1>7, ClientCallsTyped DEF NetworkStep, Typed
<1>8. CASE UNCHANGED vars
  <2>1. TcpTyped'
    BY <1>8 DEF vars, tcpVars, Typed, TcpTyped
  <2> QED BY <1>1, <1>2, <1>8, <2>1 DEF vars, Typed
<1> QED BY <1>3, <1>4, <1>5, <1>6, <1>7, <1>8 DEF Next

\* What is in each socket, queue and job is always a PDU its builder could
\* have made there.
THEOREM PdusTyped == Spec => []Typed
BY InitTyped, NextTyped, PTL DEF Spec

\* Every step of the server, of a client and of the network leaves the system
\* well-typed; the table's counter does not go below zero and no client exceeds
\* its budget.
THEOREM TypeCorrect == Spec => []TypeOK
BY PdusTyped, TypedImplies, PTL

------------------------------------------------------------------------------
(* Entries, descriptors and clients. *)

BoundFds == {entry[2] : entry \in HT!Bindings}

Registered(c) == \E fd \in BoundFds : conn[fd] = c

\* The valid entries, by what they say: NoStaleEntry over pairs.
EntriesLive ==
  \A entry \in HT!Bindings :
    entry[2] \in OpenFds /\ ArgvHandle[conn[entry[2]]] = entry[1]

OneConnection ==
  /\ \A fd, g \in OpenFds : conn[fd] = conn[g] => fd = g
  /\ \A i, j \in DOMAIN backlog : backlog[i] = backlog[j] => i = j
  /\ \A i \in DOMAIN backlog : \A fd \in Fds : conn[fd] # backlog[i]

\* The server has neither let c in nor decided to turn it away.
Unheard(c) ==
  \A fd \in Fds : conn[fd] = c => fd \notin BoundFds /\ ~(job.closing /\ job.fd = fd)

Handshake ==
  \A c \in Clients :
    /\ pc[c] = "start" => /\ \A fd \in Fds : conn[fd] # c
                          /\ \A i \in DOMAIN backlog : backlog[i] # c
    /\ pc[c] \in {"start", "connected"} => c2s[c] = <<>> /\ Unheard(c)
    /\ \A i \in DOMAIN c2s[c] :
         c2s[c][i].flag = INIT_CONNECT_FLAG => i = 1 /\ Unheard(c)

\* A client's PDUs carry its own name and number its own texts.
Honest(c, pdu) ==
  /\ pdu.flag = INIT_CONNECT_FLAG => pdu.handle = myHandle(c)
  /\ pdu.flag \in TextFlags => pdu.text.by = c

OwnPdus ==
  \A c \in Clients :
    /\ \A i \in DOMAIN c2s[c] : Honest(c, c2s[c][i])
    /\ \A i \in DOMAIN outq[c] : Honest(c, outq[c][i])

\* A PDU that may be given to c.
ForClient(c, pdu) ==
  /\ pdu.flag = BROADCAST_FLAG => pdu.text.by # c
  /\ pdu.flag \in {UNICAST_FLAG, MULTICAST_FLAG} =>
       \E k \in DOMAIN pdu.dsts : pdu.dsts[k] = myHandle(c)

\* A send a handler may make, with the table and the descriptors as they are.
GoodSend(s) ==
  /\ s.sock \in OpenFds
  /\ ForClient(conn[s.sock], s.pdu)
  /\ s.pdu.flag = GOOD_CONNECT_FLAG => s.sock \in BoundFds

JobGood ==
  /\ job.closing => job.fd \in OpenFds \ BoundFds
  /\ \A i \in DOMAIN job.todo : GoodSend(job.todo[i])

Admitted ==
  \A c \in Clients :
    \/ pc[c] = "gone"
    \/ pc[c] \notin {"chat", "line", "list"} /\ \A i \in DOMAIN s2c[c] : s2c[c][i].flag # GOOD_CONNECT_FLAG
    \/ Registered(c)

ClosedAreGone ==
  \A c \in Clients : cliEnd[c] \in {"closed", "reset"} => pc[c] = "gone"

LineInChat == \A c \in Clients : outq[c] # <<>> => pc[c] = "chat"

PollSetOpen == polled = OpenFds

Live ==
  /\ PollSetOpen /\ OneConnection /\ Handshake /\ OwnPdus
  /\ EntriesLive /\ JobGood /\ Admitted /\ ClosedAreGone /\ LineInChat

Delivered == \A c \in Clients : \A i \in DOMAIN s2c[c] : ForClient(c, s2c[c][i])

IInv == /\ Typed
        /\ alive => Live
        /\ ~alive => job = NoJob
        /\ Delivered

------------------------------------------------------------------------------
(* The table. *)

LEMMA SameBindings ==
  ASSUME Typed
  PROVE  /\ HTP!Bindings = HT!Bindings
         /\ HT!Bindings = {<<HandleAt(i), SocketAt(i)>> : i \in HT!ValidSlots}
         /\ HT!Bindings \subseteq LegalNames \X Fds
         /\ BoundFds \subseteq Fds
<1>1. HTP!Bindings = HT!Bindings
  BY SameTable DEF HTP!Bindings, HT!Bindings, HTP!GetHandleAtIndex, HT!GetHandleAtIndex
<1>2. HT!Bindings = {<<HandleAt(i), SocketAt(i)>> : i \in HT!ValidSlots}
  BY DEF HT!Bindings, HT!GetHandleAtIndex, HT!ValidSlots, HandleAt, SocketAt
<1>3. HT!Bindings \subseteq LegalNames \X Fds
  BY <1>2, TableTyped
<1> QED BY <1>1, <1>2, <1>3 DEF BoundFds

\* What the calls of the table do to its bindings.
LEMMA BindingsChange ==
  ASSUME Typed
  PROVE  /\ \A name : \A fd \in Fds : HT!AddHandle(name, fd) =>
              /\ name \in LegalNames
              /\ \A entry \in HT!Bindings : entry[1] # name
              /\ HT!Bindings' = HT!Bindings \cup {<<name, fd>>}
         /\ \A fd \in Fds : HT!RemoveHandle(fd) =>
              HT!Bindings' = {entry \in HT!Bindings : entry[2] # fd}
         /\ UNCHANGED tableVars => HT!Bindings' = HT!Bindings
<1>1. HTP!IInv /\ HTP!Bindings = HT!Bindings
  BY SameBindings DEF Typed, ServerTyped
<1>2. HTP!Bindings' = HT!Bindings'
  BY DEF HTP!Bindings, HT!Bindings, HTP!GetHandleAtIndex, HT!GetHandleAtIndex,
         HTP!Slots, HT!Slots, HTP!ValidSlots, HT!ValidSlots
<1>3. ASSUME NEW name, NEW fd \in Fds, HT!AddHandle(name, fd)
      PROVE  /\ name \in LegalNames
             /\ \A entry \in HT!Bindings : entry[1] # name
             /\ HT!Bindings' = HT!Bindings \cup {<<name, fd>>}
  <2>1. HTP!AddHandle(name, fd)
    BY <1>3, SameTable
  <2>2. name \in Names
    BY <2>1 DEF HTP!AddHandle, HTP!Acceptable, Names
  <2>3. HTP!HM!Register(name, fd)
    BY <1>1, <2>1, <2>2, HTP!AddHandleRegisters, TableAssumption
  <2> QED BY <1>1, <1>2, <2>3 DEF HTP!HM!Register, HTP!HM!Bound
<1>4. ASSUME NEW fd \in Fds, HT!RemoveHandle(fd)
      PROVE  HT!Bindings' = {entry \in HT!Bindings : entry[2] # fd}
  <2>1. HTP!RemoveHandle(fd)
    BY <1>4, SameTable
  <2>2. HTP!HM!Release(fd)
    BY <1>1, <2>1, HTP!RemoveHandleReleases, TableAssumption
  <2> QED BY <1>1, <1>2, <2>2 DEF HTP!HM!Release
<1>5. UNCHANGED tableVars => HT!Bindings' = HT!Bindings
  BY DEF tableVars, HT!Bindings, HT!GetHandleAtIndex, HT!ValidSlots, HT!Slots
<1> QED BY <1>3, <1>4, <1>5

\* A name the table has is found.
LEMMA LookupFindsBinding ==
  ASSUME Typed, NEW name, HT!LookupSocket(name) # -1
  PROVE  <<name, HT!LookupSocket(name)>> \in HT!Bindings
BY LookupTyped, SameBindings

------------------------------------------------------------------------------
(* Queues. *)

LEMMA TailElements ==
  ASSUME NEW S, NEW s \in Seq(S), s # <<>>
  PROVE  /\ Len(Tail(s)) = Len(s) - 1
         /\ \A i \in DOMAIN Tail(s) : i + 1 \in DOMAIN s /\ Tail(s)[i] = s[i + 1]
         /\ 1 \in DOMAIN s /\ Head(s) = s[1]
OBVIOUS

LEMMA AppendElements ==
  ASSUME NEW S, NEW s \in Seq(S), NEW e
  PROVE  \A i \in DOMAIN Append(s, e) :
           \/ i \in DOMAIN s /\ Append(s, e)[i] = s[i]
           \/ i = Len(s) + 1 /\ Append(s, e)[i] = e
OBVIOUS

LEMMA ConcatElements ==
  ASSUME NEW S, NEW s \in Seq(S), NEW t \in Seq(S)
  PROVE  /\ Len(s \o t) = Len(s) + Len(t)
         /\ \A i \in DOMAIN (s \o t) :
              \/ i \in DOMAIN s /\ (s \o t)[i] = s[i]
              \/ i - Len(s) \in DOMAIN t /\ (s \o t)[i] = t[i - Len(s)]
<1>1. Len(s \o t) = Len(s) + Len(t)
  OBVIOUS
<1> SUFFICES ASSUME NEW i \in 1 .. Len(s) + Len(t)
             PROVE  \/ i \in 1 .. Len(s) /\ (s \o t)[i] = s[i]
                    \/ i - Len(s) \in 1 .. Len(t) /\ (s \o t)[i] = t[i - Len(s)]
  BY <1>1
<1>2. CASE i <= Len(s)
  BY <1>2
<1>3. CASE i > Len(s)
  BY <1>3
<1> QED BY <1>2, <1>3

------------------------------------------------------------------------------
(* What holds as long as neither the table nor the descriptors change. *)

LEMMA SameRegistry ==
  ASSUME HT!Bindings' = HT!Bindings, conn' = conn
  PROVE  /\ OpenFds' = OpenFds /\ BoundFds' = BoundFds
         /\ EntriesLive => EntriesLive'
         /\ \A c : Registered(c) <=> Registered(c)'
         /\ job' = job => \A c : Unheard(c) <=> Unheard(c)'
         /\ job' = job /\ JobGood => JobGood'
         /\ polled' = polled /\ PollSetOpen => PollSetOpen'
         /\ backlog' = backlog /\ OneConnection => OneConnection'
<1>1. OpenFds' = OpenFds /\ BoundFds' = BoundFds
  BY DEF OpenFds, BoundFds
<1>2. /\ EntriesLive => EntriesLive'
      /\ \A c : Registered(c) <=> Registered(c)'
  BY <1>1 DEF EntriesLive, Registered
<1>3. job' = job => \A c : Unheard(c) <=> Unheard(c)'
  BY <1>1 DEF Unheard
<1>4. job' = job /\ JobGood => JobGood'
  BY <1>1 DEF JobGood, GoodSend
<1>5. /\ polled' = polled /\ PollSetOpen => PollSetOpen'
      /\ backlog' = backlog /\ OneConnection => OneConnection'
  BY <1>1 DEF PollSetOpen, OneConnection
<1> QED BY <1>1, <1>2, <1>3, <1>4, <1>5

\* For the steps of clients and of the network.
LEMMA ServerStill ==
  ASSUME Typed, UNCHANGED serverVars
  PROVE  HT!Bindings' = HT!Bindings /\ job' = job /\ polled' = polled /\ alive' = alive
BY BindingsChange DEF serverVars, tableVars

------------------------------------------------------------------------------
(* The steps of clients and of the network, while the server runs. *)

LEMMA ConnectLive ==
  ASSUME Typed, Typed', Live, NEW c \in Clients, ConnectStep(c)
  PROVE  Live'
<1>1. /\ pc[c] = "start" /\ UNCHANGED <<outq, sent, conn, c2s, s2c>>
      /\ UNCHANGED serverVars
  BY DEF ConnectStep, Connect, ResolveFails, ConnectCall, tcpVars
<1>2. HT!Bindings' = HT!Bindings /\ job' = job /\ polled' = polled
  BY <1>1, ServerStill
<1>3. \E stage \in {"gone", "connected"} : Goto(c, stage)
  BY DEF ConnectStep, Connect, ResolveFails
<1>4. \A d \in Clients : \/ d # c /\ pc'[d] = pc[d]
                         \/ d = c /\ pc'[d] \in {"gone", "connected"}
  BY <1>3 DEF Goto, Typed, ClientsTyped
<1>5. \/ ConnectCall(c) /\ Goto(c, "connected")
      \/ UNCHANGED <<backlog, cliEnd>> /\ Goto(c, "gone")
  BY DEF ConnectStep, Connect, ResolveFails, tcpVars
<1>6. \A i \in DOMAIN backlog' :
        \/ i \in DOMAIN backlog /\ backlog'[i] = backlog[i]
        \/ i = Len(backlog) + 1 /\ backlog'[i] = c /\ Goto(c, "connected")
  <2>1. backlog \in Seq(Clients)
    BY DEF Typed, TcpTyped
  <2>2. \/ backlog' = Append(backlog, c) /\ Goto(c, "connected")
        \/ backlog' = backlog
    BY <1>5 DEF ConnectCall
  <2>3. CASE backlog' = Append(backlog, c) /\ Goto(c, "connected")
    BY <2>1, <2>3, AppendElements
  <2> QED BY <2>2, <2>3
<1>7. /\ \A fd \in Fds : conn[fd] # c
      /\ \A i \in DOMAIN backlog : backlog[i] # c
  BY <1>1 DEF Live, Handshake
<1>8. OneConnection'
  <2>1. OpenFds' = OpenFds
    BY <1>1, <1>2, SameRegistry
  <2> QED BY <1>1, <1>6, <1>7, <2>1 DEF OneConnection, Live
<1>9. Handshake'
  <2>1. \A d \in Clients : Unheard(d)' <=> Unheard(d)
    BY <1>1, <1>2, SameRegistry
  <2> SUFFICES ASSUME NEW d \in Clients
               PROVE  /\ pc'[d] = "start" => /\ \A fd \in Fds : conn'[fd] # d
                                             /\ \A i \in DOMAIN backlog' : backlog'[i] # d
                      /\ pc'[d] \in {"start", "connected"} => c2s'[d] = <<>> /\ Unheard(d)'
                      /\ \A i \in DOMAIN c2s'[d] :
                           c2s'[d][i].flag = INIT_CONNECT_FLAG => i = 1 /\ Unheard(d)'
    BY DEF Handshake
  <2>2. pc'[d] = "start" => d # c /\ pc[d] = "start"
    BY <1>4
  <2>3. pc'[d] \in {"start", "connected"} => pc[d] \in {"start", "connected"}
    BY <1>1, <1>4
  <2> QED BY <1>1, <1>6, <2>1, <2>2, <2>3 DEF Live, Handshake
<1>10. OwnPdus'
  BY <1>1 DEF OwnPdus, Live, Honest, myHandle
<1>11. Admitted'
  <2>1. \A d \in Clients : Registered(d)' <=> Registered(d)
    BY <1>1, <1>2, SameRegistry
  <2>2. \A d \in Clients : \/ pc'[d] = "gone"
                           \/ pc'[d] = pc[d]
                           \/ pc'[d] = "connected" /\ pc[d] = "start"
    BY <1>1, <1>4
  <2> QED BY <1>1, <2>1, <2>2 DEF Admitted, Live
<1>12. ClosedAreGone'
  <2>1. \A d \in Clients : cliEnd'[d] \in {"closed", "reset"} =>
          cliEnd[d] \in {"closed", "reset"}
    BY <1>5 DEF ConnectCall, Typed, TcpTyped
  <2> QED BY <1>1, <1>4, <2>1 DEF ClosedAreGone, Live
<1>13. LineInChat'
  BY <1>1, <1>4 DEF LineInChat, Live
<1> QED BY <1>1, <1>2, <1>8, <1>9, <1>10, <1>11, <1>12, <1>13, SameRegistry DEF Live

\* Any other step of a client, by what it does to the client's own part of the
\* state.
LEMMA OwnStepLive ==
  ASSUME Typed, Typed', Live, NEW c \in Clients,
         UNCHANGED serverVars, UNCHANGED <<conn, backlog>>,
         \A d \in Clients \ {c} :
           /\ pc'[d] = pc[d] /\ outq'[d] = outq[d] /\ cliEnd'[d] = cliEnd[d]
           /\ c2s'[d] = c2s[d] /\ s2c'[d] = s2c[d],
         pc'[c] # "start",
         pc'[c] = "connected" => pc[c] = "connected" /\ c2s'[c] = c2s[c],
         pc[c] = "gone" => pc'[c] = "gone",
         pc'[c] \in {"chat", "line", "list"} => Registered(c),
         outq'[c] # <<>> => pc'[c] = "chat",
         \A i \in DOMAIN outq'[c] : Honest(c, outq'[c][i]),
         \A i \in DOMAIN c2s'[c] :
           \/ i \in DOMAIN c2s[c] /\ c2s'[c][i] = c2s[c][i]
           \/ /\ Honest(c, c2s'[c][i])
              /\ c2s'[c][i].flag = INIT_CONNECT_FLAG => i = 1 /\ pc[c] = "connected",
         \/ pc'[c] = "gone"
         \/ /\ cliEnd'[c] = cliEnd[c]
            /\ \A i \in DOMAIN s2c'[c] : \E j \in DOMAIN s2c[c] : s2c'[c][i] = s2c[c][j]
  PROVE  Live'
<1>1. HT!Bindings' = HT!Bindings /\ job' = job /\ polled' = polled
  BY ServerStill
<1>2. /\ \A d \in Clients : Unheard(d)' <=> Unheard(d)
      /\ \A d \in Clients : Registered(d)' <=> Registered(d)
  BY <1>1, SameRegistry
<1>3. Handshake'
  <2> SUFFICES ASSUME NEW d \in Clients
               PROVE  /\ pc'[d] = "start" => /\ \A fd \in Fds : conn'[fd] # d
                                             /\ \A i \in DOMAIN backlog' : backlog'[i] # d
                      /\ pc'[d] \in {"start", "connected"} => c2s'[d] = <<>> /\ Unheard(d)'
                      /\ \A i \in DOMAIN c2s'[d] :
                           c2s'[d][i].flag = INIT_CONNECT_FLAG => i = 1 /\ Unheard(d)'
    BY DEF Handshake
  <2>1. CASE d # c
    BY <1>2, <2>1 DEF Live, Handshake
  <2>2. CASE d = c
    BY <1>2, <2>2 DEF Live, Handshake
  <2> QED BY <2>1, <2>2
<1>4. OwnPdus'
  <2>1. \A d, pdu : Honest(d, pdu)' <=> Honest(d, pdu)
    BY DEF Honest, myHandle
  <2> SUFFICES ASSUME NEW d \in Clients
               PROVE  /\ \A i \in DOMAIN c2s'[d] : Honest(d, c2s'[d][i])
                      /\ \A i \in DOMAIN outq'[d] : Honest(d, outq'[d][i])
    BY DEF OwnPdus, Honest, myHandle
  <2>2. /\ \A i \in DOMAIN c2s[d] : Honest(d, c2s[d][i])
        /\ \A i \in DOMAIN outq[d] : Honest(d, outq[d][i])
    BY DEF Live, OwnPdus
  <2>3. CASE d # c
    BY <2>2, <2>3
  <2>4. CASE d = c
    BY <2>2, <2>4
  <2> QED BY <2>3, <2>4
<1>5. Admitted'
  BY <1>2 DEF Admitted, Live
<1>6. ClosedAreGone' /\ LineInChat'
  BY DEF ClosedAreGone, LineInChat, Live
<1> QED BY <1>1, <1>3, <1>4, <1>5, <1>6, SameRegistry DEF Live

LEMMA ExitLive ==
  ASSUME Typed, Typed', Live, NEW c \in Clients, Exit(c), UNCHANGED serverVars
  PROVE  Live'
<1>1. /\ pc' = [pc EXCEPT ![c] = "gone"] /\ outq' = [outq EXCEPT ![c] = <<>>]
      /\ UNCHANGED <<conn, backlog, c2s>>
      /\ cliEnd' = cliEnd \/ cliEnd' = [cliEnd EXCEPT ![c] = "closed"]
      /\ s2c' = s2c \/ s2c' = [s2c EXCEPT ![c] = <<>>]
  BY DEF Exit, Goto, ClientClose
<1>2. pc'[c] = "gone" /\ outq'[c] = <<>>
  BY <1>1 DEF Typed, ClientsTyped
<1>3. \A d \in Clients \ {c} :
        /\ pc'[d] = pc[d] /\ outq'[d] = outq[d] /\ cliEnd'[d] = cliEnd[d]
        /\ c2s'[d] = c2s[d] /\ s2c'[d] = s2c[d]
  BY <1>1 DEF Typed, ClientsTyped, TcpTyped
<1> QED BY <1>1, <1>2, <1>3, OwnStepLive

\* The PDUs a line becomes are the client's own.
LEMMA UserLive ==
  ASSUME Typed, Typed', Live, NEW c \in Clients, UserStep(c)
  PROVE  Live'
<1>1. ASSUME NEW line, TakeLine(c, line), \A i \in DOMAIN line : Honest(c, line[i])
      PROVE  Live'
  <2>1. /\ pc[c] = "line" /\ pc' = [pc EXCEPT ![c] = "chat"]
        /\ outq' = [outq EXCEPT ![c] = line] /\ UNCHANGED tcpVars
    BY <1>1 DEF TakeLine, Goto
  <2>2. /\ pc'[c] = "chat" /\ outq'[c] = line
        /\ \A d \in Clients \ {c} : pc'[d] = pc[d] /\ outq'[d] = outq[d]
    BY <2>1 DEF Typed, ClientsTyped
  <2>3. Registered(c)
    BY <2>1 DEF Live, Admitted
  <2>4. UNCHANGED <<conn, backlog, c2s, s2c, cliEnd>> /\ UNCHANGED serverVars
    BY <2>1 DEF tcpVars, UserStep
  <2> QED BY <1>1, <2>1, <2>2, <2>3, <2>4, OwnStepLive
<1>2. \A i, dsts :
        /\ Honest(c, BroadcastPacket(myHandle(c), Piece(c, i)))
        /\ Honest(c, MessagePacket(UNICAST_FLAG, myHandle(c), dsts, Piece(c, i)))
        /\ Honest(c, MessagePacket(MULTICAST_FLAG, myHandle(c), dsts, Piece(c, i)))
  BY DEF Honest, BroadcastPacket, MessagePacket, Piece, INIT_CONNECT_FLAG,
         BROADCAST_FLAG, UNICAST_FLAG, MULTICAST_FLAG
<1>3. Honest(c, ChatHeaderPacket(HANDLE_LIST_FLAG))
  BY DEF Honest, ChatHeaderPacket, TextFlags, INIT_CONNECT_FLAG, HANDLE_LIST_FLAG,
         BROADCAST_FLAG, UNICAST_FLAG, MULTICAST_FLAG
<1>4. CASE SendBroadcast(c)
  <2>1. PICK chunks \in 1 .. MaxChunks :
          TakeLine(c, [i \in 1 .. chunks |->
            BroadcastPacket(myHandle(c), Piece(c, i))])
    BY <1>4 DEF SendBroadcast
  <2> QED BY <1>1, <1>2, <2>1
<1>5. CASE SendUnicast(c)
  <2>1. PICK chunks \in 1 .. MaxChunks, dst \in LegalNames :
          TakeLine(c, [i \in 1 .. chunks |->
            MessagePacket(UNICAST_FLAG, myHandle(c), <<dst>>, Piece(c, i))])
    BY <1>5 DEF SendUnicast
  <2> QED BY <1>1, <1>2, <2>1
<1>6. CASE SendMulticast(c)
  <2>1. PICK chunks \in 1 .. MaxChunks, numOfDst \in HANDLES_MIN .. MaxDsts :
          \E dsts \in [1 .. numOfDst -> LegalNames] :
            TakeLine(c, [i \in 1 .. chunks |->
              MessagePacket(MULTICAST_FLAG, myHandle(c), dsts, Piece(c, i))])
    BY <1>6 DEF SendMulticast
  <2> QED BY <1>1, <1>2, <2>1
<1>7. CASE SendHandleList(c)
  BY <1>1, <1>3, <1>7 DEF SendHandleList
<1>8. CASE Leave(c)
  BY <1>8, ExitLive DEF Leave, UserStep
<1>9. CASE ReadFromStdin(c) \/ IgnoreLine(c)
  <2>1. /\ pc[c] \in {"chat", "line"} /\ outq[c] = <<>>
        /\ \/ pc' = [pc EXCEPT ![c] = "line"]
           \/ pc' = [pc EXCEPT ![c] = "chat"]
        /\ UNCHANGED outq /\ UNCHANGED tcpVars
    BY <1>9 DEF ReadFromStdin, IgnoreLine, Goto, Live, LineInChat
  <2>2. /\ pc'[c] \in {"chat", "line"} /\ outq'[c] = <<>>
        /\ \A d \in Clients \ {c} : pc'[d] = pc[d] /\ outq'[d] = outq[d]
    BY <2>1 DEF Typed, ClientsTyped
  <2>3. Registered(c)
    BY <2>1 DEF Live, Admitted
  <2>4. UNCHANGED <<conn, backlog, c2s, s2c, cliEnd>> /\ UNCHANGED serverVars
    BY <2>1 DEF tcpVars, UserStep
  <2> QED BY <2>1, <2>2, <2>3, <2>4, OwnStepLive
<1> QED BY <1>4, <1>5, <1>6, <1>7, <1>8, <1>9 DEF UserStep, User

LEMMA ProgramLive ==
  ASSUME Typed, Typed', Live, NEW c \in Clients, ProgramStep(c)
  PROVE  Live'
<1>1. UNCHANGED serverVars
  BY DEF ProgramStep
<1>2. CASE Exit(c)
  BY <1>1, <1>2, ExitLive
<1>3. /\ c2s[c] \in Seq(ClientPdu) /\ s2c[c] \in Seq(ServerPdu)
      /\ outq[c] \in Seq(LinePdu)
  BY DEF Typed, TcpTyped, ClientsTyped
\* A send that returns leaves the PDU at the end of the queue or nowhere.
<1>4. ASSUME NEW pdu, ClientSendReturns(c, pdu)
      PROVE  /\ UNCHANGED <<backlog, conn, s2c, cliEnd>>
             /\ \A d \in Clients \ {c} : c2s'[d] = c2s[d]
             /\ c2s'[c] = c2s[c] \/ c2s'[c] = Append(c2s[c], pdu)
  BY <1>4 DEF ClientSendReturns, Typed, TcpTyped
<1>5. \A d \in Clients \ {c} :
        /\ pc'[d] = pc[d] /\ outq'[d] = outq[d]
  <2>1. \/ \E stage : Goto(c, stage)
        \/ UNCHANGED pc
    BY DEF ProgramStep, Program, InitConnectHandle, RecvConnectAnswer, SendPDU,
           ProcessMsgFromServer, FlagListBegin, Exit
  <2>2. \/ \E line : outq' = [outq EXCEPT ![c] = line]
        \/ UNCHANGED outq
    BY DEF ProgramStep, Program, InitConnectHandle, RecvConnectAnswer, SendPDU,
           ProcessMsgFromServer, FlagListBegin, Exit
  <2> QED BY <2>1, <2>2 DEF Goto, Typed, ClientsTyped
<1>6. CASE InitConnectHandle(c) /\ ~Exit(c)
  <2> DEFINE hello == HandleOnlyPacket(INIT_CONNECT_FLAG, myHandle(c))
  <2>1. /\ pc[c] = "connected" /\ ClientSendReturns(c, hello)
        /\ Goto(c, "wait") /\ UNCHANGED outq
    BY <1>6 DEF InitConnectHandle
  <2>2. pc'[c] = "wait" /\ outq[c] = <<>> /\ outq'[c] = <<>>
    BY <2>1 DEF Goto, Live, LineInChat, Typed, ClientsTyped
  <2>3. Honest(c, hello)
    BY DEF Honest, HandleOnlyPacket, TextFlags, INIT_CONNECT_FLAG,
           BROADCAST_FLAG, UNICAST_FLAG, MULTICAST_FLAG
  <2>4. c2s[c] = <<>>
    BY <2>1 DEF Live, Handshake
  <2> HIDE DEF hello
  <2>5. \A i \in DOMAIN c2s'[c] : i = 1 /\ c2s'[c][i] = hello
    BY <1>3, <1>4, <2>1, <2>4, AppendElements
  <2> QED BY <1>1, <1>4, <1>5, <2>1, <2>2, <2>3, <2>5, OwnStepLive
\* A PDU is read.
<1>7. ASSUME ClientRecv(c), UNCHANGED outq,
             pc'[c] \in {"chat", "line", "list"}, outq[c] # <<>> => pc'[c] = "chat",
             pc[c] # "gone", Registered(c)
      PROVE  Live'
  <2>1. /\ UNCHANGED <<backlog, conn, c2s, cliEnd>>
        /\ s2c'[c] = Tail(s2c[c]) /\ s2c[c] # <<>>
        /\ \A d \in Clients \ {c} : s2c'[d] = s2c[d]
    BY <1>7 DEF ClientRecv, Typed, TcpTyped
  <2>2. \A i \in DOMAIN s2c'[c] : i + 1 \in DOMAIN s2c[c] /\ s2c'[c][i] = s2c[c][i + 1]
    BY <1>3, <2>1, TailElements
  <2>3. \A i \in DOMAIN s2c'[c] : \E j \in DOMAIN s2c[c] : s2c'[c][i] = s2c[c][j]
    BY <2>2
  <2>4. \A i \in DOMAIN outq'[c] : Honest(c, outq'[c][i])
    BY <1>7 DEF Live, OwnPdus
  <2> QED BY <1>1, <1>5, <1>7, <2>1, <2>3, <2>4, OwnStepLive
<1>8. CASE RecvConnectAnswer(c) /\ ~Exit(c)
  <2>1. /\ pc[c] = "wait" /\ ClientRecv(c) /\ UNCHANGED outq /\ Goto(c, "chat")
        /\ s2c[c] # <<>> /\ Head(s2c[c]).flag = GOOD_CONNECT_FLAG
    BY <1>8 DEF RecvConnectAnswer
  <2>2. Registered(c)
    BY <1>3, <2>1, TailElements DEF Live, Admitted
  <2>3. pc'[c] = "chat"
    BY <2>1 DEF Goto, Typed, ClientsTyped
  <2> QED BY <1>7, <2>1, <2>2, <2>3
<1>9. CASE SendPDU(c) /\ ~Exit(c)
  <2>1. /\ ClientSendReturns(c, Head(outq[c])) /\ outq[c] # <<>>
        /\ outq' = [outq EXCEPT ![c] = Tail(@)] /\ UNCHANGED pc
    BY <1>9 DEF SendPDU
  <2>2. pc[c] = "chat" /\ Registered(c) /\ outq'[c] = Tail(outq[c])
    BY <2>1 DEF Live, LineInChat, Admitted, Typed, ClientsTyped
  <2>3. \A i \in DOMAIN outq[c] : Honest(c, outq[c][i])
    BY DEF Live, OwnPdus
  <2>4. \A i \in DOMAIN outq'[c] : Honest(c, outq'[c][i])
    BY <1>3, <2>1, <2>2, <2>3, TailElements
  <2>5. Honest(c, Head(outq[c])) /\ Head(outq[c]) \in LinePdu
    BY <1>3, <2>1, <2>3, TailElements, HeadTailProperties
  <2>6. Head(outq[c]).flag # INIT_CONNECT_FLAG
    BY <2>5 DEF LinePdu, TextPdu, INIT_CONNECT_FLAG, HANDLE_LIST_FLAG,
                BROADCAST_FLAG, UNICAST_FLAG, MULTICAST_FLAG
  <2>7. \A i \in DOMAIN c2s'[c] : \/ i \in DOMAIN c2s[c] /\ c2s'[c][i] = c2s[c][i]
                                  \/ c2s'[c][i] = Head(outq[c])
    BY <1>3, <1>4, <2>1, AppendElements
  <2> QED BY <1>1, <1>4, <1>5, <2>1, <2>2, <2>4, <2>5, <2>6, <2>7, OwnStepLive
<1>10. CASE ProcessMsgFromServer(c) /\ ~Exit(c)
  <2>1. /\ pc[c] = "chat" /\ ClientRecv(c) /\ UNCHANGED outq /\ outq[c] = <<>>
        /\ Goto(c, "list") \/ UNCHANGED pc
    BY <1>10 DEF ProcessMsgFromServer
  <2>2. Registered(c) /\ pc'[c] \in {"chat", "line", "list"}
    BY <2>1 DEF Live, Admitted, Goto, Typed, ClientsTyped
  <2> QED BY <1>7, <2>1, <2>2
<1>11. CASE FlagListBegin(c) /\ ~Exit(c)
  <2>1. /\ pc[c] = "list" /\ ClientRecv(c) /\ UNCHANGED outq
        /\ Goto(c, "chat") \/ UNCHANGED pc
    BY <1>11 DEF FlagListBegin
  <2>2. Registered(c) /\ pc'[c] \in {"chat", "line", "list"} /\ outq[c] = <<>>
    BY <2>1 DEF Live, Admitted, LineInChat, Goto, Typed, ClientsTyped
  <2> QED BY <1>7, <2>1, <2>2
<1> QED BY <1>2, <1>6, <1>8, <1>9, <1>10, <1>11 DEF ProgramStep, Program

LEMMA NetworkLive ==
  ASSUME Typed, Typed', Live, NEW c \in Clients, NetworkStep(c)
  PROVE  Live'
<1>1. /\ cliEnd[c] = "closed"
      /\ UNCHANGED <<backlog, conn, c2s, pc, outq>> /\ UNCHANGED serverVars
      /\ \A d \in Clients \ {c} : cliEnd'[d] = cliEnd[d] /\ s2c'[d] = s2c[d]
  BY DEF NetworkStep, Reset, clientVars, Typed, TcpTyped
<1>2. pc[c] = "gone"
  BY <1>1 DEF Live, ClosedAreGone
<1>3. /\ \A i \in DOMAIN outq[c] : Honest(c, outq[c][i])
      /\ outq[c] = <<>>
  BY <1>2 DEF Live, OwnPdus, LineInChat
<1> QED BY <1>1, <1>2, <1>3, OwnStepLive

------------------------------------------------------------------------------
(* The steps of the server. *)

LEMMA JobFields ==
  ASSUME NEW fd, NEW todo, NEW closing \in BOOLEAN
  PROVE  /\ Job(fd, todo, closing).todo = todo
         /\ Job(fd, todo, closing).closing = closing
         /\ closing => Job(fd, todo, closing).fd = fd
BY DEF Job, NoJob

LEMMA IdleServer ==
  ASSUME Polling
  PROVE  alive /\ job.todo = <<>> /\ ~job.closing
BY DEF Polling, NoJob

LEMMA AddNewClientLive ==
  ASSUME Typed, Typed', Live, NEW fd \in Fds, AddNewClient(fd), UNCHANGED clientVars
  PROVE  Live'
<1> DEFINE c == Head(backlog)
<1>1. /\ conn' = [conn EXCEPT ![fd] = c] /\ backlog' = Tail(backlog)
      /\ UNCHANGED <<c2s, s2c, cliEnd, pc, outq, job>>
      /\ polled' = polled \cup {fd} /\ conn[fd] = NoClient
      /\ backlog # <<>> /\ HT!Bindings' = HT!Bindings
      /\ job.todo = <<>> /\ ~job.closing
  BY BindingsChange, IdleServer DEF AddNewClient, AcceptCall, OpenFds, clientVars
<1>2. /\ \A i \in DOMAIN backlog' : i + 1 \in DOMAIN backlog /\ backlog'[i] = backlog[i + 1]
      /\ 1 \in DOMAIN backlog /\ c = backlog[1]
      /\ \A i \in DOMAIN backlog' : i + 1 # 1 /\ i \in Int
  <2>1. backlog \in Seq(Clients) /\ backlog' \in Seq(Clients)
    BY DEF Typed, TcpTyped
  <2> QED BY <1>1, <2>1, TailElements
<1>3. c \in Clients /\ c # NoClient
  <2>1. backlog \in Seq(Clients)
    BY DEF Typed, TcpTyped
  <2> QED BY <1>1, <2>1, HeadTailProperties, TcpAssumption
<1>4. conn \in [Fds -> Clients \cup {NoClient}]
  BY DEF Typed, TcpTyped
<1> HIDE DEF c
<1>5. conn'[fd] = c /\ \A g \in Fds \ {fd} : conn'[g] = conn[g]
  BY <1>1, <1>4
<1>6. OpenFds' = OpenFds \cup {fd} /\ fd \notin OpenFds
  BY <1>1, <1>3, <1>5 DEF OpenFds
<1>7. BoundFds' = BoundFds /\ BoundFds \subseteq OpenFds /\ OpenFds \subseteq Fds
  BY <1>1 DEF BoundFds, Live, EntriesLive, OpenFds
<1>8. PollSetOpen'
  BY <1>1, <1>6 DEF PollSetOpen, Live
<1>9. \A g \in Fds, i \in DOMAIN backlog : conn[g] # backlog[i]
  BY DEF Live, OneConnection
<1>10. OneConnection'
  <2>1. \A g, h \in OpenFds' : conn'[g] = conn'[h] => g = h
    BY <1>2, <1>5, <1>6, <1>7, <1>9 DEF Live, OneConnection
  <2>2. \A i, j \in DOMAIN backlog' : backlog'[i] = backlog'[j] => i = j
    BY <1>2 DEF Live, OneConnection
  <2>3. \A i \in DOMAIN backlog' : \A g \in Fds : conn'[g] # backlog'[i]
    BY <1>2, <1>5, <1>9 DEF Live, OneConnection
  <2> QED BY <2>1, <2>2, <2>3 DEF OneConnection
<1>11. Handshake'
  <2>1. \A d \in Clients : Unheard(d) => Unheard(d)'
    BY <1>1, <1>5, <1>6, <1>7 DEF Unheard
  <2>2. \A d \in Clients : pc[d] = "start" =>
          /\ \A g \in Fds : conn'[g] # d
          /\ \A i \in DOMAIN backlog' : backlog'[i] # d
    BY <1>2, <1>5 DEF Live, Handshake
  <2> QED BY <1>1, <2>1, <2>2 DEF Live, Handshake
<1>12. EntriesLive'
  BY <1>1, <1>5, <1>6, <1>7 DEF EntriesLive, Live, OpenFds
<1>13. OwnPdus' /\ ClosedAreGone' /\ LineInChat'
  BY <1>1 DEF OwnPdus, ClosedAreGone, LineInChat, Live, Honest, myHandle
<1>14. JobGood'
  BY <1>1 DEF JobGood
<1>15. Admitted'
  BY <1>1, <1>5, <1>6, <1>7 DEF Admitted, Registered, Live
<1> QED BY <1>8, <1>10, <1>11, <1>12, <1>13, <1>14, <1>15 DEF Live

\* A handler that has taken its PDU, whatever it does with the table and leaves
\* to be sent.
LEMMA TakenLive ==
  ASSUME Typed, Typed', Live, NEW fd \in Fds, NEW flag, Received(fd, flag),
         UNCHANGED <<alive, polled>>, UNCHANGED clientVars,
         BoundFds \subseteq BoundFds', EntriesLive', JobGood',
         \A d \in Clients :
           Unheard(d) /\ (d # conn[fd] \/ flag # INIT_CONNECT_FLAG) => Unheard(d)'
  PROVE  Live'
<1> DEFINE c == conn[fd]
<1>1. /\ c2s' = [c2s EXCEPT ![c] = Tail(@)] /\ c2s[c] # <<>>
      /\ UNCHANGED <<backlog, conn, s2c, cliEnd, pc, outq>>
  BY DEF Received, ServerRecv, clientVars
<1>2. c \in Clients /\ c2s[c][1].flag = flag
  BY ReceivedTyped
<1>3. c2s \in [Clients -> Seq(ClientPdu)]
  BY DEF Typed, TcpTyped
<1> HIDE DEF c
<1>4. /\ c2s'[c] = Tail(c2s[c]) /\ \A d \in Clients \ {c} : c2s'[d] = c2s[d]
      /\ \A i \in DOMAIN c2s'[c] : i + 1 \in DOMAIN c2s[c] /\ c2s'[c][i] = c2s[c][i + 1]
      /\ \A i \in DOMAIN c2s'[c] : i + 1 # 1
  <2>1. c2s'[c] = Tail(c2s[c]) /\ \A d \in Clients \ {c} : c2s'[d] = c2s[d]
    BY <1>1, <1>2, <1>3
  <2>2. c2s[c] \in Seq(ClientPdu)
    BY <1>2, <1>3
  <2>3. \A i \in DOMAIN Tail(c2s[c]) :
          i + 1 \in DOMAIN c2s[c] /\ Tail(c2s[c])[i] = c2s[c][i + 1]
    BY <1>1, <2>2, TailElements
  <2>4. \A i \in DOMAIN Tail(c2s[c]) : i + 1 # 1
    BY <1>1, <2>2
  <2> QED BY <2>1, <2>3, <2>4
<1>5. OpenFds' = OpenFds
  BY <1>1 DEF OpenFds
<1>6. PollSetOpen' /\ OneConnection' /\ ClosedAreGone' /\ LineInChat'
  BY <1>1, <1>5 DEF PollSetOpen, OneConnection, ClosedAreGone, LineInChat, Live
<1>7. Handshake'
  <2> SUFFICES ASSUME NEW d \in Clients
               PROVE  /\ pc'[d] = "start" => /\ \A g \in Fds : conn'[g] # d
                                             /\ \A i \in DOMAIN backlog' : backlog'[i] # d
                      /\ pc'[d] \in {"start", "connected"} => c2s'[d] = <<>> /\ Unheard(d)'
                      /\ \A i \in DOMAIN c2s'[d] :
                           c2s'[d][i].flag = INIT_CONNECT_FLAG => i = 1 /\ Unheard(d)'
    BY DEF Handshake
  <2>1. CASE d # c
    BY <1>1, <1>4, <2>1 DEF Live, Handshake, c
  <2>2. CASE d = c
    <3>1. pc[c] \notin {"start", "connected"}
      BY <1>1, <1>2 DEF Live, Handshake
    <3>2. \A i \in DOMAIN c2s'[c] : c2s'[c][i].flag # INIT_CONNECT_FLAG
      BY <1>2, <1>4 DEF Live, Handshake
    <3> QED BY <1>1, <2>2, <3>1, <3>2
  <2> QED BY <2>1, <2>2
<1>8. OwnPdus'
  <2>1. \A d, pdu : Honest(d, pdu)' <=> Honest(d, pdu)
    BY DEF Honest, myHandle
  <2>2. \A d \in Clients : \A i \in DOMAIN c2s'[d] : Honest(d, c2s'[d][i])
    BY <1>2, <1>4 DEF Live, OwnPdus
  <2> QED BY <1>1, <2>2 DEF OwnPdus, Live, Honest, myHandle
<1>9. Admitted'
  BY <1>1 DEF Admitted, Registered, Live
<1> QED BY <1>6, <1>7, <1>8, <1>9 DEF Live

LEMMA FlagConnectLive ==
  ASSUME Typed, Typed', Live, NEW fd \in Fds, FlagConnect(fd), UNCHANGED clientVars
  PROVE  Live'
<1> DEFINE c == conn[fd]
           name == Pdu(fd).handle
<1>1. /\ Received(fd, INIT_CONNECT_FLAG) /\ UNCHANGED <<alive, polled>>
      /\ conn' = conn /\ fd \in OpenFds /\ OpenFds' = OpenFds
  BY DEF FlagConnect, Received, ServerRecv, OpenFds
<1>2. /\ c \in Clients /\ c2s[c] # <<>> /\ Pdu(fd) = c2s[c][1]
      /\ Pdu(fd).flag = INIT_CONNECT_FLAG
      /\ job.todo = <<>> /\ ~job.closing
  BY <1>1, ReceivedTyped DEF NoJob
<1>3. 1 \in DOMAIN c2s[c]
  <2>1. c2s[c] \in Seq(ClientPdu)
    BY <1>2 DEF Typed, TcpTyped
  <2> QED BY <1>2, <2>1
<1>4. name = myHandle(c)
  BY <1>2, <1>3 DEF Live, OwnPdus, Honest
<1>5. Unheard(c) /\ fd \notin BoundFds
  <2>1. Unheard(c)
    BY <1>2, <1>3 DEF Live, Handshake
  <2> QED BY <2>1 DEF Unheard
<1>6. \A d \in Clients, g \in Fds : conn[g] = d /\ d # c => g # fd
  OBVIOUS
<1> HIDE DEF c, name
<1>7. CASE HT!AddHandle(name, fd)
          /\ job' = Job(fd, <<Send(fd, ChatHeaderPacket(GOOD_CONNECT_FLAG))>>, FALSE)
  <2>1. HT!Bindings' = HT!Bindings \cup {<<name, fd>>}
    BY <1>7, BindingsChange
  <2>2. BoundFds' = BoundFds \cup {fd}
    <3>1. <<name, fd>>[2] = fd /\ <<name, fd>> \in HT!Bindings'
      BY <2>1
    <3>2. fd \in BoundFds'
      BY <3>1 DEF BoundFds
    <3>3. BoundFds \subseteq BoundFds'
      BY <2>1 DEF BoundFds
    <3>4. BoundFds' \subseteq BoundFds \cup {fd}
      BY <2>1, <3>1 DEF BoundFds
    <3> QED BY <3>2, <3>3, <3>4
  <2>3. EntriesLive'
    BY <1>1, <1>4, <2>1 DEF EntriesLive, Live, myHandle, c
  <2>4. /\ job'.todo = <<Send(fd, ChatHeaderPacket(GOOD_CONNECT_FLAG))>>
        /\ ~job'.closing
    BY <1>7 DEF Job, NoJob
  <2>5. JobGood'
    BY <1>1, <2>2, <2>4
       DEF JobGood, GoodSend, ForClient, Send, ChatHeaderPacket, GOOD_CONNECT_FLAG,
           BROADCAST_FLAG, UNICAST_FLAG, MULTICAST_FLAG
  <2>6. \A d \in Clients : Unheard(d) /\ d # c => Unheard(d)'
    BY <1>1, <1>6, <2>2, <2>4 DEF Unheard
  <2> QED BY <1>1, <2>2, <2>3, <2>5, <2>6, TakenLive DEF c
<1>8. CASE HT!RejectHandle(name)
          /\ job' = Job(fd, <<Send(fd, ChatHeaderPacket(BAD_CONNECT_FLAG))>>, TRUE)
  <2>1. HT!Bindings' = HT!Bindings
    BY <1>8, BindingsChange DEF HT!RejectHandle, HT!vars, tableVars
  <2>2. BoundFds' = BoundFds /\ EntriesLive'
    BY <1>1, <2>1, SameRegistry DEF Live
  <2>3. /\ job'.todo = <<Send(fd, ChatHeaderPacket(BAD_CONNECT_FLAG))>>
        /\ job'.fd = fd
    BY <1>8 DEF Job, NoJob
  <2>4. JobGood'
    BY <1>1, <1>5, <2>2, <2>3
       DEF JobGood, GoodSend, ForClient, Send, ChatHeaderPacket, GOOD_CONNECT_FLAG,
           BAD_CONNECT_FLAG, BROADCAST_FLAG, UNICAST_FLAG, MULTICAST_FLAG
  <2>5. \A d \in Clients : Unheard(d) /\ d # c => Unheard(d)'
    BY <1>1, <1>6, <2>2, <2>3 DEF Unheard
  <2> QED BY <1>1, <2>2, <2>4, <2>5, TakenLive DEF c
<1> QED BY <1>7, <1>8 DEF FlagConnect, name

\* The table and the descriptors stay; what is to be sent must be good.
LEMMA ServiceLive ==
  ASSUME Typed, Typed', Live, NEW fd \in Fds, NEW flag, Received(fd, flag),
         flag # INIT_CONNECT_FLAG, NEW todo,
         \A i \in DOMAIN todo : GoodSend(todo[i]),
         job' = Job(fd, todo, FALSE),
         UNCHANGED <<alive, polled, tableVars>>, UNCHANGED clientVars
  PROVE  Live'
<1>1. HT!Bindings' = HT!Bindings
  BY BindingsChange
<1>2. conn' = conn /\ polled' = polled /\ alive' = alive
  BY DEF Received, ServerRecv
<1>3. OpenFds' = OpenFds /\ BoundFds' = BoundFds /\ EntriesLive'
  BY <1>1, <1>2, SameRegistry DEF Live
<1>4. job'.todo = todo /\ ~job'.closing
  BY DEF Job, NoJob
<1>5. JobGood'
  BY <1>2, <1>3, <1>4 DEF JobGood, GoodSend
<1>6. \A d \in Clients : Unheard(d) => Unheard(d)'
  BY <1>2, <1>3, <1>4 DEF Unheard
<1> QED BY <1>2, <1>3, <1>5, <1>6, TakenLive

\* The flags of the answers are nobody's text.
LEMMA AnswersForAll ==
  ASSUME NEW c
  PROVE  /\ \A name : ForClient(c, HandleOnlyPacket(HANDLE_ERR_FLAG, name))
         /\ \A name : ForClient(c, HandleOnlyPacket(HANDLE_ITEM_FLAG, name))
         /\ \A n : ForClient(c, ListCountPacket(n))
         /\ ForClient(c, ChatHeaderPacket(HANDLE_FINISH_FLAG))
BY DEF ForClient, HandleOnlyPacket, ListCountPacket, ChatHeaderPacket,
       HANDLE_ERR_FLAG, HANDLE_ITEM_FLAG, HANDLE_LIST_RESP_FLAG, HANDLE_FINISH_FLAG,
       BROADCAST_FLAG, UNICAST_FLAG, MULTICAST_FLAG

LEMMA BroadcastGood ==
  ASSUME Typed, Live, NEW fd \in Fds, Received(fd, BROADCAST_FLAG)
  PROVE  \A i \in DOMAIN BroadcastSends(fd, Pdu(fd)) :
           GoodSend(BroadcastSends(fd, Pdu(fd))[i])
<1> DEFINE pdu == Pdu(fd)
           others == {i \in HT!ValidSlots : SocketAt(i) # fd}
           n == Cardinality(others)
<1>1. pdu \in ServerPdu /\ pdu.flag = BROADCAST_FLAG /\ conn[fd] \in Clients
  BY ReceivedTyped, PduKinds DEF TextFlags
<1>2. pdu.text.by = conn[fd] /\ fd \in OpenFds
  <2>1. Honest(conn[fd], pdu)
    <3>1. /\ conn[fd] \in Clients /\ c2s[conn[fd]] # <<>>
          /\ pdu = c2s[conn[fd]][1]
      BY ReceivedTyped
    <3>2. c2s[conn[fd]] \in Seq(ClientPdu)
      BY <3>1 DEF Typed, TcpTyped
    <3>3. 1 \in DOMAIN c2s[conn[fd]]
      BY <3>1, <3>2
    <3> QED BY <3>1, <3>3 DEF Live, OwnPdus
  <2> QED BY <1>1, <2>1 DEF Honest, TextFlags, Received, ServerRecv
<1>3. \A i \in others : GoodSend(Send(SocketAt(i), pdu))
  <2> SUFFICES ASSUME NEW i \in others
               PROVE  GoodSend(Send(SocketAt(i), pdu))
    OBVIOUS
  <2>1. <<HandleAt(i), SocketAt(i)>> \in HT!Bindings /\ SocketAt(i) # fd
    BY SameBindings
  <2>2. SocketAt(i) \in OpenFds
    BY <2>1 DEF Live, EntriesLive
  <2>3. conn[SocketAt(i)] # conn[fd]
    BY <1>2, <2>1, <2>2 DEF Live, OneConnection
  <2> QED BY <1>1, <1>2, <2>2, <2>3
          DEF GoodSend, Send, ForClient, GOOD_CONNECT_FLAG, BROADCAST_FLAG,
              UNICAST_FLAG, MULTICAST_FLAG
<1> HIDE DEF pdu
<1>4. /\ BroadcastSends(fd, pdu) \in Seq(Sends)
      /\ Len(BroadcastSends(fd, pdu)) = n
      /\ \A k \in 1 .. n : /\ InOrder(others)[k] \in others
                           /\ BroadcastSends(fd, pdu)[k] = Send(SocketAt(InOrder(others)[k]), pdu)
  BY <1>1, BroadcastTyped
<1> HIDE DEF others, n
<1>5. DOMAIN BroadcastSends(fd, pdu) = 1 .. n
  BY <1>4
<1> QED BY <1>3, <1>4, <1>5 DEF pdu

LEMMA ForwardGood ==
  ASSUME Typed, Live, NEW fd \in Fds,
         NEW flag \in {UNICAST_FLAG, MULTICAST_FLAG}, Received(fd, flag)
  PROVE  \A i \in DOMAIN Forward(fd, Pdu(fd)) : GoodSend(Forward(fd, Pdu(fd))[i])
<1> DEFINE pdu == Pdu(fd)
<1>1. pdu \in TextPdu /\ pdu.flag = flag
  BY ReceivedTyped, PduKinds DEF TextFlags
<1>2. fd \in OpenFds
  BY DEF Received, ServerRecv
<1>3. DOMAIN Forward(fd, pdu) = DOMAIN pdu.dsts
  BY DEF Forward
<1> HIDE DEF pdu
<1> SUFFICES ASSUME NEW k \in DOMAIN pdu.dsts
             PROVE  GoodSend(ForwardTo(fd, pdu, pdu.dsts[k]))
  BY <1>3 DEF Forward, pdu
<1> DEFINE name == pdu.dsts[k]
<1>4. CASE HT!LookupSocket(name) # -1
  <2> DEFINE g == HT!LookupSocket(name)
  <2>1. <<name, g>> \in HT!Bindings
    BY <1>4, LookupFindsBinding
  <2> HIDE DEF g
  <2>2. g \in OpenFds /\ ArgvHandle[conn[g]] = name
    BY <2>1 DEF Live, EntriesLive
  <2>3. ForwardTo(fd, pdu, name) = Send(g, pdu)
    BY <1>4 DEF ForwardTo, g
  <2> QED BY <1>1, <2>2, <2>3
          DEF GoodSend, Send, ForClient, myHandle, GOOD_CONNECT_FLAG, BROADCAST_FLAG,
              UNICAST_FLAG, MULTICAST_FLAG
<1>5. CASE HT!LookupSocket(name) = -1
  <2>1. ForwardTo(fd, pdu, name) = Send(fd, HandleOnlyPacket(HANDLE_ERR_FLAG, name))
    BY <1>5 DEF ForwardTo
  <2>2. HandleOnlyPacket(HANDLE_ERR_FLAG, name).flag # GOOD_CONNECT_FLAG
    BY DEF HandleOnlyPacket, HANDLE_ERR_FLAG, GOOD_CONNECT_FLAG
  <2> QED BY <1>2, <2>1, <2>2, AnswersForAll DEF GoodSend, Send
<1> QED BY <1>4, <1>5

\* The parts of a list, by their places.
LEMMA HandleListElements ==
  ASSUME Typed, NEW fd \in Fds
  PROVE  LET n == Cardinality(HT!ValidSlots)
             sends == HandleListSends(fd)
         IN /\ n \in Nat /\ sends \in Seq(Sends) /\ Len(sends) = n + 2
            /\ sends[1] = Send(fd, ListCountPacket(tableCount))
            /\ \A i \in 1 .. n : /\ Walk[i] \in HT!ValidSlots
                                 /\ sends[i + 1] =
                                      Send(fd, HandleOnlyPacket(HANDLE_ITEM_FLAG, HandleAt(Walk[i])))
            /\ sends[n + 2] = Send(fd, ChatHeaderPacket(HANDLE_FINISH_FLAG))
<1> DEFINE n == Cardinality(HT!ValidSlots)
           first == Send(fd, ListCountPacket(tableCount))
           item(i) == Send(fd, HandleOnlyPacket(HANDLE_ITEM_FLAG, HandleAt(Walk[i])))
           last == Send(fd, ChatHeaderPacket(HANDLE_FINISH_FLAG))
           items == [i \in DOMAIN Walk |-> item(i)]
<1>1. n \in Nat /\ DOMAIN Walk = 1 .. n /\ \A i \in 1 .. n : Walk[i] \in HT!ValidSlots
  BY WalkTyped
<1>2. HandleListSends(fd) = <<first>> \o items \o <<last>>
  BY DEF HandleListSends
<1>3. first \in Sends /\ last \in Sends /\ \A i \in 1 .. n : item(i) \in Sends
  BY <1>1, TableTyped, AnswersTyped DEF Send, Sends
<1> HIDE DEF first, item, last, n
<1>4. items \in Seq(Sends) /\ Len(items) = n /\ \A i \in 1 .. n : items[i] = item(i)
  BY <1>1, <1>3
<1> HIDE DEF items
<1>5. /\ Len(<<first>> \o items \o <<last>>) = n + 2
      /\ (<<first>> \o items \o <<last>>)[1] = first
      /\ \A i \in 1 .. n : (<<first>> \o items \o <<last>>)[i + 1] = items[i]
      /\ (<<first>> \o items \o <<last>>)[n + 2] = last
  BY <1>1, <1>3, <1>4
<1> QED BY <1>1, <1>2, <1>4, <1>5, HandleListTyped DEF first, item, last, n

LEMMA HandleListGood ==
  ASSUME Typed, Live, NEW fd \in OpenFds
  PROVE  \A i \in DOMAIN HandleListSends(fd) : GoodSend(HandleListSends(fd)[i])
<1> DEFINE sends == HandleListSends(fd)
           n == Cardinality(HT!ValidSlots)
<1>1. fd \in Fds
  BY DEF OpenFds
<1>2. /\ \A m : GoodSend(Send(fd, ListCountPacket(m)))
      /\ \A name : GoodSend(Send(fd, HandleOnlyPacket(HANDLE_ITEM_FLAG, name)))
      /\ GoodSend(Send(fd, ChatHeaderPacket(HANDLE_FINISH_FLAG)))
  BY AnswersForAll DEF GoodSend, Send, ListCountPacket, HandleOnlyPacket,
     ChatHeaderPacket, HANDLE_LIST_RESP_FLAG, HANDLE_ITEM_FLAG, HANDLE_FINISH_FLAG,
     GOOD_CONNECT_FLAG
<1>3. /\ n \in Nat /\ sends \in Seq(Sends) /\ Len(sends) = n + 2
      /\ sends[1] = Send(fd, ListCountPacket(tableCount))
      /\ \A i \in 1 .. n : sends[i + 1] =
           Send(fd, HandleOnlyPacket(HANDLE_ITEM_FLAG, HandleAt(Walk[i])))
      /\ sends[n + 2] = Send(fd, ChatHeaderPacket(HANDLE_FINISH_FLAG))
  BY <1>1, HandleListElements
<1> HIDE DEF sends, n
<1>4. DOMAIN sends = 1 .. n + 2
  BY <1>3
<1>5. \A i \in 1 .. n + 2 : i = 1 \/ i = n + 2 \/ \E j \in 1 .. n : i = j + 1
  <2> SUFFICES ASSUME NEW i \in 1 .. n + 2, i # 1, i # n + 2
               PROVE  \E j \in 1 .. n : i = j + 1
    OBVIOUS
  <2>1. i - 1 \in 1 .. n /\ i = (i - 1) + 1
    BY <1>3
  <2> QED BY <2>1
<1> QED BY <1>2, <1>3, <1>4, <1>5 DEF sends

\* The end of a connection, in the way Disconnect and CloseRejected have in
\* common: no entry has its descriptor any more.
LEMMA CloseLive ==
  ASSUME Typed, Typed', Live, NEW fd \in OpenFds, ServerClose(fd),
         polled' = polled \ {fd}, job' = NoJob, UNCHANGED clientVars,
         HT!Bindings' = {entry \in HT!Bindings : entry[2] # fd},
         fd \in BoundFds => pc[conn[fd]] = "gone"
  PROVE  Live'
<1> DEFINE c == conn[fd]
<1>1. /\ fd \in Fds /\ c \in Clients /\ c # NoClient
      /\ conn \in [Fds -> Clients \cup {NoClient}]
  BY TcpAssumption DEF OpenFds, Typed, TcpTyped
<1>2. /\ CloseServerEnds({c}) /\ conn' = [conn EXCEPT ![fd] = NoClient]
      /\ UNCHANGED <<backlog, pc, outq>>
  BY DEF ServerClose, clientVars
<1>3. /\ \A d \in Clients : c2s'[d] = <<>> \/ c2s'[d] = c2s[d]
      /\ \A d \in Clients : s2c'[d] = <<>> \/ s2c'[d] = s2c[d]
      /\ \A d \in Clients : cliEnd'[d] = "none" \/ cliEnd'[d] = cliEnd[d]
  BY <1>2 DEF CloseServerEnds
<1> HIDE DEF c
<1>4. conn'[fd] = NoClient /\ \A g \in Fds \ {fd} : conn'[g] = conn[g]
  BY <1>1, <1>2
<1>5. OpenFds' = OpenFds \ {fd} /\ OpenFds \subseteq Fds
  BY <1>4 DEF OpenFds
<1>6. BoundFds' = BoundFds \ {fd} /\ BoundFds \subseteq OpenFds
  <2>1. BoundFds' \subseteq BoundFds \ {fd}
    BY DEF BoundFds
  <2>2. BoundFds \ {fd} \subseteq BoundFds'
    BY DEF BoundFds
  <2> QED BY <2>1, <2>2 DEF BoundFds, Live, EntriesLive
<1>7. PollSetOpen'
  BY <1>5 DEF PollSetOpen, Live
<1>8. OneConnection'
  <2>1. \A i \in DOMAIN backlog : backlog[i] \in Clients
    BY DEF Typed, TcpTyped
  <2> QED BY <1>2, <1>4, <1>5, <2>1, TcpAssumption DEF OneConnection, Live
<1>9. Handshake'
  <2>1. \A d \in Clients : Unheard(d) => Unheard(d)'
    BY <1>4, <1>6, TcpAssumption DEF Unheard, NoJob
  <2>2. \A d \in Clients : (\A g \in Fds : conn[g] # d) => \A g \in Fds : conn'[g] # d
    BY <1>4, TcpAssumption
  <2>3. \A d \in Clients : \A i \in DOMAIN c2s'[d] :
          i \in DOMAIN c2s[d] /\ c2s'[d][i] = c2s[d][i]
    BY <1>3
  <2> QED BY <1>2, <1>3, <2>1, <2>2, <2>3 DEF Handshake, Live
<1>10. OwnPdus'
  <2>1. \A d, pdu : Honest(d, pdu)' <=> Honest(d, pdu)
    BY DEF Honest, myHandle
  <2>2. \A d \in Clients : \A i \in DOMAIN c2s'[d] :
          i \in DOMAIN c2s[d] /\ c2s'[d][i] = c2s[d][i]
    BY <1>3
  <2> QED BY <1>2, <2>2 DEF OwnPdus, Live, Honest, myHandle
<1>11. EntriesLive'
  BY <1>4, <1>5 DEF EntriesLive, Live
<1>12. JobGood'
  BY DEF JobGood, NoJob
<1>13. Admitted'
  <2> SUFFICES ASSUME NEW d \in Clients, pc[d] # "gone"
               PROVE  \/ /\ pc[d] \notin {"chat", "line", "list"}
                         /\ \A i \in DOMAIN s2c'[d] : s2c'[d][i].flag # GOOD_CONNECT_FLAG
                      \/ Registered(d)'
    BY <1>2 DEF Admitted
  <2>1. CASE Registered(d)
    <3>1. PICK g \in BoundFds : conn[g] = d
      BY <2>1 DEF Registered
    <3>2. g # fd
      BY <3>1
    <3> QED BY <1>4, <1>5, <1>6, <3>1, <3>2 DEF Registered
  <2>2. CASE ~Registered(d)
    BY <1>3, <2>2 DEF Live, Admitted
  <2> QED BY <2>1, <2>2
<1>14. ClosedAreGone' /\ LineInChat'
  BY <1>2, <1>3 DEF ClosedAreGone, LineInChat, Live
<1> QED BY <1>7, <1>8, <1>9, <1>10, <1>11, <1>12, <1>13, <1>14 DEF Live

LEMMA DisconnectLive ==
  ASSUME Typed, Typed', Live, NEW fd \in Fds, Disconnect(fd), UNCHANGED clientVars
  PROVE  Live'
<1>1. fd \in OpenFds /\ cliEnd[conn[fd]] \in {"closed", "reset"} /\ job' = NoJob
  BY DEF Disconnect, ServerEof, Polling
<1>2. pc[conn[fd]] = "gone"
  BY <1>1 DEF Live, ClosedAreGone, OpenFds, Typed, TcpTyped
<1> QED BY <1>1, <1>2, CloseLive, BindingsChange DEF Disconnect

LEMMA CloseRejectedLive ==
  ASSUME Typed, Typed', Live, CloseRejected, UNCHANGED clientVars
  PROVE  Live'
<1>1. job.fd \in OpenFds \ BoundFds
  BY DEF CloseRejected, Live, JobGood
<1>2. HT!Bindings' = {entry \in HT!Bindings : entry[2] # job.fd}
  BY <1>1, BindingsChange DEF CloseRejected, BoundFds
<1> QED BY <1>1, <1>2, CloseLive DEF CloseRejected

LEMMA SendNextLive ==
  ASSUME Typed, Typed', Live, SendNext, UNCHANGED clientVars
  PROVE  Live'
<1> DEFINE s == Head(job.todo)
           c == conn[s.sock]
<1>1. /\ job.todo \in Seq(Sends) /\ job.todo # <<>>
      /\ s.pdu \in ServerPdu /\ job.closing \in BOOLEAN
  BY HeadTyped DEF SendNext, Typed, ServerTyped
<1>2. /\ UNCHANGED <<backlog, conn, c2s, cliEnd, polled, alive, pc, outq>>
      /\ s.sock \in OpenFds
      /\ s2c' = [s2c EXCEPT ![c] = Append(@, s.pdu)]
      /\ job' = Job(job.fd, Tail(job.todo), job.closing)
  BY DEF SendNext, ServerSendReturns, clientVars
<1>3. HT!Bindings' = HT!Bindings
  BY BindingsChange DEF SendNext
<1>4. OpenFds' = OpenFds /\ BoundFds' = BoundFds
  BY <1>2, <1>3, SameRegistry
<1>5. /\ job'.todo = Tail(job.todo) /\ job'.closing = job.closing
      /\ job.closing => job'.fd = job.fd
  BY <1>1, <1>2, JobFields
<1>6. GoodSend(s)
  BY <1>1, TailElements DEF Live, JobGood
<1>7. c \in Clients /\ s2c[c] \in Seq(ServerPdu)
  BY <1>2 DEF Typed, TcpTyped, OpenFds
<1> HIDE DEF s, c
<1>8. \A d \in Clients : \A i \in DOMAIN s2c'[d] :
        \/ i \in DOMAIN s2c[d] /\ s2c'[d][i] = s2c[d][i]
        \/ d = c /\ s2c'[d][i] = s.pdu
  <2>1. /\ s2c'[c] = Append(s2c[c], s.pdu)
        /\ \A d \in Clients \ {c} : s2c'[d] = s2c[d]
    BY <1>2, <1>7 DEF Typed, TcpTyped
  <2> QED BY <1>7, <2>1, AppendElements
<1>9. JobGood'
  <2>1. \A i \in DOMAIN job'.todo :
          i + 1 \in DOMAIN job.todo /\ job'.todo[i] = job.todo[i + 1]
    BY <1>1, <1>5, TailElements
  <2> QED BY <1>2, <1>4, <1>5, <2>1 DEF JobGood, GoodSend, Live
<1>10. \A d \in Clients : Unheard(d) => Unheard(d)'
  BY <1>2, <1>4, <1>5 DEF Unheard
<1>11. Handshake'
  BY <1>2, <1>10 DEF Handshake, Live
<1>12. Admitted'
  <2>1. \A d : Registered(d) <=> Registered(d)'
    BY <1>2, <1>3, SameRegistry
  <2>2. s.pdu.flag = GOOD_CONNECT_FLAG => Registered(c)
    BY <1>6 DEF GoodSend, Registered, c
  <2> QED BY <1>2, <1>8, <2>1, <2>2 DEF Admitted, Live
<1>13. OwnPdus' /\ ClosedAreGone' /\ LineInChat'
  BY <1>2 DEF OwnPdus, ClosedAreGone, LineInChat, Live, Honest, myHandle
<1>14. EntriesLive' /\ PollSetOpen' /\ OneConnection'
  BY <1>2, <1>3, SameRegistry DEF Live
<1> QED BY <1>9, <1>11, <1>12, <1>13, <1>14 DEF Live

LEMMA ServerLive ==
  ASSUME Typed, Typed', Live, ServerStep, alive'
  PROVE  Live'
<1>1. UNCHANGED clientVars
  BY DEF ServerStep
<1>2. ~ServerDies
  BY DEF ServerDies
<1>3. ASSUME NEW fd \in Fds, FlagBroadcast(fd)
      PROVE  Live'
  <2>1. BROADCAST_FLAG # INIT_CONNECT_FLAG
    BY DEF BROADCAST_FLAG, INIT_CONNECT_FLAG
  <2> QED BY <1>1, <1>3, <2>1, BroadcastGood, ServiceLive DEF FlagBroadcast
<1>4. ASSUME NEW fd \in Fds, FlagUnicast(fd) \/ FlagMulticast(fd)
      PROVE  Live'
  <2>1. UNICAST_FLAG # INIT_CONNECT_FLAG /\ MULTICAST_FLAG # INIT_CONNECT_FLAG
    BY DEF UNICAST_FLAG, MULTICAST_FLAG, INIT_CONNECT_FLAG
  <2> QED BY <1>1, <1>4, <2>1, ForwardGood, ServiceLive DEF FlagUnicast, FlagMulticast
<1>5. ASSUME NEW fd \in Fds, FlagHandleList(fd)
      PROVE  Live'
  <2>1. HANDLE_LIST_FLAG # INIT_CONNECT_FLAG
    BY DEF HANDLE_LIST_FLAG, INIT_CONNECT_FLAG
  <2>2. fd \in OpenFds
    BY <1>5 DEF FlagHandleList, Received, ServerRecv
  <2> QED BY <1>1, <1>5, <2>1, <2>2, HandleListGood, ServiceLive DEF FlagHandleList
<1> QED BY <1>1, <1>2, <1>3, <1>4, <1>5, SendNextLive, CloseRejectedLive,
           AddNewClientLive, FlagConnectLive, DisconnectLive
        DEF ServerStep, ServerNext, AcceptExits, SendKillsServer

------------------------------------------------------------------------------
(* The invariant. *)

LEMMA InitInv == Init => IInv
<1> SUFFICES ASSUME Init PROVE IInv
  OBVIOUS
<1>1. Typed
  BY InitTyped
<1>2. HT!Bindings = {}
  <2>1. HT!ValidSlots = {}
    BY DEF Init, ServerInit, HT!Init, HT!ValidSlots, HT!Slots
  <2> QED BY <1>1, <2>1, SameBindings
<1>3. OpenFds = {} /\ BoundFds = {}
  BY <1>2 DEF Init, TcpInit, OpenFds, BoundFds
<1>4. /\ backlog = <<>> /\ polled = {} /\ job = NoJob /\ alive
      /\ \A c \in Clients : /\ c2s[c] = <<>> /\ s2c[c] = <<>> /\ outq[c] = <<>>
                            /\ pc[c] = "start" /\ cliEnd[c] = "none"
      /\ \A fd \in Fds : conn[fd] = NoClient
  BY DEF Init, TcpInit, ServerInit, ClientInit
<1>5. Handshake
  <2>1. \A c \in Clients : \A fd \in Fds : conn[fd] # c
    BY <1>4, TcpAssumption
  <2>2. \A c \in Clients : Unheard(c)
    BY <2>1 DEF Unheard
  <2>3. DOMAIN backlog = {} /\ \A c \in Clients : DOMAIN c2s[c] = {}
    BY <1>4
  <2>4. \A c \in Clients : c2s[c] = <<>>
    BY <1>4
  <2> HIDE DEF Unheard
  <2> QED BY <2>1, <2>2, <2>3, <2>4 DEF Handshake
<1>6. PollSetOpen /\ OneConnection /\ EntriesLive
  BY <1>2, <1>3, <1>4 DEF PollSetOpen, OneConnection, EntriesLive
<1>7. OwnPdus /\ JobGood /\ Admitted /\ ClosedAreGone /\ LineInChat /\ Delivered
  BY <1>4 DEF OwnPdus, JobGood, NoJob, Admitted, ClosedAreGone, LineInChat, Delivered
<1> QED BY <1>1, <1>4, <1>5, <1>6, <1>7 DEF IInv, Live

LEMMA DeliveredKept ==
  ASSUME IInv, Typed', [Next]_vars
  PROVE  Delivered'
<1>1. \A d, pdu : ForClient(d, pdu)' <=> ForClient(d, pdu)
  BY DEF ForClient, myHandle
<1> DEFINE Shrinks == \A d \in Clients : \A i \in DOMAIN s2c'[d] :
                        \E j \in DOMAIN s2c[d] : s2c'[d][i] = s2c[d][j]
<1>2. Shrinks => Delivered'
  BY DEF IInv, Delivered, ForClient, myHandle
<1>3. s2c' = s2c => Shrinks
  OBVIOUS
<1>4. (\A d \in Clients : s2c'[d] = <<>> \/ s2c'[d] = s2c[d]) => Shrinks
  OBVIOUS
<1>5. ASSUME NEW c \in Clients, ClientRecv(c)
      PROVE  Shrinks
  <2>1. /\ s2c'[c] = Tail(s2c[c]) /\ s2c[c] # <<>> /\ s2c[c] \in Seq(ServerPdu)
        /\ \A d \in Clients \ {c} : s2c'[d] = s2c[d]
    BY <1>5 DEF ClientRecv, IInv, Typed, TcpTyped
  <2>2. \A i \in DOMAIN s2c'[c] : i + 1 \in DOMAIN s2c[c] /\ s2c'[c][i] = s2c[c][i + 1]
    BY <2>1, TailElements
  <2> QED BY <2>1, <2>2
<1>6. ASSUME NEW c \in Clients, Exit(c)
      PROVE  Shrinks
  BY <1>4, <1>6 DEF Exit, ClientClose, IInv, Typed, TcpTyped
<1> HIDE DEF Shrinks
<1>7. ASSUME NEW lost, CloseServerEnds(lost)
      PROVE  Shrinks
  BY <1>4, <1>7 DEF CloseServerEnds
<1>8. CASE SendNext
  <2> DEFINE s == Head(job.todo)
             c == conn[s.sock]
  <2>1. /\ alive /\ Typed /\ job.todo \in Seq(Sends) /\ job.todo # <<>>
    BY <1>8 DEF SendNext, IInv, Typed, ServerTyped
  <2>2. ForClient(c, s.pdu) /\ s.sock \in OpenFds
    BY <2>1, TailElements DEF IInv, Live, JobGood, GoodSend
  <2>3. c \in Clients /\ s2c[c] \in Seq(ServerPdu) /\ s2c \in [Clients -> Seq(ServerPdu)]
    BY <2>1, <2>2 DEF Typed, TcpTyped, OpenFds
  <2>4. s2c' = [s2c EXCEPT ![c] = Append(@, s.pdu)]
    BY <1>8 DEF SendNext, ServerSendReturns
  <2> HIDE DEF s, c
  <2>5. /\ s2c'[c] = Append(s2c[c], s.pdu)
        /\ \A d \in Clients \ {c} : s2c'[d] = s2c[d]
    BY <2>3, <2>4
  <2>6. \A d \in Clients : \A i \in DOMAIN s2c'[d] :
          \/ i \in DOMAIN s2c[d] /\ s2c'[d][i] = s2c[d][i]
          \/ d = c /\ s2c'[d][i] = s.pdu
    BY <2>3, <2>5, AppendElements
  <2> QED BY <1>1, <2>2, <2>6 DEF IInv, Delivered, ForClient, myHandle
<1>9. ASSUME NEW fd \in Fds,
             \/ FlagConnect(fd) \/ FlagBroadcast(fd) \/ FlagUnicast(fd)
             \/ FlagMulticast(fd) \/ FlagHandleList(fd) \/ AddNewClient(fd)
      PROVE  s2c' = s2c
  BY <1>9 DEF FlagConnect, FlagBroadcast, FlagUnicast, FlagMulticast, FlagHandleList,
              Received, ServerRecv, AddNewClient, AcceptCall
<1>10. CASE ServerStep
  <2>1. ServerDies \/ CloseRejected \/ (\E fd \in Fds : Disconnect(fd)) => Shrinks
    BY <1>7 DEF ServerDies, ServerExit, CloseRejected, Disconnect, ServerClose
  <2> QED BY <1>2, <1>3, <1>8, <1>9, <1>10, <2>1
          DEF ServerStep, ServerNext, AcceptExits, SendKillsServer
<1>11. ASSUME NEW c \in Clients, ConnectStep(c)
       PROVE  s2c' = s2c
  BY <1>11 DEF ConnectStep, Connect, ResolveFails, ConnectCall, tcpVars
<1>12. ASSUME NEW c \in Clients, UserStep(c)
       PROVE  Shrinks
  BY <1>3, <1>6, <1>12 DEF UserStep, User, SendBroadcast, SendUnicast, SendMulticast,
     SendHandleList, TakeLine, ReadFromStdin, IgnoreLine, Leave, tcpVars
<1>13. ASSUME NEW c \in Clients, ProgramStep(c)
       PROVE  Shrinks
  BY <1>3, <1>5, <1>6, <1>13 DEF ProgramStep, Program, InitConnectHandle,
     RecvConnectAnswer, SendPDU, ProcessMsgFromServer, FlagListBegin, ClientSendReturns
<1>14. ASSUME NEW c \in Clients, NetworkStep(c)
       PROVE  Shrinks
  BY <1>4, <1>14 DEF NetworkStep, Reset, IInv, Typed, TcpTyped
<1>15. CASE UNCHANGED vars
  BY <1>2, <1>3, <1>15 DEF vars, tcpVars
<1> QED BY <1>2, <1>3, <1>10, <1>11, <1>12, <1>13, <1>14, <1>15 DEF Next

LEMMA NextInv == IInv /\ [Next]_vars => IInv'
<1> SUFFICES ASSUME IInv, [Next]_vars PROVE IInv'
  OBVIOUS
<1>1. Typed /\ Typed'
  BY NextTyped DEF IInv
<1>2. Delivered'
  BY <1>1, DeliveredKept
<1>3. alive' => alive
  <2>1. CASE ServerStep
    BY <2>1 DEF ServerStep, ServerNext, AcceptExits, SendNext, SendKillsServer,
       CloseRejected, AddNewClient, FlagConnect, FlagBroadcast, FlagUnicast,
       FlagMulticast, FlagHandleList, Disconnect, ServerDies
  <2> QED BY <2>1 DEF Next, ConnectStep, UserStep, ProgramStep, NetworkStep,
          serverVars, vars
<1>4. ~alive' => job' = NoJob
  <2>1. CASE ServerStep
    <3>1. ServerDies \/ (alive /\ alive' = alive)
      BY <2>1 DEF ServerStep, ServerNext, AcceptExits, SendNext, SendKillsServer,
         CloseRejected, AddNewClient, FlagConnect, FlagBroadcast, FlagUnicast,
         FlagMulticast, FlagHandleList, Disconnect, Received, Polling
    <3> QED BY <3>1 DEF ServerDies
  <2> QED BY <2>1 DEF IInv, Next, ConnectStep, UserStep, ProgramStep, NetworkStep,
          serverVars, vars
<1>5. ASSUME alive' PROVE Live'
  <2>1. Live
    BY <1>3, <1>5 DEF IInv
  <2>2. CASE ServerStep
    BY <1>1, <1>5, <2>1, <2>2, ServerLive
  <2>3. CASE UNCHANGED vars
    <3>1. HT!Bindings' = HT!Bindings /\ UNCHANGED <<conn, job, polled, backlog>>
      BY <1>1, <2>3, ServerStill DEF vars, tcpVars
    <3>2. UNCHANGED <<pc, outq, c2s, s2c, cliEnd>>
      BY <2>3 DEF vars, tcpVars, clientVars
    <3>3. \A c : Registered(c) <=> Registered(c)'
      BY <3>1, SameRegistry
    <3>4. \A c : Unheard(c) <=> Unheard(c)'
      BY <3>1, SameRegistry
    <3>5. Handshake' /\ Admitted'
      BY <2>1, <3>1, <3>2, <3>3, <3>4 DEF Handshake, Admitted, Live
    <3>6. OwnPdus' /\ ClosedAreGone' /\ LineInChat'
      BY <2>1, <3>2 DEF OwnPdus, ClosedAreGone, LineInChat, Live, Honest, myHandle
    <3> QED BY <2>1, <3>1, <3>5, <3>6, SameRegistry DEF Live
  <2> QED BY <1>1, <2>1, <2>2, <2>3, ConnectLive, UserLive, ProgramLive, NetworkLive
          DEF Next
<1> QED BY <1>1, <1>2, <1>4, <1>5 DEF IInv

------------------------------------------------------------------------------
(* The theorems. *)

THEOREM Invariance == Spec => []IInv
BY InitInv, NextInv, PTL DEF Spec

\* Every valid entry of the table belongs to the client that registered its
\* name, on a descriptor that is open: removeHandle is called before every
\* close() of a descriptor that is in the table, so a descriptor that accept()
\* hands out again brings no old name with it.
THEOREM EntriesAreLive == Spec => []NoStaleEntry
<1>1. IInv => NoStaleEntry
  <2> SUFFICES ASSUME IInv, alive, NEW i \in HT!ValidSlots
               PROVE  /\ SocketAt(i) \in OpenFds
                      /\ ArgvHandle[conn[SocketAt(i)]] = HandleAt(i)
    BY DEF NoStaleEntry
  <2>1. <<HandleAt(i), SocketAt(i)>> \in HT!Bindings
    BY SameBindings DEF IInv
  <2> QED BY <2>1 DEF IInv, Live, EntriesLive
<1> QED BY <1>1, Invariance, PTL

\* A client that reads flag 2 has an entry and keeps it while it runs: no step
\* of another client, refused or leaving, takes it away.
THEOREM AdmittedStay == Spec => []LoggedInIsRegistered
<1>1. IInv => LoggedInIsRegistered
  <2> SUFFICES ASSUME IInv, alive, NEW c \in Clients, pc[c] \in {"chat", "line", "list"}
               PROVE  \E fd \in Fds : conn[fd] = c /\ <<myHandle(c), fd>> \in HT!Bindings
    BY DEF LoggedInIsRegistered
  <2>1. Registered(c)
    BY DEF IInv, Live, Admitted
  <2>2. PICK entry \in HT!Bindings : conn[entry[2]] = c
    BY <2>1 DEF Registered, BoundFds
  <2>3. entry = <<entry[1], entry[2]>> /\ entry[2] \in Fds
    BY SameBindings DEF IInv
  <2>4. entry[1] = myHandle(c)
    BY <2>2 DEF IInv, Live, EntriesLive, myHandle
  <2> QED BY <2>2, <2>3, <2>4
<1> QED BY <1>1, Invariance, PTL

\* accept() and close() never leave the poll set and the descriptors apart when
\* the server is about to poll.
THEOREM PolledAreOpen == Spec => []PollMatchesOpen
<1>1. IInv => PollMatchesOpen
  BY DEF IInv, Live, PollSetOpen, PollMatchesOpen, Polling
<1> QED BY <1>1, Invariance, PTL

\* What is under way to a client and what the server has left to send it.
LEMMA StreamElements ==
  ASSUME Typed, NEW c \in Clients
  PROVE  /\ s2c[c] \in Seq(ServerPdu) /\ Pending(c) \in Seq(ServerPdu)
         /\ \A k \in DOMAIN Pending(c) : \E i \in DOMAIN job.todo :
              conn[job.todo[i].sock] = c /\ Pending(c)[k] = job.todo[i].pdu
         /\ \A i \in DOMAIN Stream(c) :
              \/ i \in DOMAIN s2c[c] /\ Stream(c)[i] = s2c[c][i]
              \/ \E k \in DOMAIN Pending(c) : Stream(c)[i] = Pending(c)[k]
<1> DEFINE mine == {i \in DOMAIN job.todo :
                      job.todo[i].sock \in Fds /\ conn[job.todo[i].sock] = c}
           n == Cardinality(mine)
<1>1. job.todo \in Seq(Sends) /\ s2c[c] \in Seq(ServerPdu)
  BY DEF Typed, ServerTyped, TcpTyped
<1>2. mine \in SUBSET Nat /\ IsFiniteSet(mine)
  <2>1. DOMAIN job.todo = 1 .. Len(job.todo) /\ Len(job.todo) \in Nat
    BY <1>1
  <2>2. IsFiniteSet(1 .. Len(job.todo))
    BY <2>1, FS_Interval
  <2> QED BY <2>1, <2>2, FS_Subset
<1>3. Pending(c) = [k \in DOMAIN InOrder(mine) |-> job.todo[InOrder(mine)[k]].pdu]
  BY DEF Pending
<1>4. \A i \in mine : /\ i \in DOMAIN job.todo /\ conn[job.todo[i].sock] = c
                      /\ job.todo[i].pdu \in ServerPdu
  <2>1. \A i \in DOMAIN job.todo : job.todo[i] \in Sends
    BY <1>1
  <2> QED BY <2>1 DEF Sends
<1> HIDE DEF mine
<1>5. n \in Nat /\ InOrder(mine) \in [1 .. n -> mine]
  BY <1>2, InOrderEnumerates
<1> HIDE DEF n
<1>6. DOMAIN InOrder(mine) = 1 .. n /\ \A k \in 1 .. n : InOrder(mine)[k] \in mine
  BY <1>5
<1>7. Pending(c) \in Seq(ServerPdu) /\ DOMAIN Pending(c) = 1 .. n
  BY <1>3, <1>4, <1>5, <1>6
<1>8. \A k \in 1 .. n : Pending(c)[k] = job.todo[InOrder(mine)[k]].pdu
  BY <1>3, <1>6
<1>9. \A k \in DOMAIN Pending(c) : \E i \in DOMAIN job.todo :
        conn[job.todo[i].sock] = c /\ Pending(c)[k] = job.todo[i].pdu
  BY <1>4, <1>6, <1>7, <1>8
<1>10. \A i \in DOMAIN Stream(c) :
         \/ i \in DOMAIN s2c[c] /\ Stream(c)[i] = s2c[c][i]
         \/ \E k \in DOMAIN Pending(c) : Stream(c)[i] = Pending(c)[k]
  BY <1>1, <1>7, ConcatElements DEF Stream
<1> QED BY <1>1, <1>7, <1>9, <1>10

\* No text reaches, or is about to be sent to, a client it is not for, although
\* descriptors and names change hands while it is under way.
THEOREM NothingMisdelivered == Spec => []NoMisdelivery
<1>1. IInv => NoMisdelivery
  <2> SUFFICES ASSUME IInv, NEW c \in Clients, NEW i \in DOMAIN Stream(c)
               PROVE  ForClient(c, Stream(c)[i])
    BY DEF NoMisdelivery, ForClient
  <2>1. Typed
    BY DEF IInv
  <2>2. \A j \in DOMAIN s2c[c] : ForClient(c, s2c[c][j])
    BY DEF IInv, Delivered
  <2>3. \A k \in DOMAIN Pending(c) : ForClient(c, Pending(c)[k])
    <3>1. alive \/ DOMAIN job.todo = {}
      BY DEF IInv, NoJob
    <3>2. \A j \in DOMAIN job.todo : ForClient(conn[job.todo[j].sock], job.todo[j].pdu)
      BY <3>1 DEF IInv, Live, JobGood, GoodSend
    <3> QED BY <2>1, <3>2, StreamElements
  <2> QED BY <2>1, <2>2, <2>3, StreamElements
<1> QED BY <1>1, Invariance, PTL
==============================================================================
