---------------------------- MODULE ChatRoomProofs ----------------------------
(***************************************************************************)
(* The system implements ChatRoom: to its clients the server handles every *)
(* PDU in one step, the first step of its handler.  What the handler's     *)
(* loop has still to send counts as delivered from then on; the refinement *)
(* mapping is Members, Left and Inbox of ChatSystem.                       *)
(*                                                                         *)
(* A step of a handler must find what its step of the room asks for.  The  *)
(* invariant RInv adds to that of ChatTableProofs: a PDU is signed with    *)
(* the name of its sender; one that is not flag 1 comes from a client that *)
(* is in the table, so the server answers members only; and when a client  *)
(* that was turned away is closed nothing of it is left to read.           *)
(***************************************************************************)
EXTENDS ChatStreamProofs

\* What a connection's ends know of each other, whoever runs.
Kernel ==
  \A c \in Clients :
    /\ srvEnd[c] = "open" => cliEnd[c] = "open"
    /\ c2s[c] # <<>> => cliEnd[c] # "none"
    /\ cliEnd[c] \in {"closed", "reset"} => pc[c] = "gone"

Signed(c, pdu) == pdu.flag \in TextFlags => pdu.src = myHandle(c)

AllSigned ==
  \A c \in Clients :
    /\ \A i \in DOMAIN c2s[c] : Signed(c, c2s[c][i])
    /\ \A i \in DOMAIN outq[c] : Signed(c, outq[c][i])

Heard ==
  \A c \in Clients : \A i \in DOMAIN c2s[c] :
    c2s[c][i].flag # INIT_CONNECT_FLAG => Registered(c)

Refused == job.closing => c2s[conn[job.fd]] = <<>>

RInv == IInv /\ Kernel /\ AllSigned /\ (alive => Heard /\ Refused)

------------------------------------------------------------------------------
(* What a step of a client is to the room. *)

\* The process ends; it may not have connected yet.
Quits(c) ==
  /\ pc' = [pc EXCEPT ![c] = "gone"]
  /\ c2s' = c2s
  /\ outq' = outq \/ outq' = [outq EXCEPT ![c] = <<>>]
  /\ \A d \in Clients \ {c} :
       s2c'[d] = s2c[d] /\ cliEnd'[d] = cliEnd[d] /\ srvEnd'[d] = srvEnd[d]
  /\ \/ srvEnd'[c] = srvEnd[c] /\ cliEnd'[c] = cliEnd[c]
     \/ srvEnd'[c] = "none" /\ cliEnd'[c] \in {cliEnd[c], "closed"}

Asks(c, pdu) ==
  /\ c2s' = [c2s EXCEPT ![c] = Append(@, pdu)]
  /\ UNCHANGED <<s2c, cliEnd, srvEnd>>
  /\ srvEnd[c] = "open"
  /\ \/ /\ pc[c] = "connected"
        /\ pc' = [pc EXCEPT ![c] = "wait"]
        /\ outq' = outq
        /\ pdu.flag = INIT_CONNECT_FLAG
     \/ /\ outq[c] # <<>>
        /\ pc' = pc
        /\ pdu = Head(outq[c])
        /\ outq' = [outq EXCEPT ![c] = Tail(@)]

Reads(c) ==
  /\ ClientRecv(c)
  /\ pc[c] # "gone"
  /\ pc' = pc \/ \E stage \in Stages \ {"gone"} : pc' = [pc EXCEPT ![c] = stage]
  /\ outq' = outq

\* Nothing the room would notice.
Rests ==
  /\ c2s' = c2s
  /\ \A d \in Clients :
       /\ pc'[d] = "gone" <=> pc[d] = "gone"
       /\ s2c'[d] = s2c[d] \/ pc[d] = "gone"
       /\ srvEnd'[d] = "open" => \/ cliEnd'[d] = "open"
                                 \/ srvEnd[d] = "open" /\ cliEnd'[d] = cliEnd[d]
       /\ cliEnd'[d] = "none" => cliEnd[d] = "none"
       /\ cliEnd'[d] \in {"closed", "reset"} => cliEnd[d] \in {"closed", "reset"}
       /\ outq'[d] = outq[d] \/ \A i \in DOMAIN outq'[d] : Signed(d, outq'[d][i])

LEMMA ExitQuits ==
  ASSUME Typed, NEW c \in Clients, Exit(c)
  PROVE  Quits(c)
BY DEF Exit, Goto, ClientClose, Quits, Typed, TcpTyped

LEMMA LineRests ==
  ASSUME Typed, NEW c \in Clients, NEW line, TakeLine(c, line),
         \A i \in DOMAIN line : Signed(c, line[i])
  PROVE  Rests
<1>1. /\ UNCHANGED <<c2s, s2c, srvEnd, cliEnd>>
      /\ \A d \in Clients : pc'[d] = "gone" <=> pc[d] = "gone"
      /\ outq'[c] = line /\ \A d \in Clients \ {c} : outq'[d] = outq[d]
  BY DEF TakeLine, Goto, tcpVars, Typed, ClientsTyped
<1> QED BY <1>1 DEF Rests

LEMMA UserKinds ==
  ASSUME Typed, NEW c \in Clients, User(c)
  PROVE  Quits(c) \/ Rests
<1>1. CASE SendBroadcast(c)
  <2>1. PICK chunks \in 1 .. MaxChunks :
          TakeLine(c, [i \in 1 .. chunks |->
            BroadcastPacket(myHandle(c), Piece(c, i))])
    BY <1>1 DEF SendBroadcast
  <2>2. \A i \in 1 .. chunks : Signed(c, BroadcastPacket(myHandle(c), Piece(c, i)))
    BY DEF Signed, BroadcastPacket
  <2> QED BY <2>1, <2>2, LineRests
<1>2. CASE SendUnicast(c)
  <2>1. PICK chunks \in 1 .. MaxChunks, dst \in LegalNames :
          TakeLine(c, [i \in 1 .. chunks |->
            MessagePacket(UNICAST_FLAG, myHandle(c), <<dst>>, Piece(c, i))])
    BY <1>2 DEF SendUnicast
  <2>2. \A i \in 1 .. chunks :
          Signed(c, MessagePacket(UNICAST_FLAG, myHandle(c), <<dst>>, Piece(c, i)))
    BY DEF Signed, MessagePacket
  <2> QED BY <2>1, <2>2, LineRests
<1>3. CASE SendMulticast(c)
  <2>1. PICK chunks \in 1 .. MaxChunks, numOfDst \in HANDLES_MIN .. MaxDsts :
          \E dsts \in [1 .. numOfDst -> LegalNames] :
            TakeLine(c, [i \in 1 .. chunks |->
              MessagePacket(MULTICAST_FLAG, myHandle(c), dsts, Piece(c, i))])
    BY <1>3 DEF SendMulticast
  <2>2. PICK dsts \in [1 .. numOfDst -> LegalNames] :
          TakeLine(c, [i \in 1 .. chunks |->
            MessagePacket(MULTICAST_FLAG, myHandle(c), dsts, Piece(c, i))])
    BY <2>1
  <2>3. \A i \in 1 .. chunks :
          Signed(c, MessagePacket(MULTICAST_FLAG, myHandle(c), dsts, Piece(c, i)))
    BY DEF Signed, MessagePacket
  <2> QED BY <2>2, <2>3, LineRests
<1>4. CASE SendHandleList(c)
  <2> DEFINE line == <<ChatHeaderPacket(HANDLE_LIST_FLAG)>>
  <2>1. TakeLine(c, line)
    BY <1>4 DEF SendHandleList
  <2>2. DOMAIN line = {1} /\ line[1].flag = HANDLE_LIST_FLAG
    BY DEF ChatHeaderPacket
  <2>3. \A i \in DOMAIN line : Signed(c, line[i])
    BY <2>2 DEF Signed, TextFlags, HANDLE_LIST_FLAG, BROADCAST_FLAG, UNICAST_FLAG,
                MULTICAST_FLAG
  <2> HIDE DEF line
  <2> QED BY <2>1, <2>3, LineRests
<1>5. CASE Leave(c)
  BY <1>5, ExitQuits DEF Leave
<1>6. CASE ReadFromStdin(c) \/ IgnoreLine(c)
  <2>1. /\ UNCHANGED <<c2s, s2c, srvEnd, cliEnd, outq>>
        /\ \A d \in Clients : pc'[d] = "gone" <=> pc[d] = "gone"
    BY <1>6 DEF ReadFromStdin, IgnoreLine, Goto, tcpVars, Typed, ClientsTyped
  <2> QED BY <2>1 DEF Rests
<1> QED BY <1>1, <1>2, <1>3, <1>4, <1>5, <1>6 DEF User

\* A send that returns: the server takes the PDU, or has closed already.
LEMMA SendKinds ==
  ASSUME Typed, NEW c \in Clients, NEW pdu, ClientSendReturns(c, pdu),
         \/ /\ pc[c] = "connected" /\ pc' = [pc EXCEPT ![c] = "wait"]
            /\ outq' = outq /\ pdu.flag = INIT_CONNECT_FLAG
         \/ /\ outq[c] # <<>> /\ pc' = pc /\ pdu = Head(outq[c])
            /\ outq' = [outq EXCEPT ![c] = Tail(@)],
         AllSigned
  PROVE  Asks(c, pdu) \/ Rests
<1>1. CASE srvEnd[c] = "open" /\ c2s' = [c2s EXCEPT ![c] = Append(@, pdu)] /\ UNCHANGED srvEnd
  BY <1>1 DEF Asks, ClientSendReturns
<1>2. CASE /\ srvEnd[c] = "fin" /\ UNCHANGED c2s
           /\ \E seen \in {"fin", "rst"} : srvEnd' = [srvEnd EXCEPT ![c] = seen]
  <2>1. /\ UNCHANGED <<c2s, s2c, cliEnd>> /\ srvEnd'[c] # "open"
        /\ \A d \in Clients \ {c} : srvEnd'[d] = srvEnd[d]
    BY <1>2 DEF ClientSendReturns, Typed, TcpTyped
  <2>2. \A d \in Clients : pc'[d] = "gone" <=> pc[d] = "gone"
    BY DEF Typed, ClientsTyped
  <2>3. \A d \in Clients :
          outq'[d] = outq[d] \/ \A i \in DOMAIN outq'[d] : Signed(d, outq'[d][i])
    <3>1. CASE outq' = outq
      BY <3>1
    <3>2. CASE outq[c] # <<>> /\ outq' = [outq EXCEPT ![c] = Tail(@)]
      <4>1. outq[c] \in Seq(LinePdu) /\ outq'[c] = Tail(outq[c])
            /\ \A d \in Clients \ {c} : outq'[d] = outq[d]
        BY <3>2 DEF Typed, ClientsTyped
      <4>2. \A i \in DOMAIN Tail(outq[c]) :
              i + 1 \in DOMAIN outq[c] /\ Tail(outq[c])[i] = outq[c][i + 1]
        BY <3>2, <4>1, TailElements
      <4>3. \A i \in DOMAIN Tail(outq[c]) : Signed(c, Tail(outq[c])[i])
        BY <4>2 DEF AllSigned
      <4> QED BY <4>1, <4>3
    <3> QED BY <3>1, <3>2
  <2> QED BY <2>1, <2>2, <2>3 DEF Rests
<1> QED BY <1>1, <1>2 DEF ClientSendReturns

LEMMA ProgramKinds ==
  ASSUME Typed, AllSigned, NEW c \in Clients, Program(c)
  PROVE  Quits(c) \/ (\E pdu : Asks(c, pdu)) \/ Reads(c) \/ Rests
<1>1. CASE Exit(c)
  BY <1>1, ExitQuits
<1>2. CASE InitConnectHandle(c) /\ ~Exit(c)
  <2> DEFINE hello == HandleOnlyPacket(INIT_CONNECT_FLAG, myHandle(c))
  <2>1. /\ ClientSendReturns(c, hello) /\ UNCHANGED <<outq, sent>>
        /\ pc[c] = "connected" /\ pc' = [pc EXCEPT ![c] = "wait"]
    BY <1>2 DEF InitConnectHandle, Goto
  <2>2. hello.flag = INIT_CONNECT_FLAG
    BY DEF HandleOnlyPacket
  <2> HIDE DEF hello
  <2> QED BY <2>1, <2>2, SendKinds
<1>3. CASE SendPDU(c) /\ ~Exit(c)
  <2>1. /\ ClientSendReturns(c, Head(outq[c])) /\ pc' = pc /\ outq[c] # <<>>
        /\ outq' = [outq EXCEPT ![c] = Tail(@)]
    BY <1>3 DEF SendPDU
  <2> QED BY <2>1, SendKinds
<1>4. CASE /\ RecvConnectAnswer(c) \/ ProcessMsgFromServer(c) \/ FlagListBegin(c)
           /\ ~Exit(c)
  <2>1. ClientRecv(c) /\ outq' = outq /\ pc[c] # "gone"
    BY <1>4 DEF RecvConnectAnswer, ProcessMsgFromServer, FlagListBegin
  <2>2. pc' = pc \/ pc' = [pc EXCEPT ![c] = "chat"] \/ pc' = [pc EXCEPT ![c] = "list"]
    BY <1>4 DEF RecvConnectAnswer, ProcessMsgFromServer, FlagListBegin, Goto
  <2> QED BY <2>1, <2>2 DEF Reads, Stages
<1> QED BY <1>1, <1>2, <1>3, <1>4 DEF Program

LEMMA ConnectKinds ==
  ASSUME Typed, NEW c \in Clients, Connect(c, alive)
  PROVE  Quits(c) \/ Rests
<1>1. outq' = outq /\ pc[c] = "start"
  BY DEF Connect
<1>2. CASE ConnectCall(c) /\ Goto(c, "connected")
  <2>1. /\ c2s' = c2s /\ s2c' = s2c
        /\ cliEnd' = [cliEnd EXCEPT ![c] = "open"] /\ srvEnd' = [srvEnd EXCEPT ![c] = "open"]
        /\ pc' = [pc EXCEPT ![c] = "connected"]
    BY <1>2 DEF ConnectCall, Goto
  <2>2. /\ cliEnd'[c] = "open" /\ srvEnd'[c] = "open" /\ pc'[c] = "connected"
        /\ \A d \in Clients \ {c} :
             cliEnd'[d] = cliEnd[d] /\ srvEnd'[d] = srvEnd[d] /\ pc'[d] = pc[d]
    BY <2>1 DEF Typed, TcpTyped, ClientsTyped
  <2>3. c2s' = c2s /\ s2c' = s2c
    BY <2>1
  <2>4. Rests
    BY <1>1, <2>2, <2>3 DEF Rests
  <2> QED BY <2>4
<1>3. CASE Goto(c, "gone") /\ UNCHANGED tcpVars
  <2>1. /\ c2s' = c2s /\ s2c' = s2c /\ cliEnd' = cliEnd /\ srvEnd' = srvEnd
        /\ pc' = [pc EXCEPT ![c] = "gone"]
    BY <1>3 DEF Goto, tcpVars
  <2> QED BY <1>1, <2>1 DEF Quits
<1>4. \/ ConnectCall(c) /\ Goto(c, "connected")
      \/ Goto(c, "gone") /\ UNCHANGED tcpVars
  BY DEF Connect, ResolveFails
<1> QED BY <1>2, <1>3, <1>4

LEMMA NetworkKinds ==
  ASSUME Typed, Kernel, NEW c \in Clients, NetworkStep(c)
  PROVE  Rests
<1>1. /\ c2s' = c2s /\ srvEnd' = srvEnd /\ pc' = pc /\ outq' = outq
      /\ cliEnd[c] = "closed" /\ cliEnd' = [cliEnd EXCEPT ![c] = "reset"]
      /\ s2c' = [s2c EXCEPT ![c] = <<>>]
  BY DEF NetworkStep, Reset, clientVars
<1>2. pc[c] = "gone" /\ srvEnd[c] # "open"
  BY <1>1 DEF Kernel
<1>3. \A d \in Clients \ {c} : s2c'[d] = s2c[d] /\ cliEnd'[d] = cliEnd[d]
  BY <1>1 DEF Typed, TcpTyped
<1>4. cliEnd'[c] = "reset"
  BY <1>1 DEF Typed, TcpTyped
<1> QED BY <1>1, <1>2, <1>3, <1>4 DEF Rests

LEMMA ClientKinds ==
  ASSUME Typed, Kernel, AllSigned, NEW c \in Clients,
         ConnectStep(c) \/ UserStep(c) \/ ProgramStep(c) \/ NetworkStep(c)
  PROVE  /\ UNCHANGED serverVars /\ conn' = conn
         /\ Quits(c) \/ (\E pdu : Asks(c, pdu)) \/ Reads(c) \/ Rests
<1>1. CASE ConnectStep(c)
  BY <1>1, ConnectKinds DEF ConnectStep, Connect, ResolveFails, ConnectCall, tcpVars
<1>2. CASE UserStep(c)
  BY <1>2, UserKinds DEF UserStep, User, SendBroadcast, SendUnicast, SendMulticast,
     SendHandleList, TakeLine, ReadFromStdin, IgnoreLine, Leave, Exit, ClientClose, tcpVars
<1>3. CASE ProgramStep(c)
  BY <1>3, ProgramKinds DEF ProgramStep, Program, InitConnectHandle, RecvConnectAnswer,
     SendPDU, ProcessMsgFromServer, FlagListBegin, ClientSendReturns, ClientRecv, Exit,
     ClientClose
<1>4. CASE NetworkStep(c)
  BY <1>4, NetworkKinds DEF NetworkStep, Reset
<1> QED BY <1>1, <1>2, <1>3, <1>4
------------------------------------------------------------------------------
(* The steps of clients and of the network keep the invariant. *)

\* Who is in the table changes by a step of the server only.
LEMMA RegistryStill ==
  ASSUME Typed, UNCHANGED serverVars, conn' = conn
  PROVE  /\ alive' = alive /\ job' = job
         /\ \A d : Registered(d)' <=> Registered(d)
BY ServerStill, SameRegistry

\* No new request, and none from a client that is being put out.
LEMMA NothingNew ==
  ASSUME Typed, Heard, Refused, UNCHANGED serverVars, conn' = conn, c2s' = c2s
  PROVE  Heard' /\ Refused'
<1>1. Heard'
  BY RegistryStill DEF Heard
<1>2. Refused'
  BY DEF Refused, serverVars
<1> QED BY <1>1, <1>2

LEMMA QuitsInv ==
  ASSUME RInv, NEW c \in Clients, Quits(c), UNCHANGED serverVars, conn' = conn
  PROVE  Kernel' /\ AllSigned' /\ (alive' => Heard' /\ Refused')
<1>1. /\ Typed /\ Kernel /\ AllSigned
      /\ pc \in [Clients -> Stages] /\ outq \in [Clients -> Seq(LinePdu)]
  BY DEF RInv, IInv, Typed, ClientsTyped
<1>2. /\ pc'[c] = "gone" /\ \A d \in Clients \ {c} : pc'[d] = pc[d]
      /\ c2s' = c2s
  BY <1>1 DEF Quits
<1>3. Kernel'
  <2> SUFFICES ASSUME NEW d \in Clients
               PROVE  /\ srvEnd'[d] = "open" => cliEnd'[d] = "open"
                      /\ c2s'[d] # <<>> => cliEnd'[d] # "none"
                      /\ cliEnd'[d] \in {"closed", "reset"} => pc'[d] = "gone"
    BY DEF Kernel
  <2>1. CASE d = c
    BY <1>1, <1>2, <2>1 DEF Quits, Kernel
  <2>2. CASE d # c
    BY <1>1, <1>2, <2>2 DEF Quits, Kernel
  <2> QED BY <2>1, <2>2
<1>4. AllSigned'
  <2> SUFFICES ASSUME NEW d \in Clients
               PROVE  /\ \A i \in DOMAIN c2s'[d] : Signed(d, c2s'[d][i])
                      /\ \A i \in DOMAIN outq'[d] : Signed(d, outq'[d][i])
    BY DEF AllSigned, Signed
  <2>1. outq'[d] = outq[d] \/ outq'[d] = <<>>
    BY <1>1 DEF Quits
  <2> QED BY <1>1, <1>2, <2>1 DEF AllSigned
<1>5. alive' => Heard' /\ Refused'
  BY <1>1, <1>2, NothingNew, RegistryStill DEF RInv
<1> QED BY <1>3, <1>4, <1>5

LEMMA RestsInv ==
  ASSUME RInv, Rests, UNCHANGED serverVars, conn' = conn
  PROVE  Kernel' /\ AllSigned' /\ (alive' => Heard' /\ Refused')
<1>1. Typed /\ Kernel /\ AllSigned /\ c2s' = c2s
  BY DEF RInv, IInv, Rests
<1>2. Kernel'
  BY <1>1 DEF Rests, Kernel
<1>3. AllSigned'
  BY <1>1 DEF Rests, AllSigned, Signed
<1>4. alive' => Heard' /\ Refused'
  BY <1>1, NothingNew, RegistryStill DEF RInv
<1> QED BY <1>2, <1>3, <1>4

LEMMA ReadsInv ==
  ASSUME RInv, NEW c \in Clients, Reads(c), UNCHANGED serverVars, conn' = conn
  PROVE  Kernel' /\ AllSigned' /\ (alive' => Heard' /\ Refused')
<1>1. /\ Typed /\ Kernel /\ AllSigned
      /\ UNCHANGED <<c2s, cliEnd, srvEnd, outq>> /\ pc[c] # "gone"
      /\ pc \in [Clients -> Stages]
  BY DEF RInv, IInv, Reads, ClientRecv, Typed, ClientsTyped
<1>2. \A d \in Clients : pc[d] = "gone" => pc'[d] = "gone"
  BY <1>1 DEF Reads
<1>3. Kernel'
  BY <1>1, <1>2 DEF Kernel
<1>4. AllSigned'
  BY <1>1 DEF AllSigned, Signed
<1>5. alive' => Heard' /\ Refused'
  BY <1>1, NothingNew, RegistryStill DEF RInv
<1> QED BY <1>3, <1>4, <1>5

\* Flag 1 is a client's first PDU, when the server has never heard of it; any
\* other comes from a prompt, where only clients in the table are.
LEMMA AsksInv ==
  ASSUME RInv, NEW c \in Clients, NEW pdu, Asks(c, pdu), UNCHANGED serverVars, conn' = conn
  PROVE  Kernel' /\ AllSigned' /\ (alive' => Heard' /\ Refused')
<1>1. /\ Typed /\ Kernel /\ AllSigned
      /\ c2s \in [Clients -> Seq(ClientPdu)] /\ outq \in [Clients -> Seq(LinePdu)]
      /\ pc \in [Clients -> Stages]
  BY DEF RInv, IInv, Typed, TcpTyped, ClientsTyped
<1>2. /\ c2s'[c] = Append(c2s[c], pdu) /\ \A d \in Clients \ {c} : c2s'[d] = c2s[d]
      /\ UNCHANGED <<cliEnd, srvEnd>> /\ srvEnd[c] = "open"
  BY <1>1 DEF Asks
<1>3. \A i \in DOMAIN Append(c2s[c], pdu) :
        \/ i \in DOMAIN c2s[c] /\ Append(c2s[c], pdu)[i] = c2s[c][i]
        \/ i = Len(c2s[c]) + 1 /\ Append(c2s[c], pdu)[i] = pdu
  BY <1>1, AppendElements
<1>4. outq[c] # <<>> => /\ 1 \in DOMAIN outq[c] /\ Head(outq[c]) = outq[c][1]
                        /\ \A i \in DOMAIN Tail(outq[c]) :
                             i + 1 \in DOMAIN outq[c] /\ Tail(outq[c])[i] = outq[c][i + 1]
  BY <1>1, TailElements
<1>5. Kernel'
  <2>1. \A d \in Clients : pc[d] = "gone" => pc'[d] = "gone"
    BY <1>1 DEF Asks
  <2>2. cliEnd[c] = "open"
    BY <1>1, <1>2 DEF Kernel
  <2> SUFFICES ASSUME NEW d \in Clients
               PROVE  /\ srvEnd'[d] = "open" => cliEnd'[d] = "open"
                      /\ c2s'[d] # <<>> => cliEnd'[d] # "none"
                      /\ cliEnd'[d] \in {"closed", "reset"} => pc'[d] = "gone"
    BY DEF Kernel
  <2>3. CASE d = c
    BY <1>2, <2>2, <2>3
  <2>4. CASE d # c
    BY <1>1, <1>2, <2>1, <2>4 DEF Kernel
  <2> QED BY <2>3, <2>4
<1>6. Signed(c, pdu) /\ \A i \in DOMAIN outq'[c] : Signed(c, outq'[c][i])
  <2>1. CASE outq' = outq /\ pdu.flag = INIT_CONNECT_FLAG
    BY <1>1, <2>1 DEF AllSigned, Signed, TextFlags, INIT_CONNECT_FLAG, BROADCAST_FLAG,
       UNICAST_FLAG, MULTICAST_FLAG
  <2>2. CASE outq[c] # <<>> /\ pdu = Head(outq[c]) /\ outq' = [outq EXCEPT ![c] = Tail(@)]
    <3>1. Signed(c, pdu)
      BY <1>1, <1>4, <2>2 DEF AllSigned
    <3>2. \A i \in DOMAIN Tail(outq[c]) : Signed(c, Tail(outq[c])[i])
      BY <1>1, <1>4, <2>2 DEF AllSigned
    <3>3. outq'[c] = Tail(outq[c])
      BY <1>1, <2>2
    <3> QED BY <3>1, <3>2, <3>3
  <2> QED BY <2>1, <2>2 DEF Asks
<1>7. AllSigned'
  <2> SUFFICES ASSUME NEW d \in Clients
               PROVE  /\ \A i \in DOMAIN c2s'[d] : Signed(d, c2s'[d][i])
                      /\ \A i \in DOMAIN outq'[d] : Signed(d, outq'[d][i])
    BY DEF AllSigned, Signed
  <2>1. CASE d = c
    <3>1. \A i \in DOMAIN Append(c2s[c], pdu) : Signed(c, Append(c2s[c], pdu)[i])
      BY <1>1, <1>3, <1>6 DEF AllSigned
    <3> QED BY <1>2, <1>6, <2>1, <3>1
  <2>2. CASE d # c
    <3>1. outq'[d] = outq[d]
      BY <1>1, <2>2 DEF Asks
    <3> QED BY <1>1, <1>2, <2>2, <3>1 DEF AllSigned
  <2> QED BY <2>1, <2>2
<1>8. ASSUME alive'
      PROVE  Heard' /\ Refused'
  <2>1. /\ alive /\ job' = job /\ Live /\ Heard /\ Refused
        /\ \A d : Registered(d)' <=> Registered(d)
    BY <1>1, <1>8, RegistryStill DEF RInv, IInv
  <2>2. CASE pc[c] = "connected" /\ pdu.flag = INIT_CONNECT_FLAG
    <3>1. \A i \in DOMAIN Append(c2s[c], pdu) :
            Append(c2s[c], pdu)[i].flag # INIT_CONNECT_FLAG => Registered(c)
      BY <1>3, <2>1, <2>2 DEF Heard
    <3>2. Heard'
      <4> SUFFICES ASSUME NEW d \in Clients, NEW i \in DOMAIN c2s'[d],
                          c2s'[d][i].flag # INIT_CONNECT_FLAG
                   PROVE  Registered(d)'
        BY DEF Heard
      <4>1. CASE d = c
        BY <1>2, <2>1, <3>1, <4>1
      <4>2. CASE d # c
        BY <1>2, <2>1, <4>2 DEF Heard
      <4> QED BY <4>1, <4>2
    <3>3. Unheard(c)
      BY <2>1, <2>2 DEF Live, Handshake
    <3>4. Refused'
      <4> SUFFICES ASSUME job.closing PROVE c2s'[conn[job.fd]] = <<>>
        BY <2>1 DEF Refused
      <4>1. job.fd \in OpenFds
        BY <2>1 DEF Live, JobGood
      <4>2. conn[job.fd] \in Clients \ {c}
        BY <1>1, <3>3, <4>1 DEF Unheard, OpenFds, Typed, TcpTyped
      <4> QED BY <1>2, <2>1, <4>2 DEF Refused
    <3> QED BY <3>2, <3>4
  <2>3. CASE outq[c] # <<>>
    <3>1. Registered(c)
      BY <2>1, <2>3 DEF Live, LineInChat, Admitted
    <3>2. Heard'
      <4> SUFFICES ASSUME NEW d \in Clients, NEW i \in DOMAIN c2s'[d],
                          c2s'[d][i].flag # INIT_CONNECT_FLAG
                   PROVE  Registered(d)'
        BY DEF Heard
      <4>1. CASE d = c
        BY <2>1, <3>1, <4>1
      <4>2. CASE d # c
        BY <1>2, <2>1, <4>2 DEF Heard
      <4> QED BY <4>1, <4>2
    <3>3. Refused'
      <4> SUFFICES ASSUME job.closing PROVE c2s'[conn[job.fd]] = <<>>
        BY <2>1 DEF Refused
      <4>1. job.fd \in OpenFds \ BoundFds
        BY <2>1 DEF Live, JobGood
      <4>2. conn[job.fd] # c
        <5>1. PICK g \in BoundFds : conn[g] = c
          BY <3>1 DEF Registered
        <5>2. g \in OpenFds
          BY <2>1 DEF Live, EntriesLive, BoundFds
        <5> QED BY <2>1, <4>1, <5>1, <5>2 DEF Live, OneConnection
      <4>3. conn[job.fd] \in Clients \ {c}
        BY <1>1, <4>1, <4>2 DEF OpenFds, Typed, TcpTyped
      <4> QED BY <1>2, <2>1, <4>3 DEF Refused
    <3> QED BY <3>2, <3>3
  <2> QED BY <2>2, <2>3 DEF Asks
<1> QED BY <1>5, <1>7, <1>8
------------------------------------------------------------------------------
(* The steps of the server keep the invariant. *)

\* What a step of the server does to the requests and the ends of connections.
LEMMA ServerKinds ==
  ASSUME ServerNext
  PROVE  \/ UNCHANGED <<c2s, cliEnd, srvEnd>>
         \/ /\ UNCHANGED <<cliEnd, srvEnd>>
            /\ \E fd \in OpenFds : /\ c2s[conn[fd]] # <<>>
                                   /\ c2s' = [c2s EXCEPT ![conn[fd]] = Tail(@)]
         \/ \E lost : CloseServerEnds(lost)
<1>1. ASSUME NEW fd \in Fds,
             \/ FlagConnect(fd) \/ FlagBroadcast(fd) \/ FlagUnicast(fd)
             \/ FlagMulticast(fd) \/ FlagHandleList(fd)
      PROVE  ServerRecv(fd)
  BY <1>1 DEF FlagConnect, FlagBroadcast, FlagUnicast, FlagMulticast, FlagHandleList, Received
<1>2. CASE SendNext \/ \E fd \in Fds : AddNewClient(fd)
  BY <1>2 DEF SendNext, ServerSendReturns, AddNewClient, AcceptCall
<1>3. CASE ServerDies \/ CloseRejected \/ \E fd \in Fds : Disconnect(fd)
  BY <1>3 DEF ServerDies, ServerExit, CloseRejected, Disconnect, ServerClose
<1> QED BY <1>1, <1>2, <1>3 DEF ServerNext, ServerRecv, AcceptExits, SendKillsServer

LEMMA ServerKeepsKernel ==
  ASSUME RInv, ServerStep
  PROVE  Kernel' /\ AllSigned'
<1>1. /\ Typed /\ Kernel /\ AllSigned /\ ServerNext /\ pc' = pc /\ outq' = outq
      /\ c2s \in [Clients -> Seq(ClientPdu)]
  BY DEF RInv, IInv, ServerStep, clientVars, Typed, TcpTyped
<1>2. CASE UNCHANGED <<c2s, cliEnd, srvEnd>>
  BY <1>1, <1>2 DEF Kernel, AllSigned, Signed
<1>3. ASSUME UNCHANGED <<cliEnd, srvEnd>>, NEW fd \in OpenFds, c2s[conn[fd]] # <<>>,
             c2s' = [c2s EXCEPT ![conn[fd]] = Tail(@)]
      PROVE  Kernel' /\ AllSigned'
  <2> DEFINE c == conn[fd]
  <2>1. c \in Clients
    BY <1>1 DEF OpenFds, Typed, TcpTyped
  <2>2. c2s'[c] = Tail(c2s[c]) /\ \A d \in Clients \ {c} : c2s'[d] = c2s[d]
    BY <1>1, <1>3, <2>1
  <2>3. \A i \in DOMAIN Tail(c2s[c]) : i + 1 \in DOMAIN c2s[c] /\ Tail(c2s[c])[i] = c2s[c][i + 1]
    <3>1. c2s[c] \in Seq(ClientPdu)
      BY <1>1, <2>1
    <3> QED BY <1>3, <3>1, TailElements
  <2>4. c2s[c] # <<>>
    BY <1>3
  <2> HIDE DEF c
  <2>5. Kernel'
    <3>1. \A d \in Clients : c2s'[d] # <<>> => c2s[d] # <<>>
      BY <2>2, <2>4
    <3> QED BY <1>1, <1>3, <3>1 DEF Kernel
  <2>6. \A d \in Clients : \A i \in DOMAIN c2s'[d] : Signed(d, c2s'[d][i])
    <3>1. \A i \in DOMAIN Tail(c2s[c]) : Signed(c, Tail(c2s[c])[i])
      BY <1>1, <2>1, <2>3 DEF AllSigned
    <3> QED BY <1>1, <2>2, <3>1 DEF AllSigned
  <2> QED BY <1>1, <2>5, <2>6 DEF AllSigned, Signed
<1>4. ASSUME NEW lost, CloseServerEnds(lost)
      PROVE  Kernel' /\ AllSigned'
  <2>1. \A d \in Clients : c2s'[d] = c2s[d] \/ c2s'[d] = <<>>
    BY <1>4 DEF CloseServerEnds
  <2>2. \A d \in Clients : \A i \in DOMAIN c2s'[d] : Signed(d, c2s'[d][i])
    BY <1>1, <2>1 DEF AllSigned
  <2>3. AllSigned'
    BY <1>1, <2>2 DEF AllSigned, Signed
  <2>4. ASSUME NEW d \in Clients
        PROVE  /\ srvEnd'[d] = "open" => cliEnd'[d] = "open"
               /\ c2s'[d] # <<>> => cliEnd'[d] # "none"
               /\ cliEnd'[d] \in {"closed", "reset"} => pc'[d] = "gone"
    <3>1. CASE d \in lost
      BY <1>1, <1>4, <3>1 DEF CloseServerEnds, Kernel
    <3>2. CASE d \notin lost
      BY <1>1, <1>4, <3>2 DEF CloseServerEnds, Kernel
    <3> QED BY <3>1, <3>2
  <2> QED BY <2>3, <2>4 DEF Kernel
<1> QED BY <1>1, <1>2, <1>3, <1>4, ServerKinds

\* The first step of a handler takes a request and puts nobody out of the table.
LEMMA TakenHeard ==
  ASSUME Typed, Heard, NEW fd \in Fds, ServerRecv(fd),
         \A d \in Clients : Registered(d) => Registered(d)'
  PROVE  Heard'
<1> DEFINE c == conn[fd]
<1>1. /\ c \in Clients /\ c2s[c] # <<>> /\ c2s' = [c2s EXCEPT ![c] = Tail(@)]
      /\ c2s \in [Clients -> Seq(ClientPdu)]
  BY DEF ServerRecv, OpenFds, Typed, TcpTyped
<1> HIDE DEF c
<1>2. c2s'[c] = Tail(c2s[c]) /\ \A d \in Clients \ {c} : c2s'[d] = c2s[d]
  BY <1>1
<1>3. \A i \in DOMAIN Tail(c2s[c]) : i + 1 \in DOMAIN c2s[c] /\ Tail(c2s[c])[i] = c2s[c][i + 1]
  <2>1. c2s[c] \in Seq(ClientPdu)
    BY <1>1
  <2> QED BY <1>1, <2>1, TailElements
<1>4. \A i \in DOMAIN Tail(c2s[c]) :
        Tail(c2s[c])[i].flag # INIT_CONNECT_FLAG => Registered(c)
  BY <1>1, <1>3 DEF Heard
<1> SUFFICES ASSUME NEW d \in Clients, NEW i \in DOMAIN c2s'[d],
                    c2s'[d][i].flag # INIT_CONNECT_FLAG
             PROVE  Registered(d)'
  BY DEF Heard
<1>5. CASE d = c
  BY <1>2, <1>4, <1>5
<1>6. CASE d # c
  BY <1>2, <1>6 DEF Heard
<1> QED BY <1>5, <1>6

\* A flag 1 is alone in its queue: what a client sends after it shows that it is
\* in the table, and a client that is does not send flag 1.
LEMMA HelloAlone ==
  ASSUME Typed, Live, Heard, NEW c \in Clients, c2s[c] # <<>>,
         c2s[c][1].flag = INIT_CONNECT_FLAG
  PROVE  Tail(c2s[c]) = <<>> /\ Unheard(c)
<1>1. c2s[c] \in Seq(ClientPdu)
  BY DEF Typed, TcpTyped
<1>2. 1 \in DOMAIN c2s[c]
  BY <1>1
<1>3. Unheard(c)
  BY <1>2 DEF Live, Handshake
<1>4. ~Registered(c)
  <2>1. BoundFds \subseteq Fds
    BY SameBindings
  <2> QED BY <1>3, <2>1 DEF Unheard, Registered
<1>5. ASSUME Len(c2s[c]) > 1
      PROVE  FALSE
  <2>1. 2 \in DOMAIN c2s[c]
    BY <1>1, <1>5
  <2>2. c2s[c][2].flag = INIT_CONNECT_FLAG
    BY <1>4, <2>1 DEF Heard
  <2> QED BY <2>1, <2>2 DEF Live, Handshake
<1>6. ASSUME NEW s \in Seq(ClientPdu), s # <<>>, ~(Len(s) > 1)
      PROVE  Tail(s) = <<>>
  <2>1. Len(s) = 1
    <3> DEFINE n == Len(s)
    <3>1. n \in Nat \ {0} /\ ~(n > 1)
      BY <1>6, EmptySeq
    <3> HIDE DEF n
    <3>2. n = 1
      BY <3>1
    <3> QED BY <3>2 DEF n
  <2>2. Tail(s) \in Seq(ClientPdu) /\ Len(Tail(s)) = 0
    BY <1>6, <2>1
  <2> QED BY <2>2, EmptySeq
<1>7. Tail(c2s[c]) = <<>>
  BY <1>1, <1>5, <1>6
<1> QED BY <1>3, <1>7

LEMMA ServerKeepsHeard ==
  ASSUME RInv, IInv', ServerStep, alive, alive'
  PROVE  Heard' /\ Refused'
<1>1. /\ Typed /\ Live /\ Heard /\ Refused /\ Typed' /\ ServerNext
      /\ conn \in [Fds -> Clients \cup {NoClient}] /\ c2s \in [Clients -> Seq(ClientPdu)]
      /\ BoundFds \subseteq OpenFds
  BY DEF RInv, IInv, ServerStep, Typed, TcpTyped, Live, EntriesLive, BoundFds
<1>2. ASSUME NEW fd \in Fds, NEW flag, Received(fd, flag), UNCHANGED tableVars,
             NEW todo, job' = Job(fd, todo, FALSE)
      PROVE  Heard' /\ Refused'
  <2>1. HT!Bindings' = HT!Bindings /\ conn' = conn
    BY <1>1, <1>2, BindingsChange DEF Received, ServerRecv
  <2>2. Heard'
    BY <1>1, <1>2, <2>1, TakenHeard, SameRegistry DEF Received
  <2>3. ~job'.closing
    BY <1>2 DEF Job, NoJob
  <2> QED BY <2>2, <2>3 DEF Refused
<1>3. ASSUME NEW fd \in Fds, FlagConnect(fd)
      PROVE  Heard' /\ Refused'
  <2> DEFINE c == conn[fd]
  <2>1. /\ Received(fd, INIT_CONNECT_FLAG) /\ conn' = conn
        /\ \/ HT!AddHandle(Pdu(fd).handle, fd)
           \/ HT!RejectHandle(Pdu(fd).handle)
    BY <1>3 DEF FlagConnect, Received, ServerRecv
  <2>2. HT!Bindings \subseteq HT!Bindings'
    BY <1>1, <2>1, BindingsChange DEF HT!RejectHandle, HT!vars, tableVars
  <2>3. BoundFds \subseteq BoundFds'
    BY <2>2 DEF BoundFds
  <2>4. Heard'
    BY <1>1, <2>1, <2>3, TakenHeard DEF Registered, Received
  <2>5. /\ c \in Clients /\ c2s[c] # <<>> /\ c2s[c][1].flag = INIT_CONNECT_FLAG
        /\ c2s' = [c2s EXCEPT ![c] = Tail(@)]
    BY <1>1, <2>1, ReceivedTyped DEF Received, ServerRecv
  <2>6. Tail(c2s[c]) = <<>>
    BY <1>1, <2>5, HelloAlone
  <2>7. c2s'[c] = <<>>
    BY <1>1, <2>5, <2>6
  <2>8. job'.closing => job'.fd = fd
    BY <1>3 DEF FlagConnect, Job, NoJob
  <2> QED BY <2>1, <2>4, <2>7, <2>8 DEF Refused
<1>4. CASE SendNext
  <2>1. /\ UNCHANGED tableVars /\ conn' = conn /\ c2s' = c2s
        /\ job' = Job(job.fd, Tail(job.todo), job.closing)
    BY <1>4 DEF SendNext, ServerSendReturns
  <2>2. HT!Bindings' = HT!Bindings
    BY <1>1, <2>1, BindingsChange
  <2>3. Heard'
    BY <1>1, <2>1, <2>2, SameRegistry DEF Heard
  <2>4. job'.closing => job.closing /\ job'.fd = job.fd
    BY <2>1 DEF Job, NoJob
  <2> QED BY <1>1, <2>1, <2>3, <2>4 DEF Refused
<1>5. ASSUME NEW fd \in Fds, AddNewClient(fd)
      PROVE  Heard' /\ Refused'
  <2>1. /\ UNCHANGED tableVars /\ c2s' = c2s /\ job' = NoJob
        /\ conn' = [conn EXCEPT ![fd] = Head(backlog)] /\ fd \notin OpenFds
    BY <1>5 DEF AddNewClient, AcceptCall, Polling
  <2>2. HT!Bindings' = HT!Bindings
    BY <1>1, <2>1, BindingsChange
  <2>3. BoundFds' = BoundFds /\ \A g \in BoundFds : conn'[g] = conn[g]
    BY <1>1, <2>1, <2>2 DEF BoundFds, OpenFds
  <2>4. \A d : Registered(d) => Registered(d)'
    BY <2>3 DEF Registered
  <2>5. Heard'
    BY <1>1, <2>1, <2>4 DEF Heard
  <2> QED BY <2>1, <2>5 DEF Refused, NoJob
<1>6. ASSUME NEW fd \in OpenFds, ServerClose(fd), job' = NoJob,
             HT!Bindings' = {entry \in HT!Bindings : entry[2] # fd}
      PROVE  Heard' /\ Refused'
  <2> DEFINE c == conn[fd]
  <2>1. /\ conn' = [conn EXCEPT ![fd] = NoClient] /\ fd \in Fds /\ c2s'[c] = <<>>
        /\ \A d \in Clients : c2s'[d] = c2s[d] \/ c2s'[d] = <<>>
    BY <1>1, <1>6 DEF ServerClose, CloseServerEnds, OpenFds
  <2>2. \A d \in Clients \ {c} : Registered(d) => Registered(d)'
    <3> SUFFICES ASSUME NEW d \in Clients \ {c}, NEW g \in BoundFds, conn[g] = d
                 PROVE  g \in BoundFds' /\ conn'[g] = d
      BY DEF Registered
    <3>1. g # fd
      OBVIOUS
    <3>2. g \in BoundFds'
      BY <1>6, <3>1 DEF BoundFds
    <3> QED BY <1>1, <2>1, <3>1, <3>2 DEF OpenFds
  <2>3. Heard'
    <3> SUFFICES ASSUME NEW d \in Clients, NEW i \in DOMAIN c2s'[d],
                        c2s'[d][i].flag # INIT_CONNECT_FLAG
                 PROVE  Registered(d)'
      BY DEF Heard
    <3>1. c2s'[d] = c2s[d] /\ d # c
      BY <2>1
    <3> QED BY <1>1, <2>2, <3>1 DEF Heard
  <2> QED BY <1>6, <2>3 DEF Refused, NoJob
<1>7. CASE CloseRejected
  <2>1. job.fd \in OpenFds \ BoundFds /\ HT!Bindings' = HT!Bindings
    BY <1>1, <1>7, BindingsChange DEF CloseRejected, Live, JobGood
  <2>2. \A entry \in HT!Bindings : entry[2] # job.fd
    BY <2>1 DEF BoundFds
  <2> QED BY <1>6, <1>7, <2>1, <2>2 DEF CloseRejected
<1>8. ASSUME NEW fd \in Fds, Disconnect(fd)
      PROVE  Heard' /\ Refused'
  <2>1. fd \in OpenFds /\ ServerClose(fd) /\ job' = NoJob /\ HT!RemoveHandle(fd)
    BY <1>8 DEF Disconnect, ServerEof, Polling
  <2>2. HT!Bindings' = {entry \in HT!Bindings : entry[2] # fd}
    BY <1>1, <2>1, BindingsChange
  <2> QED BY <1>6, <2>1, <2>2
<1>9. ~ServerDies
  BY DEF ServerDies
<1>10. ASSUME NEW fd \in Fds,
              FlagBroadcast(fd) \/ FlagUnicast(fd) \/ FlagMulticast(fd) \/ FlagHandleList(fd)
       PROVE  Heard' /\ Refused'
  BY <1>2, <1>10 DEF FlagBroadcast, FlagUnicast, FlagMulticast, FlagHandleList
<1> QED BY <1>1, <1>3, <1>4, <1>5, <1>7, <1>8, <1>9, <1>10
        DEF ServerNext, AcceptExits, SendKillsServer

------------------------------------------------------------------------------
(* The invariant. *)

LEMMA InitRoom == Init => RInv
<1> SUFFICES ASSUME Init PROVE RInv
  OBVIOUS
<1>1. IInv
  BY InitInv
<1>2. /\ ~job.closing
      /\ \A c \in Clients : /\ c2s[c] = <<>> /\ outq[c] = <<>>
                            /\ cliEnd[c] = "none" /\ srvEnd[c] = "none"
  BY DEF Init, TcpInit, ServerInit, ClientInit, NoJob
<1>3. Kernel /\ AllSigned /\ Heard /\ Refused
  BY <1>2 DEF Kernel, AllSigned, Heard, Refused
<1> QED BY <1>1, <1>3 DEF RInv

LEMMA NextRoom == RInv /\ [Next]_vars => RInv'
<1> SUFFICES ASSUME RInv, [Next]_vars PROVE RInv'
  OBVIOUS
<1>1. /\ IInv /\ IInv' /\ Typed /\ Kernel /\ AllSigned
  BY NextInv DEF RInv, IInv
<1>2. CASE UNCHANGED vars
  <2>1. UNCHANGED serverVars /\ conn' = conn /\ Rests
    BY <1>2 DEF vars, tcpVars, clientVars, Rests
  <2> QED BY <1>1, <2>1, RestsInv DEF RInv
<1>3. ASSUME NEW c \in Clients,
             ConnectStep(c) \/ UserStep(c) \/ ProgramStep(c) \/ NetworkStep(c)
      PROVE  Kernel' /\ AllSigned' /\ (alive' => Heard' /\ Refused')
  <2>1. /\ UNCHANGED serverVars /\ conn' = conn
        /\ Quits(c) \/ (\E pdu : Asks(c, pdu)) \/ Reads(c) \/ Rests
    BY <1>1, <1>3, ClientKinds
  <2> QED BY <2>1, QuitsInv, AsksInv, ReadsInv, RestsInv
<1>4. CASE ServerStep
  <2>1. alive
    BY <1>4 DEF ServerStep, ServerNext, AcceptExits, SendNext, SendKillsServer,
       CloseRejected, AddNewClient, FlagConnect, FlagBroadcast, FlagUnicast,
       FlagMulticast, FlagHandleList, Disconnect, Received, Polling
  <2> QED BY <1>1, <1>4, <2>1, ServerKeepsKernel, ServerKeepsHeard DEF RInv
<1> QED BY <1>1, <1>2, <1>3, <1>4 DEF Next, RInv

\* Requests are signed with their sender's name and come from clients in the
\* table, but for the first of each, and a client turned away has no request left
\* when it is closed: flag 1 is alone under way until it is answered (cclient.c,
\* initConnectHandle; server.c, flagConnect).
THEOREM RoomInvariance == Spec => []RInv
BY InitRoom, NextRoom, PTL DEF Spec
------------------------------------------------------------------------------
(* The room's view of the system. *)

\* ChatRoom has its own copies of the definitions it shares with the system.
LEMMA SameWords ==
  /\ \A S : Room!InOrder(S) = InOrder(S) /\ Room!Cardinality(S) = Cardinality(S)
  /\ \A flag : Room!ChatHeaderPacket(flag) = ChatHeaderPacket(flag)
  /\ \A flag, name : Room!HandleOnlyPacket(flag, name) = HandleOnlyPacket(flag, name)
  /\ \A n : Room!ListCountPacket(n) = ListCountPacket(n)
<1>1. \A S : Room!Cardinality(S) = Cardinality(S)
  BY DEF Room!Cardinality, Cardinality
<1>2. \A S : Room!InOrder(S) = InOrder(S)
  BY DEF Room!InOrder, InOrder, Room!Cardinality, Cardinality
<1> QED BY <1>1, <1>2 DEF Room!ChatHeaderPacket, ChatHeaderPacket, Room!HandleOnlyPacket,
           HandleOnlyPacket, Room!ListCountPacket, ListCountPacket,
           Room!HANDLE_LIST_RESP_FLAG, HANDLE_LIST_RESP_FLAG

LEMMA MembersAre ==
  ASSUME Typed, alive
  PROVE  /\ \A name, d : <<name, d>> \in Members <=>
              \E b \in HT!Bindings : b[1] = name /\ conn[b[2]] = d
         /\ \A name : Room!Held(name) <=> \E b \in HT!Bindings : b[1] = name
         /\ \A d : Room!Member(d) <=> Registered(d)
<1>1. Members = {<<b[1], conn[b[2]]>> : b \in HT!Bindings}
  BY DEF Members
<1>2. \A name, d : <<name, d>> \in Members <=>
        \E b \in HT!Bindings : b[1] = name /\ conn[b[2]] = d
  BY <1>1
<1>3. ASSUME NEW m \in Members
      PROVE  \E b \in HT!Bindings : m[1] = b[1] /\ m[2] = conn[b[2]]
  BY <1>1
<1>4. ASSUME NEW b \in HT!Bindings
      PROVE  \E m \in Members : m[1] = b[1] /\ m[2] = conn[b[2]]
  <2>1. <<b[1], conn[b[2]]>> \in Members
    BY <1>1
  <2> QED BY <2>1
<1>5. \A name : Room!Held(name) <=> \E b \in HT!Bindings : b[1] = name
  <2>1. \A name : Room!Held(name) <=> \E m \in Members : m[1] = name
    BY DEF Room!Held
  <2> QED BY <1>3, <1>4, <2>1
<1>6. \A d : Room!Member(d) <=> Registered(d)
  <2>1. \A d : Room!Member(d) <=> \E m \in Members : m[2] = d
    BY DEF Room!Member
  <2>2. \A d : Registered(d) <=> \E b \in HT!Bindings : conn[b[2]] = d
    BY DEF Registered, BoundFds
  <2> QED BY <1>3, <1>4, <2>1, <2>2
<1> QED BY <1>2, <1>5, <1>6

LEMMA MembersStill ==
  ASSUME Typed, UNCHANGED serverVars, conn' = conn
  PROVE  alive' = alive /\ Members' = Members
BY ServerStill DEF Members

LEMMA InboxAt ==
  /\ \A d \in Clients : Inbox[d] = IF pc[d] = "gone" THEN <<>> ELSE Stream(d)
  /\ \A d \in Clients : d \in Left <=> pc[d] = "gone"
BY DEF Inbox, Left

------------------------------------------------------------------------------
(* Steps of clients. *)

LEMMA QuitsLeave ==
  ASSUME RInv, NEW c \in Clients, Quits(c), UNCHANGED serverVars, conn' = conn
  PROVE  Room!Leave(c)
<1>1. /\ Typed /\ pc \in [Clients -> Stages] /\ c2s' = c2s
      /\ pc' = [pc EXCEPT ![c] = "gone"]
  BY DEF RInv, IInv, Typed, ClientsTyped, Quits
<1>2. Left' = Left \cup {c}
  BY <1>1 DEF Left
<1>3. \A d \in Clients \ {c} : Stream(d)' = Stream(d)
  BY <1>1, StreamStays DEF Quits
<1>4. Inbox' = [Inbox EXCEPT ![c] = <<>>]
  BY <1>2, <1>3 DEF Inbox
<1> QED BY <1>1, <1>2, <1>4, MembersStill DEF Room!Leave

LEMMA AsksAsk ==
  ASSUME RInv, NEW c \in Clients, NEW pdu, Asks(c, pdu), UNCHANGED serverVars, conn' = conn
  PROVE  Room!Ask(c)
<1>1. /\ Typed /\ pc \in [Clients -> Stages] /\ c2s \in [Clients -> Seq(ClientPdu)]
      /\ c2s' = [c2s EXCEPT ![c] = Append(@, pdu)] /\ s2c' = s2c
  BY DEF RInv, IInv, Typed, TcpTyped, ClientsTyped, Asks
<1>2. Left' = Left
  BY <1>1 DEF Left, Asks
<1>3. \A d \in Clients : Stream(d)' = Stream(d)
  BY <1>1, StreamStays
<1>4. Inbox' = Inbox
  BY <1>2, <1>3 DEF Inbox
<1>5. /\ Len(c2s'[c]) = Len(c2s[c]) + 1
      /\ c2s'[c][Len(c2s'[c])] = pdu
  <2>1. ASSUME NEW s \in Seq(ClientPdu)
        PROVE  Len(Append(s, pdu)) = Len(s) + 1 /\ Append(s, pdu)[Len(s) + 1] = pdu
    OBVIOUS
  <2>2. c2s'[c] = Append(c2s[c], pdu) /\ c2s[c] \in Seq(ClientPdu)
    BY <1>1
  <2> QED BY <2>1, <2>2
<1> QED BY <1>1, <1>2, <1>4, <1>5, MembersStill DEF Room!Ask

LEMMA ReadsRead ==
  ASSUME RInv, NEW c \in Clients, Reads(c), UNCHANGED serverVars, conn' = conn
  PROVE  Room!Read(c)
<1>1. /\ Typed /\ pc \in [Clients -> Stages] /\ ClientRecv(c) /\ pc[c] # "gone"
      /\ s2c \in [Clients -> Seq(ServerPdu)] /\ c2s' = c2s
  BY DEF RInv, IInv, Typed, TcpTyped, ClientsTyped, Reads, ClientRecv
<1>2. Left' = Left
  BY <1>1 DEF Left, Reads
<1>3. Stream(c)' = Tail(Stream(c)) /\ Stream(c) # <<>>
  BY <1>1, ReadStream
<1>4. \A d \in Clients \ {c} : Stream(d)' = Stream(d)
  <2>1. \A d \in Clients \ {c} : s2c'[d] = s2c[d]
    BY <1>1 DEF ClientRecv
  <2> QED BY <1>1, <2>1, StreamStays
<1>5. Inbox[c] = Stream(c)
  BY <1>1, InboxAt
<1>6. Inbox' = [Inbox EXCEPT ![c] = Tail(@)]
  BY <1>1, <1>2, <1>3, <1>4, <1>5 DEF Inbox, Left
<1> QED BY <1>1, <1>2, <1>3, <1>5, <1>6, MembersStill DEF Room!Read

LEMMA RestsStutter ==
  ASSUME RInv, Rests, UNCHANGED serverVars, conn' = conn
  PROVE  UNCHANGED Room!vars
<1>1. Typed /\ c2s' = c2s
  BY DEF RInv, IInv, Rests
<1>2. Left' = Left
  BY DEF Left, Rests
<1>3. \A d \in Clients : d \notin Left => Stream(d)' = Stream(d)
  BY <1>1, StreamStays, InboxAt DEF Rests
<1>4. Inbox' = Inbox
  BY <1>2, <1>3 DEF Inbox
<1> QED BY <1>1, <1>2, <1>4, MembersStill DEF Room!vars
------------------------------------------------------------------------------
(* The first steps of handlers: a request is taken. *)

LEMMA HandlerTakes ==
  ASSUME RInv, NEW fd \in Fds, NEW flag, Received(fd, flag), alive' = alive,
         UNCHANGED clientVars
  PROVE  /\ conn[fd] \in Clients /\ Room!Take(conn[fd], flag)
         /\ Room!Request(conn[fd]) = Pdu(fd)
<1>1. /\ conn[fd] \in Clients /\ alive
      /\ c2s[conn[fd]] # <<>> /\ Head(c2s[conn[fd]]).flag = flag
      /\ c2s' = [c2s EXCEPT ![conn[fd]] = Tail(@)]
  BY ReceivedTyped DEF RInv, IInv, Received, ServerRecv
<1>2. Left' = Left
  BY DEF Left, clientVars
<1>3. Room!Request(conn[fd]) = Pdu(fd) /\ Pdu(fd).flag = flag
  BY <1>1 DEF Room!Request, Pdu
<1> QED BY <1>1, <1>2, <1>3 DEF Room!Take

\* What a handler has to send is delivered.
LEMMA HandlerDelivers ==
  ASSUME RInv, Typed', NEW fd \in Fds, NEW flag, Received(fd, flag), UNCHANGED clientVars,
         NEW new, \A d \in Clients : PendingOf(job'.todo, d) = new[d]
  PROVE  Room!Deliver(new)
<1>1. /\ Typed /\ conn' = conn /\ s2c' = s2c /\ job.todo = <<>>
  BY IdleServer DEF RInv, IInv, Received, ServerRecv
<1>2. Left' = Left
  BY DEF Left, clientVars
<1>3. ASSUME NEW d \in Clients
      PROVE  Stream(d)' = Stream(d) \o new[d]
  <2>1. Stream(d) = s2c[d] /\ Stream(d)' = s2c'[d] \o PendingOf(job'.todo, d)
    BY <1>1, IdleStreams, StreamIs
  <2> QED BY <1>1, <2>1
<1>4. Inbox' = [d \in Clients |-> IF d \in Left THEN <<>> ELSE Stream(d)']
  BY <1>2 DEF Inbox
<1>5. \A d \in Clients : d \notin Left => Inbox[d] = Stream(d)
  BY DEF Inbox
<1>6. Inbox' = [d \in Clients |-> IF d \in Left THEN <<>> ELSE Inbox[d] \o new[d]]
  BY <1>3, <1>4, <1>5
<1> QED BY <1>6 DEF Room!Deliver

\* A request but the first comes from a member, who signs it.
LEMMA FromMember ==
  ASSUME RInv, NEW fd \in Fds, NEW flag, Received(fd, flag), flag # INIT_CONNECT_FLAG
  PROVE  /\ Room!Member(conn[fd])
         /\ flag \in TextFlags => <<Pdu(fd).src, conn[fd]>> \in Members
<1> DEFINE c == conn[fd]
<1>1. /\ Typed /\ alive /\ Heard /\ AllSigned /\ EntriesLive
      /\ c \in Clients /\ c2s[c] # <<>> /\ Pdu(fd) = c2s[c][1] /\ Pdu(fd).flag = flag
      /\ c2s \in [Clients -> Seq(ClientPdu)]
  BY ReceivedTyped DEF RInv, IInv, Live, Typed, TcpTyped
<1> HIDE DEF c
<1>2. 1 \in DOMAIN c2s[c]
  <2>1. c2s[c] \in Seq(ClientPdu)
    BY <1>1
  <2> QED BY <1>1, <2>1, TailElements
<1>3. Registered(c)
  BY <1>1, <1>2 DEF Heard
<1>4. flag \in TextFlags => Pdu(fd).src = myHandle(c)
  BY <1>1, <1>2 DEF AllSigned, Signed
<1>5. PICK b \in HT!Bindings : conn[b[2]] = c
  BY <1>3 DEF Registered, BoundFds
<1>6. b[1] = myHandle(c)
  BY <1>1, <1>5 DEF EntriesLive, myHandle
<1>7. <<myHandle(c), c>> \in Members
  BY <1>1, <1>5, <1>6, MembersAre
<1> QED BY <1>1, <1>3, <1>4, <1>7, MembersAre DEF c

LEMMA MembersKept ==
  ASSUME Typed, UNCHANGED tableVars, conn' = conn, alive' = alive
  PROVE  Members' = Members
BY BindingsChange DEF Members

\* One send to a client.
LEMMA PendingOne ==
  ASSUME NEW todo \in Seq(Sends), NEW d, NEW i
  PROVE  Mine(todo, d) = {i} => PendingOf(todo, d) = <<todo[i].pdu>>
<1>1. ASSUME NEW f, Numbers(f, 1, Mine(todo, d))
      PROVE  PendingOf(todo, d) = [k \in 1 .. 1 |-> todo[f[k]].pdu]
  BY <1>1, PendingUnique
<1>2. PICK f : f = [k \in 1 .. 1 |-> i]
  OBVIOUS
<1>3. Numbers(f, 1, {i}) /\ f[1] = i
  BY <1>2 DEF Numbers
<1> HAVE Mine(todo, d) = {i}
<1>4. PendingOf(todo, d) = [k \in 1 .. 1 |-> todo[f[k]].pdu]
  BY <1>1, <1>3
<1>5. PendingOf(todo, d) = [k \in 1 .. 1 |-> todo[i].pdu]
  BY <1>3, <1>4
<1> QED BY <1>5

\* The answer to flag 1 goes to the client that asked.
LEMMA AnswerPending ==
  ASSUME Typed, NEW fd \in Fds, NEW pdu \in ServerPdu, NEW d \in Clients
  PROVE  PendingOf(<<Send(fd, pdu)>>, d) = IF d = conn[fd] THEN <<pdu>> ELSE <<>>
<1> DEFINE todo == <<Send(fd, pdu)>>
<1>1. todo \in Seq(Sends) /\ DOMAIN todo = {1} /\ todo[1].sock = fd /\ todo[1].pdu = pdu
  BY DEF Send, Sends
<1> HIDE DEF todo
<1>2. CASE d = conn[fd]
  <2>1. Mine(todo, d) = {1}
    BY <1>1, <1>2 DEF Mine
  <2> QED BY <1>1, <1>2, <2>1, PendingOne DEF todo
<1>3. CASE d # conn[fd]
  <2>1. Mine(todo, d) = {}
    BY <1>1, <1>3 DEF Mine
  <2> QED BY <1>1, <1>3, <2>1, PendingNone DEF todo
<1> QED BY <1>2, <1>3

LEMMA ConnectJoins ==
  ASSUME RInv, Typed', NEW fd \in Fds, FlagConnect(fd), UNCHANGED clientVars
  PROVE  Room!Next
<1> DEFINE c == conn[fd]
           name == Pdu(fd).handle
<1>1. /\ Typed /\ Live /\ Heard /\ alive /\ alive' = alive /\ conn' = conn
      /\ Received(fd, INIT_CONNECT_FLAG)
  BY DEF FlagConnect, Received, ServerRecv, Polling, RInv, IInv
<1>2. /\ c \in Clients /\ Room!Take(c, Room!INIT_CONNECT_FLAG) /\ Room!Request(c) = Pdu(fd)
  BY <1>1, HandlerTakes DEF Room!INIT_CONNECT_FLAG, INIT_CONNECT_FLAG
<1>3. name \in LegalNames
  BY <1>1, ReceivedTyped, PduKinds
<1>4. ~Room!Member(c)
  <2>1. c2s[c] # <<>> /\ c2s[c][1].flag = INIT_CONNECT_FLAG
    BY <1>1, ReceivedTyped
  <2>2. Unheard(c)
    BY <1>1, <1>2, <2>1, HelloAlone
  <2>3. ~Registered(c)
    BY <1>1, <2>2, SameBindings DEF Unheard, Registered
  <2> QED BY <1>1, <2>3, MembersAre
<1>5. ASSUME NEW flag \in {GOOD_CONNECT_FLAG, BAD_CONNECT_FLAG},
             job'.todo = <<Send(fd, ChatHeaderPacket(flag))>>
      PROVE  Room!DeliverTo(c, <<Room!ChatHeaderPacket(flag)>>)
  <2> DEFINE pdu == ChatHeaderPacket(flag)
             new == [d \in Clients |-> IF d = c THEN <<pdu>> ELSE <<>>]
  <2>1. pdu \in ServerPdu
    BY AnswersTyped
  <2> HIDE DEF pdu
  <2>2. \A d \in Clients : PendingOf(job'.todo, d) = new[d]
    BY <1>1, <1>5, <2>1, AnswerPending DEF pdu
  <2> HIDE DEF new
  <2>3. Room!Deliver(new)
    BY <1>1, <2>2, HandlerDelivers
  <2>4. Room!ChatHeaderPacket(flag) = pdu
    BY SameWords DEF pdu
  <2> QED BY <2>3, <2>4 DEF Room!DeliverTo, new
<1> HIDE DEF c
<1>6. CASE /\ HT!AddHandle(name, fd)
           /\ job' = Job(fd, <<Send(fd, ChatHeaderPacket(GOOD_CONNECT_FLAG))>>, FALSE)
  <2>1. /\ \A b \in HT!Bindings : b[1] # name
        /\ HT!Bindings' = HT!Bindings \cup {<<name, fd>>}
    BY <1>1, <1>6, BindingsChange
  <2>2. ~Room!Held(name)
    BY <1>1, <2>1, MembersAre
  <2>3. Members' = Members \cup {<<name, c>>}
    <3> DEFINE view(b) == <<b[1], conn[b[2]]>>
    <3>1. Members' = {view(b) : b \in HT!Bindings'}
      BY <1>1 DEF Members
    <3>2. Members = {view(b) : b \in HT!Bindings}
      BY <1>1 DEF Members
    <3>3. view(<<name, fd>>) = <<name, c>>
      BY DEF c
    <3> HIDE DEF name, view
    <3> QED BY <2>1, <3>1, <3>2, <3>3
  <2>4. job'.todo = <<Send(fd, ChatHeaderPacket(GOOD_CONNECT_FLAG))>>
    BY <1>6 DEF Job
  <2>5. Room!DeliverTo(c, <<Room!ChatHeaderPacket(Room!GOOD_CONNECT_FLAG)>>)
    BY <1>5, <2>4 DEF Room!GOOD_CONNECT_FLAG, GOOD_CONNECT_FLAG
  <2>6. Room!Join(c)
    BY <1>2, <1>3, <2>2, <2>3, <2>5 DEF Room!Join
  <2> QED BY <1>2, <2>6 DEF Room!Next
<1>7. CASE /\ HT!RejectHandle(name)
           /\ job' = Job(fd, <<Send(fd, ChatHeaderPacket(BAD_CONNECT_FLAG))>>, TRUE)
  <2>1. HT!LookupSocket(name) # -1 /\ UNCHANGED tableVars
    BY <1>3, <1>7 DEF HT!RejectHandle, HT!Acceptable, HT!vars, tableVars
  <2>2. Room!Held(name)
    <3>1. \E b \in HT!Bindings : b[1] = name
      <4> PICK g : g = HT!LookupSocket(name)
        OBVIOUS
      <4>1. <<name, g>> \in HT!Bindings
        BY <1>1, <2>1, LookupFindsBinding
      <4> HIDE DEF name
      <4>2. <<name, g>>[1] = name
        OBVIOUS
      <4> QED BY <4>1, <4>2
    <3> QED BY <1>1, <3>1, MembersAre
  <2>3. Members' = Members
    BY <1>1, <2>1, MembersKept
  <2>4. job'.todo = <<Send(fd, ChatHeaderPacket(BAD_CONNECT_FLAG))>>
    BY <1>7 DEF Job
  <2>5. Room!DeliverTo(c, <<Room!ChatHeaderPacket(Room!BAD_CONNECT_FLAG)>>)
    BY <1>5, <2>4 DEF Room!BAD_CONNECT_FLAG, BAD_CONNECT_FLAG
  <2>6. Room!Refuse(c)
    BY <1>2, <1>4, <2>2, <2>3, <2>5 DEF Room!Refuse, c
  <2> QED BY <1>2, <2>6 DEF Room!Next
<1> QED BY <1>6, <1>7 DEF FlagConnect
------------------------------------------------------------------------------
(* Whom a handler's sends are for. *)

\* lookupSocket knows the names in the table, and only those.
LEMMA LookupKnows ==
  ASSUME Typed, NEW name
  PROVE  /\ HT!LookupSocket(name) # -1 => <<name, HT!LookupSocket(name)>> \in HT!Bindings
         /\ \A b \in HT!Bindings : b[1] = name =>
              HT!LookupSocket(name) = b[2] /\ b[2] # -1
<1>1. HT!LookupSocket(name) # -1 => <<name, HT!LookupSocket(name)>> \in HT!Bindings
  BY LookupFindsBinding
<1>2. ASSUME NEW i \in HT!ValidSlots, HandleAt(i) = name
      PROVE  HT!LookupSocket(name) = SocketAt(i) /\ SocketAt(i) # -1
  <2>1. i \in HT!SlotsOf(name)
    BY <1>2 DEF HT!SlotsOf, HandleAt
  <2>2. HT!SlotsOf(name) \in SUBSET Nat
    BY TableTyped DEF HT!SlotsOf
  <2>3. HT!Min(HT!SlotsOf(name)) = Min(HT!SlotsOf(name))
    BY DEF HT!Min, Min
  <2> DEFINE j == Min(HT!SlotsOf(name))
  <2>4. j \in HT!SlotsOf(name)
    BY <2>1, <2>2, MinInSet
  <2>5. HT!LookupSocket(name) = SocketAt(j)
    BY <2>1, <2>3 DEF HT!LookupSocket, SocketAt
  <2> HIDE DEF j
  <2>6. j \in HT!ValidSlots /\ HandleAt(j) = HandleAt(i)
    BY <1>2, <2>4 DEF HT!SlotsOf, HandleAt
  <2>7. HTP!UniqueNames /\ HTP!ValidSlots = HT!ValidSlots
    BY SameTable DEF Typed, ServerTyped, HTP!IInv
  <2>8. j = i
    BY <2>6, <2>7 DEF HTP!UniqueNames, HandleAt
  <2>9. SocketAt(i) \in Fds
    BY TableTyped
  <2> QED BY <2>5, <2>8, <2>9 DEF Fds, FirstFd
<1>3. ASSUME NEW b \in HT!Bindings, b[1] = name
      PROVE  HT!LookupSocket(name) = b[2] /\ b[2] # -1
  <2>1. PICK i \in HT!ValidSlots : b = <<HandleAt(i), SocketAt(i)>>
    BY SameBindings
  <2> QED BY <1>2, <1>3, <2>1
<1> QED BY <1>1, <1>3

\* A broadcast is for every member but its sender.
LEMMA BroadcastReaches ==
  ASSUME IInv, alive, NEW fd \in OpenFds, NEW pdu \in ServerPdu, NEW d \in Clients
  PROVE  PendingOf(BroadcastSends(fd, pdu), d)
           = IF d # conn[fd] /\ Registered(d) THEN <<pdu>> ELSE <<>>
<1> DEFINE todo == BroadcastSends(fd, pdu)
           others == {i \in HT!ValidSlots : SocketAt(i) # fd}
           n == Cardinality(others)
           at == InOrder(others)
<1>1. Typed /\ EntriesLive /\ OneConnection /\ fd \in Fds
  BY DEF IInv, Live, OpenFds
<1>2. /\ todo \in Seq(Sends) /\ Len(todo) = n /\ n \in Nat
      /\ \A k \in 1 .. n : at[k] \in others /\ todo[k] = Send(SocketAt(at[k]), pdu)
  BY <1>1, BroadcastTyped
<1>3. /\ at \in [1 .. n -> others]
      /\ \A k, l \in 1 .. n : k < l => at[k] < at[l]
      /\ \A i \in others : \E k \in 1 .. n : at[k] = i
  <2>1. others \in SUBSET Nat /\ IsFiniteSet(others)
    BY <1>1, TableTyped, FS_Subset
  <2> HIDE DEF others
  <2> QED BY <2>1, InOrderEnumerates
<1>4. others \subseteq HT!ValidSlots /\ \A i \in HT!ValidSlots : i \in others <=> SocketAt(i) # fd
  OBVIOUS
<1>5. others \subseteq Nat
  BY <1>1, TableTyped
<1> HIDE DEF others, n, at, todo
<1>6. \A k \in 1 .. n : todo[k].sock = SocketAt(at[k]) /\ todo[k].pdu = pdu
  BY <1>2 DEF Send
<1>7. DOMAIN todo = 1 .. n
  BY <1>2
<1>8. \A i \in HT!ValidSlots : SocketAt(i) \in BoundFds /\ SocketAt(i) \in OpenFds
  <2>1. \A i \in HT!ValidSlots : <<HandleAt(i), SocketAt(i)>> \in HT!Bindings
    BY <1>1, SameBindings
  <2>2. \A name, g : <<name, g>> \in HT!Bindings => g \in BoundFds /\ g \in OpenFds
    <3> SUFFICES ASSUME NEW b \in HT!Bindings
                 PROVE  b[2] \in BoundFds /\ b[2] \in OpenFds
      OBVIOUS
    <3> QED BY <1>1 DEF BoundFds, EntriesLive
  <2> QED BY <2>1, <2>2
<1>9. \A k : k \in Mine(todo, d) <=> k \in 1 .. n /\ conn[SocketAt(at[k])] = d
  BY <1>2, <1>4, <1>6, <1>7, <1>8 DEF Mine, OpenFds
<1>10. ASSUME d # conn[fd], Registered(d)
       PROVE  PendingOf(todo, d) = <<pdu>>
  <2>1. PICK i \in HT!ValidSlots : conn[SocketAt(i)] = d
    <3>1. PICK b \in HT!Bindings : conn[b[2]] = d
      BY <1>10 DEF Registered, BoundFds
    <3>2. PICK i \in HT!ValidSlots : b = <<HandleAt(i), SocketAt(i)>>
      BY <1>1, SameBindings
    <3>3. b[2] = SocketAt(i)
      BY <3>2
    <3> QED BY <3>1, <3>3
  <2>2. PICK k \in 1 .. n : at[k] = i
    BY <1>3, <1>4, <1>10, <2>1
  <2>3. ASSUME NEW l \in 1 .. n, conn[SocketAt(at[l])] = d
        PROVE  l = k
    <3>1. at[l] \in HT!ValidSlots
      BY <1>2, <1>4
    <3>2. at[l] = at[k]
      BY <2>1, <2>2, <2>3, <3>1, EntriesApart
    <3>3. at[k] \in Nat /\ at[l] \in Nat
      BY <1>2, <1>5
    <3>4. ~(l < k) /\ ~(k < l)
      BY <1>3, <3>2, <3>3
    <3> QED BY <3>4, <1>2
  <2>4. Mine(todo, d) = {k}
    BY <1>9, <2>1, <2>2, <2>3
  <2> QED BY <1>2, <1>6, <2>4, PendingOne
<1>11. ASSUME d = conn[fd] \/ ~Registered(d)
       PROVE  PendingOf(todo, d) = <<>>
  <2>1. Mine(todo, d) = {}
    <3> SUFFICES ASSUME NEW k \in 1 .. n, conn[SocketAt(at[k])] = d
                 PROVE  FALSE
      BY <1>9
    <3>1. at[k] \in HT!ValidSlots /\ SocketAt(at[k]) # fd
      BY <1>2, <1>4
    <3>2. d # conn[fd]
      BY <1>1, <1>8, <3>1 DEF OneConnection
    <3>3. Registered(d)
      BY <1>8, <3>1 DEF Registered
    <3> QED BY <1>11, <3>2, <3>3
  <2> QED BY <1>2, <2>1, PendingNone
<1> QED BY <1>10, <1>11 DEF todo

\* A message is for the clients that hold the names in it; its sender gets an
\* answer for each of the others.
LEMMA ForwardReaches ==
  ASSUME IInv, alive, NEW fd \in OpenFds, NEW d \in Clients,
         Room!Request(conn[fd]) \in TextPdu,
         Room!Request(conn[fd]).flag \in {UNICAST_FLAG, MULTICAST_FLAG}
  PROVE  PendingOf(Forward(fd, Room!Request(conn[fd])), d) = Room!Answers(conn[fd], d)
<1> DEFINE c == conn[fd]
           pdu == Room!Request(c)
           dsts == pdu.dsts
           todo == Forward(fd, pdu)
           S == {k \in DOMAIN dsts :
                   \/ <<dsts[k], d>> \in Members
                   \/ d = c /\ ~Room!Held(dsts[k])}
           Answer(name) == IF Room!Held(name) THEN pdu
                           ELSE HandleOnlyPacket(HANDLE_ERR_FLAG, name)
<1>1. Typed /\ fd \in Fds /\ pdu \in TextPdu
  BY DEF IInv, OpenFds
<1>2. /\ todo \in Seq(Sends) /\ Len(todo) = Len(dsts)
      /\ dsts \in Seq(LegalNames)
      /\ \A k \in 1 .. Len(dsts) : todo[k] = ForwardTo(fd, pdu, dsts[k])
  BY <1>1, ForwardTyped, PduKinds
<1>3. Room!Answers(c, d) = [k \in DOMAIN InOrder(S) |-> Answer(dsts[InOrder(S)[k]])]
  BY SameWords DEF Room!Answers, Room!HANDLE_ERR_FLAG, HANDLE_ERR_FLAG
<1> HIDE DEF todo, pdu
<1>4. DOMAIN dsts = 1 .. Len(dsts) /\ DOMAIN todo = 1 .. Len(dsts) /\ Len(dsts) \in Nat
  BY <1>2
<1>5. ASSUME NEW k \in 1 .. Len(dsts)
      PROVE  /\ todo[k].pdu = Answer(dsts[k]) /\ todo[k].sock \in Fds
             /\ conn[todo[k].sock] = d <=>
                  \/ <<dsts[k], d>> \in Members
                  \/ d = c /\ ~Room!Held(dsts[k])
  <2> DEFINE name == dsts[k]
             sock == HT!LookupSocket(name)
  <2>1. todo[k] = ForwardTo(fd, pdu, name)
    BY <1>2
  <2>2. /\ Room!Held(name) <=> \E b \in HT!Bindings : b[1] = name
        /\ <<name, d>> \in Members <=> \E b \in HT!Bindings : b[1] = name /\ conn[b[2]] = d
    BY <1>1, MembersAre
  <2>3. /\ sock # -1 => <<name, sock>> \in HT!Bindings
        /\ \A b \in HT!Bindings : b[1] = name => sock = b[2] /\ b[2] # -1
    BY <1>1, LookupKnows
  <2> HIDE DEF name, sock
  <2>4. ASSUME sock # -1
        PROVE  /\ Room!Held(name) /\ sock \in Fds
               /\ conn[sock] = d <=> <<name, d>> \in Members
    <3>1. PICK e \in HT!Bindings : e[1] = name /\ e[2] = sock
      BY <2>3, <2>4
    <3>2. sock \in Fds
      BY <1>1, <3>1, SameBindings DEF BoundFds
    <3> QED BY <2>2, <2>3, <3>1, <3>2
  <2>5. ASSUME sock = -1
        PROVE  ~Room!Held(name) /\ <<name, d>> \notin Members
    BY <2>2, <2>3, <2>5
  <2>6. CASE sock # -1
    <3>1. todo[k].pdu = pdu /\ todo[k].sock = sock
      BY <2>1, <2>6 DEF ForwardTo, Send, sock
    <3> QED BY <2>4, <2>6, <3>1 DEF name
  <2>7. CASE sock = -1
    <3>1. todo[k].pdu = HandleOnlyPacket(HANDLE_ERR_FLAG, name) /\ todo[k].sock = fd
      BY <2>1, <2>7 DEF ForwardTo, Send, sock
    <3> QED BY <1>1, <2>5, <2>7, <3>1 DEF name
  <2> QED BY <2>6, <2>7
<1>6. Mine(todo, d) = S
  BY <1>4, <1>5 DEF Mine
<1>7. S \subseteq 1 .. Len(dsts)
  BY <1>4
<1> HIDE DEF S, dsts, c
<1>8. \A k \in DOMAIN InOrder(S) : InOrder(S)[k] \in S
  <2>1. S \in SUBSET Nat
    BY <1>4, <1>7
  <2>2. IsFiniteSet(1 .. Len(dsts))
    BY <1>4, FS_Interval
  <2>3. IsFiniteSet(S)
    BY <1>7, <2>2, FS_Subset
  <2> QED BY <2>1, <2>3, InOrderEnumerates
<1>9. \A k \in DOMAIN InOrder(S) : todo[InOrder(S)[k]].pdu = Answer(dsts[InOrder(S)[k]])
  BY <1>5, <1>7, <1>8
<1> HIDE DEF Answer
<1>10. PendingOf(todo, d) = [k \in DOMAIN InOrder(S) |-> Answer(dsts[InOrder(S)[k]])]
  BY <1>6, <1>9 DEF PendingOf
<1> QED BY <1>3, <1>10 DEF todo, c, pdu
\* The first step of a handler of texts.
LEMMA TextTaken ==
  ASSUME RInv, NEW fd \in Fds, NEW flag \in TextFlags, Received(fd, flag),
         UNCHANGED <<alive, tableVars>>, UNCHANGED clientVars
  PROVE  /\ IInv /\ alive /\ fd \in OpenFds /\ conn[fd] \in Clients
         /\ Pdu(fd) \in TextPdu /\ Pdu(fd) \in ServerPdu /\ Pdu(fd).flag = flag
         /\ Room!Take(conn[fd], flag) /\ Room!Request(conn[fd]) = Pdu(fd)
         /\ <<Room!Request(conn[fd]).src, conn[fd]>> \in Members
         /\ Members' = Members
<1>1. IInv /\ Typed /\ conn' = conn /\ fd \in OpenFds
  BY DEF RInv, IInv, Received, ServerRecv
<1>2. /\ conn[fd] \in Clients /\ Pdu(fd) \in ClientPdu /\ Pdu(fd).flag = flag /\ alive
  BY <1>1, ReceivedTyped
<1>3. Room!Take(conn[fd], flag) /\ Room!Request(conn[fd]) = Pdu(fd)
  BY HandlerTakes
<1>4. flag # INIT_CONNECT_FLAG
  BY DEF TextFlags, BROADCAST_FLAG, UNICAST_FLAG, MULTICAST_FLAG, INIT_CONNECT_FLAG
<1>5. <<Pdu(fd).src, conn[fd]>> \in Members
  BY <1>4, FromMember
<1>6. Members' = Members
  BY <1>1, MembersKept
<1>7. Pdu(fd) \in TextPdu /\ Pdu(fd) \in ServerPdu
  BY <1>2, PduKinds
<1> QED BY <1>1, <1>2, <1>3, <1>5, <1>6, <1>7

LEMMA BroadcastDone ==
  ASSUME RInv, Typed', NEW fd \in Fds, FlagBroadcast(fd), UNCHANGED clientVars
  PROVE  Room!Next
<1> DEFINE c == conn[fd]
           new == [d \in Clients |->
                     IF d # c /\ Room!Member(d) THEN <<Room!Request(c)>> ELSE <<>>]
<1>1. Received(fd, BROADCAST_FLAG) /\ UNCHANGED <<alive, tableVars>>
  BY DEF FlagBroadcast
<1>2. BROADCAST_FLAG \in TextFlags
  BY DEF TextFlags
<1>3. /\ IInv /\ alive /\ fd \in OpenFds /\ c \in Clients /\ Pdu(fd) \in ServerPdu
      /\ Room!Take(c, BROADCAST_FLAG) /\ Room!Request(c) = Pdu(fd)
      /\ <<Room!Request(c).src, c>> \in Members /\ Members' = Members
  BY <1>1, <1>2, TextTaken
<1>4. job'.todo = BroadcastSends(fd, Pdu(fd))
  BY DEF FlagBroadcast, Job, NoJob
<1>5. ASSUME NEW d \in Clients
      PROVE  PendingOf(job'.todo, d) = new[d]
  <2>1. Room!Member(d) <=> Registered(d)
    BY <1>3, MembersAre DEF IInv
  <2> QED BY <1>3, <1>4, <2>1, BroadcastReaches
<1> HIDE DEF c, new
<1>6. Room!Deliver(new)
  BY <1>1, <1>5, HandlerDelivers
<1>7. Room!Broadcast(c)
  BY <1>3, <1>6 DEF Room!Broadcast, new, Room!BROADCAST_FLAG, BROADCAST_FLAG
<1> QED BY <1>3, <1>7 DEF Room!Next

LEMMA MessageDone ==
  ASSUME RInv, Typed', NEW fd \in Fds, FlagUnicast(fd) \/ FlagMulticast(fd),
         UNCHANGED clientVars
  PROVE  Room!Next
<1> DEFINE c == conn[fd]
           new == [d \in Clients |-> Room!Answers(c, d)]
<1>1. PICK flag \in {UNICAST_FLAG, MULTICAST_FLAG} :
        /\ Received(fd, flag) /\ UNCHANGED <<alive, tableVars>>
        /\ job' = Job(fd, Forward(fd, Pdu(fd)), FALSE)
  BY DEF FlagUnicast, FlagMulticast
<1>2. flag \in TextFlags
  BY DEF TextFlags
<1>3. /\ IInv /\ alive /\ fd \in OpenFds /\ c \in Clients
      /\ Pdu(fd) \in TextPdu /\ Pdu(fd).flag = flag
      /\ Room!Take(c, flag) /\ Room!Request(c) = Pdu(fd)
      /\ <<Room!Request(c).src, c>> \in Members /\ Members' = Members
  BY <1>1, <1>2, TextTaken
<1>4. job'.todo = Forward(fd, Pdu(fd))
  BY <1>1 DEF Job, NoJob
<1>5. ASSUME NEW d \in Clients
      PROVE  PendingOf(job'.todo, d) = new[d]
  BY <1>1, <1>3, <1>4, ForwardReaches
<1> HIDE DEF c, new
<1>6. Room!Deliver(new)
  BY <1>1, <1>5, HandlerDelivers
<1>7. Room!Message(c, flag)
  BY <1>3, <1>6 DEF Room!Message, new
<1>8. flag = Room!UNICAST_FLAG \/ flag = Room!MULTICAST_FLAG
  BY <1>1 DEF Room!UNICAST_FLAG, UNICAST_FLAG, Room!MULTICAST_FLAG, MULTICAST_FLAG
<1> QED BY <1>3, <1>7, <1>8 DEF Room!Next

\* A list names every member once.
LEMMA WalkMembers ==
  ASSUME IInv, alive
  PROVE  LET n == Cardinality(HT!ValidSlots)
             order == [i \in 1 .. n |-> <<HandleAt(Walk[i]), conn[SocketAt(Walk[i])]>>]
         IN /\ n \in Nat /\ Room!Cardinality(Members) = n
            /\ order \in [1 .. n -> Members]
            /\ \A m \in Members : \E i \in 1 .. n : order[i] = m
<1> DEFINE n == Cardinality(HT!ValidSlots)
           entry(i) == <<HandleAt(i), conn[SocketAt(i)]>>
           order == [k \in 1 .. n |-> entry(Walk[k])]
<1>1. Typed
  BY DEF IInv
<1>2. Members = {entry(i) : i \in HT!ValidSlots}
  <2> DEFINE view(b) == <<b[1], conn[b[2]]>>
             at(i) == <<HandleAt(i), SocketAt(i)>>
  <2>1. Members = {view(b) : b \in HT!Bindings}
    BY DEF Members
  <2>2. HT!Bindings = {at(i) : i \in HT!ValidSlots}
    BY <1>1, SameBindings
  <2>3. \A i \in HT!ValidSlots : view(at(i)) = entry(i)
    OBVIOUS
  <2> HIDE DEF view, at, entry
  <2> QED BY <2>1, <2>2, <2>3
<1>3. \A i, j \in HT!ValidSlots : entry(i) = entry(j) => i = j
  BY EntriesApart
<1>4. /\ n \in Nat /\ Walk \in [1 .. n -> HT!ValidSlots]
      /\ \A k, l \in 1 .. n : k < l => Walk[k] < Walk[l]
      /\ \A i \in HT!ValidSlots : \E k \in 1 .. n : Walk[k] = i
      /\ HT!ValidSlots \subseteq Nat
  <2>1. HT!ValidSlots \in SUBSET Nat /\ IsFiniteSet(HT!ValidSlots)
    BY <1>1, TableTyped
  <2>2. Walk = InOrder(HT!ValidSlots)
    BY <1>1, WalkTyped
  <2> QED BY <2>1, <2>2, InOrderEnumerates
<1> HIDE DEF entry, n
<1>5. order \in [1 .. n -> Members]
  BY <1>2, <1>4
<1>6. \A m \in Members : \E k \in 1 .. n : order[k] = m
  <2> SUFFICES ASSUME NEW i \in HT!ValidSlots
               PROVE  \E k \in 1 .. n : order[k] = entry(i)
    BY <1>2
  <2>1. PICK k \in 1 .. n : Walk[k] = i
    BY <1>4
  <2> QED BY <2>1
<1>7. ASSUME NEW k \in 1 .. n, NEW l \in 1 .. n, order[k] = order[l]
      PROVE  k = l
  <2>1. Walk[k] \in HT!ValidSlots /\ Walk[l] \in HT!ValidSlots
    BY <1>4
  <2>2. Walk[k] = Walk[l]
    BY <1>3, <1>7, <2>1
  <2>3. Walk[k] \in Nat
    BY <1>4, <2>1
  <2>4. ~(k < l) /\ ~(l < k)
    BY <1>4, <2>2, <2>3
  <2> QED BY <2>4, <1>4
<1> HIDE DEF order
<1>8. Cardinality(Members) = n
  <2> DEFINE T == Members
  <2>1. order \in [1 .. n -> T] /\ \A t \in T : \E k \in 1 .. n : order[k] = t
    BY <1>5, <1>6
  <2> HIDE DEF T
  <2> QED BY <1>4, <1>7, <2>1, Numbered DEF T
<1>9. Room!Cardinality(Members) = n
  BY <1>8, SameWords
<1> QED BY <1>4, <1>5, <1>6, <1>9 DEF order, n, entry

\* The list is delivered as one.
LEMMA ListReaches ==
  ASSUME IInv, alive, NEW fd \in OpenFds, NEW d \in Clients
  PROVE  LET n == Cardinality(HT!ValidSlots)
         IN PendingOf(HandleListSends(fd), d) =
              IF d # conn[fd] THEN <<>>
              ELSE <<ListCountPacket(n)>>
                     \o [i \in 1 .. n |-> HandleOnlyPacket(HANDLE_ITEM_FLAG, HandleAt(Walk[i]))]
                     \o <<ChatHeaderPacket(HANDLE_FINISH_FLAG)>>
<1> DEFINE n == Cardinality(HT!ValidSlots)
           todo == HandleListSends(fd)
           item == [i \in 1 .. n |-> HandleOnlyPacket(HANDLE_ITEM_FLAG, HandleAt(Walk[i]))]
           first == ListCountPacket(n)
           last == ChatHeaderPacket(HANDLE_FINISH_FLAG)
           list == <<first>> \o item \o <<last>>
<1>1. Typed /\ fd \in Fds
  BY DEF IInv, OpenFds
<1>2. /\ n \in Nat /\ todo \in Seq(Sends) /\ Len(todo) = n + 2
      /\ todo[1] = Send(fd, ListCountPacket(tableCount))
      /\ \A i \in 1 .. n : todo[i + 1] = Send(fd, item[i])
      /\ todo[n + 2] = Send(fd, last)
  BY <1>1, HandleListElements
<1>3. tableCount = n
  <2>1. HTP!CountExact /\ HTP!ValidSlots = HT!ValidSlots
    BY <1>1, SameTable DEF Typed, ServerTyped, HTP!IInv
  <2>2. \A S : HTP!Cardinality(S) = Cardinality(S)
    BY DEF HTP!Cardinality, Cardinality
  <2> QED BY <2>1, <2>2 DEF HTP!CountExact
<1>4. item \in Seq(ServerPdu) /\ Len(item) = n /\ first \in ServerPdu /\ last \in ServerPdu
  <2>1. \A i \in 1 .. n : Walk[i] \in HT!ValidSlots
    BY <1>1, WalkTyped
  <2>2. \A i \in 1 .. n : HandleAt(Walk[i]) \in LegalNames
    BY <1>1, <2>1, TableTyped
  <2>3. \A i \in 1 .. n : item[i] \in ServerPdu
    BY <2>2, AnswersTyped
  <2>4. first \in ServerPdu /\ last \in ServerPdu
    BY <1>2, AnswersTyped
  <2> HIDE DEF n
  <2>5. item \in [1 .. n -> ServerPdu]
    BY <2>3
  <2> HIDE DEF item
  <2> QED BY <1>2, <2>4, <2>5
<1> HIDE DEF todo, n, item, first, last
<1>5. \A i \in 1 .. n + 2 :
        todo[i] = Send(fd, IF i = 1 THEN first ELSE IF i = n + 2 THEN last ELSE item[i - 1])
  <2> SUFFICES ASSUME NEW i \in 1 .. n + 2, i # 1, i # n + 2
               PROVE  todo[i] = Send(fd, item[i - 1])
    BY <1>2, <1>3 DEF first
  <2>1. PICK j \in 1 .. n : i = j + 1 /\ j = i - 1
    <3>1. i - 1 \in 1 .. n /\ i = (i - 1) + 1
      BY <1>2
    <3> QED BY <3>1
  <2> QED BY <1>2, <2>1
<1>6. DOMAIN todo = 1 .. n + 2
  BY <1>2
<1>7. \A i \in 1 .. n + 2 :
        /\ todo[i].sock = fd
        /\ todo[i].pdu = IF i = 1 THEN first ELSE IF i = n + 2 THEN last ELSE item[i - 1]
  <2>1. \A pdu : Send(fd, pdu).sock = fd /\ Send(fd, pdu).pdu = pdu
    BY DEF Send
  <2> QED BY <1>5, <2>1
<1>8. CASE d = conn[fd]
  <2>1. Mine(todo, d) = DOMAIN todo
    BY <1>1, <1>6, <1>7, <1>8 DEF Mine
  <2>2. PendingOf(todo, d) = [i \in 1 .. n + 2 |-> todo[i].pdu]
    BY <1>2, <2>1, PendingAll
  <2>3. /\ list \in Seq(ServerPdu) /\ Len(list) = n + 2
        /\ \A i \in 1 .. n + 2 :
             list[i] = IF i = 1 THEN first ELSE IF i = n + 2 THEN last ELSE item[i - 1]
    BY <1>2, <1>4
  <2> HIDE DEF list
  <2>4. list = [i \in 1 .. n + 2 |-> todo[i].pdu]
    <3>1. list = [i \in 1 .. n + 2 |-> list[i]]
      BY <1>2, <2>3
    <3> QED BY <1>7, <2>3, <3>1
  <2> QED BY <1>8, <2>2, <2>4 DEF list, todo, n, item, first, last
<1>9. CASE d # conn[fd]
  <2>1. Mine(todo, d) = {}
    BY <1>6, <1>7, <1>9 DEF Mine
  <2> QED BY <1>2, <1>9, <2>1, PendingNone DEF todo
<1> QED BY <1>8, <1>9

LEMMA ListDone ==
  ASSUME RInv, Typed', NEW fd \in Fds, FlagHandleList(fd), UNCHANGED clientVars
  PROVE  Room!Next
<1> DEFINE c == conn[fd]
           n == Cardinality(HT!ValidSlots)
           order == [i \in 1 .. n |-> <<HandleAt(Walk[i]), conn[SocketAt(Walk[i])]>>]
           list == <<ListCountPacket(n)>>
                     \o [i \in 1 .. n |-> HandleOnlyPacket(HANDLE_ITEM_FLAG, HandleAt(Walk[i]))]
                     \o <<ChatHeaderPacket(HANDLE_FINISH_FLAG)>>
           new == [d \in Clients |-> IF d = c THEN list ELSE <<>>]
<1>1. /\ Received(fd, HANDLE_LIST_FLAG) /\ UNCHANGED <<alive, tableVars>>
      /\ job' = Job(fd, HandleListSends(fd), FALSE)
  BY DEF FlagHandleList
<1>2. /\ IInv /\ Typed /\ alive /\ fd \in OpenFds /\ conn' = conn /\ c \in Clients
  BY <1>1, ReceivedTyped DEF RInv, IInv, Received, ServerRecv
<1>3. Room!Take(c, Room!HANDLE_LIST_FLAG)
  BY <1>1, HandlerTakes DEF Room!HANDLE_LIST_FLAG, HANDLE_LIST_FLAG
<1>4. HANDLE_LIST_FLAG # INIT_CONNECT_FLAG
  BY DEF HANDLE_LIST_FLAG, INIT_CONNECT_FLAG
<1>5. Room!Member(c) /\ Members' = Members
  BY <1>1, <1>2, <1>4, FromMember, MembersKept
<1>6. job'.todo = HandleListSends(fd)
  BY <1>1 DEF Job, NoJob
<1>7. ASSUME NEW d \in Clients
      PROVE  PendingOf(job'.todo, d) = new[d]
  <2>1. PendingOf(HandleListSends(fd), d) = IF d # c THEN <<>> ELSE list
    BY <1>2, ListReaches
  <2> HIDE DEF list, c
  <2> QED BY <1>6, <2>1
<1>8. /\ n \in Nat /\ Room!Cardinality(Members) = n
      /\ order \in [1 .. n -> Members]
      /\ \A m \in Members : \E i \in 1 .. n : order[i] = m
  BY <1>2, WalkMembers
<1>9. list = <<Room!ListCountPacket(n)>>
               \o [i \in 1 .. n |->
                     Room!HandleOnlyPacket(Room!HANDLE_ITEM_FLAG, order[i][1])]
               \o <<Room!ChatHeaderPacket(Room!HANDLE_FINISH_FLAG)>>
  <2>1. Room!HANDLE_ITEM_FLAG = HANDLE_ITEM_FLAG /\ Room!HANDLE_FINISH_FLAG = HANDLE_FINISH_FLAG
    BY DEF Room!HANDLE_ITEM_FLAG, HANDLE_ITEM_FLAG, Room!HANDLE_FINISH_FLAG, HANDLE_FINISH_FLAG
  <2>2. \A i \in 1 .. n : order[i][1] = HandleAt(Walk[i])
    OBVIOUS
  <2> HIDE DEF order, n
  <2>3. [i \in 1 .. n |-> Room!HandleOnlyPacket(Room!HANDLE_ITEM_FLAG, order[i][1])]
          = [i \in 1 .. n |-> HandleOnlyPacket(HANDLE_ITEM_FLAG, HandleAt(Walk[i]))]
    BY <2>1, <2>2, SameWords
  <2> QED BY <2>1, <2>3, SameWords
<1> HIDE DEF c, order, list, n
<1>10. Room!DeliverTo(c, list)
  <2> HIDE DEF new
  <2>1. Room!Deliver(new)
    BY <1>1, <1>7, HandlerDelivers
  <2> QED BY <2>1 DEF Room!DeliverTo, new
<1> HIDE DEF new
<1>11. Room!List(c)
  <2>1. Room!DeliverTo(c, <<Room!ListCountPacket(n)>>
               \o [i \in 1 .. n |->
                     Room!HandleOnlyPacket(Room!HANDLE_ITEM_FLAG, order[i][1])]
               \o <<Room!ChatHeaderPacket(Room!HANDLE_FINISH_FLAG)>>)
    BY <1>9, <1>10
  <2> QED BY <1>3, <1>5, <1>8, <2>1 DEF Room!List
<1> QED BY <1>2, <1>11 DEF Room!Next
------------------------------------------------------------------------------
(* The other steps of the server. *)

\* The table's entries do not see what happens to other descriptors.
LEMMA MembersApart ==
  ASSUME Typed, HT!Bindings' = HT!Bindings, alive' = alive,
         \A g \in BoundFds : conn'[g] = conn[g]
  PROVE  Members' = Members
<1> DEFINE view(b) == <<b[1], conn[b[2]]>>
           view1(b) == <<b[1], conn'[b[2]]>>
<1>1. \A b \in HT!Bindings : view1(b) = view(b)
  BY DEF BoundFds
<1>2. Members = IF alive THEN {view(b) : b \in HT!Bindings} ELSE {}
  BY DEF Members
<1>3. Members' = IF alive THEN {view1(b) : b \in HT!Bindings} ELSE {}
  BY DEF Members
<1> HIDE DEF view, view1
<1> QED BY <1>1, <1>2, <1>3

LEMMA SendRests ==
  ASSUME RInv, SendNext, UNCHANGED clientVars
  PROVE  UNCHANGED Room!vars
<1>1. Typed /\ alive' = alive /\ conn' = conn /\ UNCHANGED tableVars /\ c2s' = c2s
  BY DEF RInv, IInv, SendNext, ServerSendReturns
<1>2. Members' = Members
  BY <1>1, MembersKept
<1>3. Left' = Left
  BY DEF Left, clientVars
<1>4. \A d \in Clients : Stream(d)' = Stream(d)
  BY <1>1, StreamKept
<1>5. Inbox' = Inbox
  BY <1>3, <1>4 DEF Inbox
<1> QED BY <1>1, <1>2, <1>3, <1>5 DEF Room!vars

LEMMA AcceptRests ==
  ASSUME RInv, Typed', NEW fd \in Fds, AddNewClient(fd), UNCHANGED clientVars
  PROVE  UNCHANGED Room!vars
<1>1. /\ Typed /\ EntriesLive /\ alive' = alive /\ UNCHANGED tableVars
      /\ c2s' = c2s /\ s2c' = s2c /\ job' = job /\ job.todo = <<>>
      /\ conn' = [conn EXCEPT ![fd] = Head(backlog)] /\ fd \notin OpenFds
  BY DEF RInv, IInv, Live, AddNewClient, AcceptCall, Polling, NoJob
<1>2. HT!Bindings' = HT!Bindings
  BY <1>1, BindingsChange
<1>3. \A g \in BoundFds : conn'[g] = conn[g]
  BY <1>1 DEF BoundFds, EntriesLive
<1>4. Members' = Members
  BY <1>1, <1>2, <1>3, MembersApart
<1>5. Left' = Left
  BY DEF Left, clientVars
<1>6. \A d \in Clients : Stream(d)' = Stream(d)
  BY <1>1, IdleStreams
<1>7. Inbox' = Inbox
  BY <1>5, <1>6 DEF Inbox
<1> QED BY <1>1, <1>4, <1>5, <1>7 DEF Room!vars

\* close() drops only what was on its way to a client that has left.
LEMMA CloseKeepsInbox ==
  ASSUME RInv, Typed', Ends, NEW fd \in OpenFds, ServerClose(fd),
         job.todo = <<>>, job'.todo = <<>>, UNCHANGED clientVars
  PROVE  Left' = Left /\ Inbox' = Inbox
<1>1. Typed /\ Kernel
  BY DEF RInv, IInv
<1>2. Left' = Left
  BY DEF Left, clientVars
<1>3. ASSUME NEW d \in Clients, d \notin Left
      PROVE  s2c'[d] = s2c[d]
  <2>1. cliEnd[d] \notin {"closed", "reset"}
    BY <1>1, <1>3, InboxAt DEF Kernel
  <2>2. d = conn[fd] => cliEnd[d] = "open"
    BY <1>1, <2>1 DEF Ends, Typed, TcpTyped
  <2> QED BY <2>2 DEF ServerClose, CloseServerEnds
<1>4. \A d \in Clients : d \notin Left => Stream(d)' = Stream(d)
  BY <1>1, <1>3, IdleStreams
<1>5. Inbox' = Inbox
  BY <1>2, <1>4 DEF Inbox
<1> QED BY <1>2, <1>5

\* A client that was turned away had nothing more to ask.
LEMMA CloseRests ==
  ASSUME RInv, Typed', Ends, CloseRejected, UNCHANGED clientVars
  PROVE  UNCHANGED Room!vars
<1> DEFINE fd == job.fd
<1>1. /\ Typed /\ JobGood /\ Refused /\ alive' = alive /\ UNCHANGED tableVars
      /\ ServerClose(fd) /\ job.closing /\ job.todo = <<>> /\ job' = NoJob
  BY DEF CloseRejected, RInv, IInv, Live
<1>2. fd \in OpenFds /\ fd \notin BoundFds /\ c2s[conn[fd]] = <<>>
  BY <1>1 DEF JobGood, Refused
<1>3. HT!Bindings' = HT!Bindings
  BY <1>1, BindingsChange
<1>4. \A g \in BoundFds : conn'[g] = conn[g]
  BY <1>1, <1>2, SameBindings DEF ServerClose, Typed, TcpTyped
<1>5. Members' = Members
  BY <1>1, <1>3, <1>4, MembersApart
<1>6. Left' = Left /\ Inbox' = Inbox
  BY <1>1, <1>2, CloseKeepsInbox DEF NoJob
<1>7. c2s' = c2s
  BY <1>1, <1>2 DEF ServerClose, CloseServerEnds, Typed, TcpTyped
<1> QED BY <1>1, <1>5, <1>6, <1>7 DEF Room!vars

LEMMA DisconnectForgets ==
  ASSUME RInv, Typed', Ends, NEW fd \in Fds, Disconnect(fd), UNCHANGED clientVars
  PROVE  Room!Next
<1> DEFINE c == conn[fd]
           view(b) == <<b[1], conn[b[2]]>>
           view1(b) == <<b[1], conn'[b[2]]>>
<1>1. /\ Typed /\ Kernel /\ EntriesLive /\ OneConnection /\ alive /\ alive' = alive
      /\ ServerClose(fd) /\ fd \in OpenFds /\ HT!RemoveHandle(fd)
      /\ cliEnd[c] \in {"closed", "reset"}
      /\ job.todo = <<>> /\ job' = job
  BY DEF RInv, IInv, Live, Disconnect, Polling, ServerEof, NoJob
<1>2. c \in Clients
  BY <1>1 DEF OpenFds, Typed, TcpTyped
<1>3. c \in Left
  BY <1>1, <1>2, InboxAt DEF Kernel
<1>4. Left' = Left /\ Inbox' = Inbox
  BY <1>1, CloseKeepsInbox
<1>5. c2s' = [c2s EXCEPT ![c] = <<>>]
  BY <1>1, <1>2 DEF ServerClose, CloseServerEnds, Typed, TcpTyped
<1>6. HT!Bindings' = {entry \in HT!Bindings : entry[2] # fd}
  BY <1>1, BindingsChange
<1>7. conn' = [conn EXCEPT ![fd] = NoClient] /\ conn \in [Fds -> Clients \cup {NoClient}]
  BY <1>1 DEF ServerClose, Typed, TcpTyped
<1>8. ASSUME NEW b \in HT!Bindings
      PROVE  /\ b[2] # fd => view1(b) = view(b)
             /\ b[2] = fd <=> view(b)[2] = c
  <2>1. b[2] \in OpenFds /\ b[2] \in Fds
    BY <1>1 DEF EntriesLive, OpenFds
  <2>2. b[2] # fd => view1(b) = view(b)
    BY <1>7, <2>1
  <2>3. b[2] = fd <=> view(b)[2] = c
    BY <1>1, <2>1 DEF OneConnection
  <2> QED BY <2>2, <2>3
<1>9. Members = {view(b) : b \in HT!Bindings}
  BY <1>1 DEF Members
<1>10. Members' = {view1(b) : b \in HT!Bindings'}
  BY <1>1 DEF Members
<1>11. Members' = {m \in Members : m[2] # c}
  <2> HIDE DEF view, view1, c
  <2> QED BY <1>6, <1>8, <1>9, <1>10
<1>12. Room!Forget(c)
  BY <1>1, <1>3, <1>4, <1>5, <1>11 DEF Room!Forget
<1> QED BY <1>2, <1>12 DEF Room!Next

LEMMA PrefixOf ==
  ASSUME NEW S, NEW s \in Seq(S), NEW t \in Seq(S)
  PROVE  Len(s) \in 0 .. Len(s \o t) /\ s = SubSeq(s \o t, 1, Len(s))
BY SubSeqProperties, ConcatProperties

LEMMA ServerDiesCrashes ==
  ASSUME RInv, Typed', alive, ServerDies, UNCHANGED clientVars
  PROVE  Room!Next
<1>1. /\ Typed /\ Kernel /\ alive' = FALSE /\ job' = NoJob /\ ServerExit
  BY DEF RInv, IInv, ServerDies
<1>2. Left' = Left
  BY DEF Left, clientVars
<1>3. Members' = {}
  BY <1>1 DEF Members
<1>4. c2s' = [c \in Clients |-> <<>>]
  BY <1>1 DEF ServerExit, CloseServerEnds, Connected, Kernel
<1>5. ASSUME NEW d \in Clients
      PROVE  \E k \in 0 .. Len(Inbox[d]) : Inbox'[d] = SubSeq(Inbox[d], 1, k)
  <2>1. CASE d \in Left
    <3>1. Inbox[d] = <<>> /\ Inbox'[d] = <<>>
      BY <1>2, <2>1 DEF Inbox
    <3>2. 0 \in 0 .. Len(Inbox[d]) /\ SubSeq(Inbox[d], 1, 0) = <<>>
      BY <3>1
    <3> QED BY <3>1, <3>2
  <2>2. CASE d \notin Left
    <3>1. cliEnd[d] \notin {"closed", "reset"}
      BY <1>1, <2>2, InboxAt DEF Kernel
    <3>2. cliEnd[d] \in {"none", "open"}
      BY <1>1, <3>1 DEF Typed, TcpTyped
    <3>3. s2c'[d] = s2c[d]
      BY <1>1, <3>2 DEF ServerExit, CloseServerEnds, Connected
    <3>4. Stream(d)' = s2c[d]
      BY <1>1, <3>3, IdleStreams DEF NoJob
    <3>5. /\ s2c[d] \in Seq(ServerPdu) /\ Pending(d) \in Seq(ServerPdu)
          /\ Stream(d) = s2c[d] \o Pending(d)
      BY <1>1, StreamElements DEF Stream
    <3>6. Len(s2c[d]) \in 0 .. Len(Stream(d)) /\ s2c[d] = SubSeq(Stream(d), 1, Len(s2c[d]))
      BY <3>5, PrefixOf
    <3>7. Inbox[d] = Stream(d) /\ Inbox'[d] = s2c[d]
      BY <1>2, <2>2, <3>4 DEF Inbox
    <3> QED BY <3>6, <3>7
  <2> QED BY <2>1, <2>2
<1>6. DOMAIN Inbox' = Clients
  BY DEF Inbox
<1>7. Room!Crash
  BY <1>1, <1>2, <1>3, <1>4, <1>5, <1>6 DEF Room!Crash
<1> QED BY <1>7 DEF Room!Next

------------------------------------------------------------------------------
(* The system implements the room. *)

LEMMA InitRefines == Init => Room!Init
<1> SUFFICES ASSUME Init PROVE Room!Init
  OBVIOUS
<1>1. Typed
  BY InitTyped
<1>2. /\ alive = TRUE /\ job.todo = <<>>
      /\ c2s = [c \in Clients |-> <<>>] /\ s2c = [c \in Clients |-> <<>>]
      /\ \A c \in Clients : pc[c] # "gone"
  BY DEF Init, TcpInit, ServerInit, ClientInit, NoJob
<1>3. HT!ValidSlots = {}
  BY DEF Init, ServerInit, HT!Init, HT!ValidSlots, HT!Slots
<1>4. Members = {}
  BY <1>1, <1>3, SameBindings DEF Members
<1>5. Left = {} /\ Inbox = [c \in Clients |-> <<>>]
  BY <1>1, <1>2, IdleStreams DEF Left, Inbox
<1> QED BY <1>2, <1>4, <1>5 DEF Room!Init

LEMMA NextRefines ==
  ASSUME RInv, SInv, Typed', [Next]_vars
  PROVE  [Room!Next]_Room!vars
<1>1. CASE UNCHANGED vars
  <2>1. UNCHANGED serverVars /\ conn' = conn /\ Rests
    BY <1>1 DEF vars, tcpVars, clientVars, Rests
  <2> QED BY <2>1, RestsStutter
<1>2. ASSUME NEW c \in Clients,
             ConnectStep(c) \/ UserStep(c) \/ ProgramStep(c) \/ NetworkStep(c)
      PROVE  [Room!Next]_Room!vars
  <2>1. /\ UNCHANGED serverVars /\ conn' = conn
        /\ Quits(c) \/ (\E pdu : Asks(c, pdu)) \/ Reads(c) \/ Rests
    BY <1>2, ClientKinds DEF RInv, IInv
  <2>2. CASE Quits(c)
    BY <2>1, <2>2, QuitsLeave DEF Room!Next
  <2>3. ASSUME NEW pdu, Asks(c, pdu)
        PROVE  Room!Next
    BY <2>1, <2>3, AsksAsk DEF Room!Next
  <2>4. CASE Reads(c)
    BY <2>1, <2>4, ReadsRead DEF Room!Next
  <2>5. CASE Rests
    BY <2>1, <2>5, RestsStutter
  <2> QED BY <2>1, <2>2, <2>3, <2>4, <2>5
<1>3. CASE ServerStep
  <2>1. ServerNext /\ UNCHANGED clientVars
    BY <1>3 DEF ServerStep
  <2>2. alive => Ends
    BY DEF SInv
  <2>3. CASE AcceptExits
    BY <2>1, <2>3, ServerDiesCrashes DEF AcceptExits, Polling
  <2>4. CASE SendKillsServer
    BY <2>1, <2>4, ServerDiesCrashes DEF SendKillsServer
  <2>5. CASE SendNext
    BY <2>1, <2>5, SendRests
  <2>6. CASE CloseRejected
    BY <2>1, <2>2, <2>6, CloseRests DEF CloseRejected
  <2>7. ASSUME NEW fd \in Fds, AddNewClient(fd)
        PROVE  UNCHANGED Room!vars
    BY <2>1, <2>7, AcceptRests
  <2>8. ASSUME NEW fd \in Fds,
               \/ FlagConnect(fd) \/ FlagBroadcast(fd) \/ FlagUnicast(fd)
               \/ FlagMulticast(fd) \/ FlagHandleList(fd)
        PROVE  Room!Next
    BY <2>1, <2>8, ConnectJoins, BroadcastDone, MessageDone, ListDone
  <2>9. ASSUME NEW fd \in Fds, Disconnect(fd)
        PROVE  Room!Next
    BY <2>1, <2>2, <2>9, DisconnectForgets DEF Disconnect, Polling
  <2> QED BY <2>1, <2>3, <2>4, <2>5, <2>6, <2>7, <2>8, <2>9 DEF ServerNext
<1> QED BY <1>1, <1>2, <1>3 DEF Next

\* The server with its table, its poll loop, its one-by-one sends and its exits,
\* the clients and the kernel implement ChatRoom, whatever the number of
\* clients, names, descriptors and PDUs a socket holds: every PDU has its whole
\* effect at the moment the server takes it (server.c, processClientPacket).
THEOREM SystemImplementsRoom == Spec => ImplementsChatRoom
<1>1. Init => Room!Init
  BY InitRefines
<1>2. RInv /\ SInv /\ RInv' /\ [Next]_vars => [Room!Next]_Room!vars
  <2>1. RInv' => Typed'
    BY DEF RInv, IInv
  <2> QED BY <2>1, NextRefines
<1> QED BY <1>1, <1>2, RoomInvariance, StreamInvariance, PTL
       DEF Spec, Room!Spec, ImplementsChatRoom
==============================================================================
