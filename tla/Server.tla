-------------------------------- MODULE Server --------------------------------
(***************************************************************************)
(* server.c: one thread that takes one ready descriptor from poll at a     *)
(* time and handles one PDU of it to the end.  A handler that sends is     *)
(* split where the process can block or die: its first step receives the   *)
(* PDU, changes the handle table and leaves the send() calls still to be   *)
(* made in job; each SendNext makes one.  While a job is there the server  *)
(* does nothing else, so the table the handler's loop walks is the one its *)
(* first step saw.                                                         *)
(*                                                                         *)
(* pollCall returns the lowest descriptor whose data has arrived; as the   *)
(* network may hold back data of any connection, a step may take any       *)
(* connection that has PDUs under way.                                     *)
(***************************************************************************)
EXTENDS Tcp, ChatPacket, LoopOrder

CONSTANTS
  Garbage,         \* see HandleTable
  INIT_TABLE_SIZE

VARIABLES
  alive,           \* the server process runs
  polled,          \* the connections in pollFileDescriptors
  job,             \* what the handler in progress has left to do
  handleTable, tableCapacity, tableCount

HT == INSTANCE HandleTable WITH Sockets <- Fds

\* What HandleTable assumes, of the constants that are the server's.
ASSUME ServerAssumption ==
  /\ EmptyName \notin LegalNames
  /\ Garbage \subseteq HT!HandleEntry /\ Garbage # {}
  /\ INIT_TABLE_SIZE \in Nat \ {0}

tableVars == <<handleTable, tableCapacity, tableCount>>
serverVars == <<alive, polled, job, tableVars>>

NoJob == [fd |-> 0, todo |-> <<>>, closing |-> FALSE]

\* A job with nothing to do is over.
Job(fd, todo, closing) ==
  IF todo = <<>> /\ ~closing THEN NoJob
  ELSE [fd |-> fd, todo |-> todo, closing |-> closing]

Send(sock, pdu) == [sock |-> sock, pdu |-> pdu]

ServerInit ==
  /\ alive = TRUE
  /\ polled = {}
  /\ job = NoJob
  /\ HT!Init

\* exit() or a signal: memory and descriptors are gone.
ServerDies ==
  /\ alive' = FALSE
  /\ job' = NoJob
  /\ polled' = {}
  /\ ServerExit
  /\ UNCHANGED tableVars

\* pollCall is about to return.
Polling == alive /\ job = NoJob

------------------------------------------------------------------------------
(* New connections. *)

\* Mutant: the new socket is not added to the poll set.
MutantAddNewClient(fd) ==
  /\ Polling
  /\ AcceptCall(fd)
  /\ UNCHANGED <<alive, polled, job, tableVars>>

AddNewClient(fd) ==
  /\ Polling
  /\ AcceptCall(fd)
  /\ polled' = polled \cup {fd}
  /\ UNCHANGED <<alive, job, tableVars>>

\* tcpAccept exits the process when accept() fails.
AcceptExits ==
  /\ Polling
  /\ AcceptFails
  /\ ServerDies

------------------------------------------------------------------------------
(* processClientPacket. *)

\* The first steps of a handler: the next PDU of a ready client is received.
Received(fd, flag) ==
  /\ Polling
  /\ fd \in polled
  /\ ServerRecv(fd)
  /\ Head(c2s[conn[fd]]).flag = flag

Pdu(fd) == Head(c2s[conn[fd]])

\* The indices at which getHandleAtIndex returns 1, in the order of the loop of
\* flagHandleList.
Walk == InOrder({i \in HT!Slots : HT!GetHandleAtIndex(i) # {}})

SocketAt(i) == handleTable[i].socketNumber
HandleAt(i) == handleTable[i].handleName

\* Mutant: the result of lookupSocket is not checked.
MutantForwardTo(fd, pdu, dstHandle) == Send(HT!LookupSocket(dstHandle), pdu)

\* flagUnicast and flagMulticast: one send per destination, the PDU to the
\* socket of a handle in the table, flag 7 to the sender for any other.
ForwardTo(fd, pdu, dstHandle) ==
  LET dstSocketFD == HT!LookupSocket(dstHandle) IN
    IF dstSocketFD # -1
    THEN Send(dstSocketFD, pdu)
    ELSE Send(fd, HandleOnlyPacket(HANDLE_ERR_FLAG, dstHandle))

Forward(fd, pdu) ==
  [i \in DOMAIN pdu.dsts |-> ForwardTo(fd, pdu, pdu.dsts[i])]

\* Mutant: the loop runs to getHandleCount() instead of getTableCapacity().
MutantBroadcastSends(fd, pdu) ==
  LET others == InOrder({i \in HT!ValidSlots : i < tableCount /\ SocketAt(i) # fd})
  IN [i \in DOMAIN others |-> Send(SocketAt(others[i]), pdu)]

\* flagBroadcast: the PDU to every socket of the table but the sender's.
BroadcastSends(fd, pdu) ==
  LET others == InOrder({i \in HT!ValidSlots : SocketAt(i) # fd})
  IN [i \in DOMAIN others |-> Send(SocketAt(others[i]), pdu)]

\* Mutant: the capacity of the table is announced.
MutantHandleListSends(fd) ==
  <<Send(fd, ListCountPacket(tableCapacity))>>
    \o [i \in DOMAIN Walk |->
          Send(fd, HandleOnlyPacket(HANDLE_ITEM_FLAG, HandleAt(Walk[i])))]
    \o <<Send(fd, ChatHeaderPacket(HANDLE_FINISH_FLAG))>>

\* flagHandleList: the count, one item per valid entry, the end.
HandleListSends(fd) ==
  <<Send(fd, ListCountPacket(tableCount))>>
    \o [i \in DOMAIN Walk |->
          Send(fd, HandleOnlyPacket(HANDLE_ITEM_FLAG, HandleAt(Walk[i])))]
    \o <<Send(fd, ChatHeaderPacket(HANDLE_FINISH_FLAG))>>

\* Mutant: the result of addHandle is not looked at.
MutantFlagConnect(fd) ==
  /\ Received(fd, INIT_CONNECT_FLAG)
  /\ HT!AddHandle(Pdu(fd).handle, fd) \/ HT!RejectHandle(Pdu(fd).handle)
  /\ job' = Job(fd, <<Send(fd, ChatHeaderPacket(GOOD_CONNECT_FLAG))>>, FALSE)
  /\ UNCHANGED <<alive, polled>>

\* Mutant: a rejected handle gets no answer.
MutantSilentReject(fd) ==
  /\ Received(fd, INIT_CONNECT_FLAG)
  /\ \/ /\ HT!AddHandle(Pdu(fd).handle, fd)
        /\ job' = Job(fd, <<Send(fd, ChatHeaderPacket(GOOD_CONNECT_FLAG))>>, FALSE)
     \/ /\ HT!RejectHandle(Pdu(fd).handle)
        /\ job' = NoJob
  /\ UNCHANGED <<alive, polled>>

FlagConnect(fd) ==
  /\ Received(fd, INIT_CONNECT_FLAG)
  /\ \/ /\ HT!AddHandle(Pdu(fd).handle, fd)
        /\ job' = Job(fd, <<Send(fd, ChatHeaderPacket(GOOD_CONNECT_FLAG))>>, FALSE)
     \/ /\ HT!RejectHandle(Pdu(fd).handle)
        /\ job' = Job(fd, <<Send(fd, ChatHeaderPacket(BAD_CONNECT_FLAG))>>, TRUE)
  /\ UNCHANGED <<alive, polled>>

FlagBroadcast(fd) ==
  /\ Received(fd, BROADCAST_FLAG)
  /\ job' = Job(fd, BroadcastSends(fd, Pdu(fd)), FALSE)
  /\ UNCHANGED <<alive, polled, tableVars>>

FlagUnicast(fd) ==
  /\ Received(fd, UNICAST_FLAG)
  /\ job' = Job(fd, Forward(fd, Pdu(fd)), FALSE)
  /\ UNCHANGED <<alive, polled, tableVars>>

FlagMulticast(fd) ==
  /\ Received(fd, MULTICAST_FLAG)
  /\ job' = Job(fd, Forward(fd, Pdu(fd)), FALSE)
  /\ UNCHANGED <<alive, polled, tableVars>>

FlagHandleList(fd) ==
  /\ Received(fd, HANDLE_LIST_FLAG)
  /\ job' = Job(fd, HandleListSends(fd), FALSE)
  /\ UNCHANGED <<alive, polled, tableVars>>

\* Mutant: the handle stays in the table.
MutantDisconnect(fd) ==
  /\ Polling
  /\ fd \in polled
  /\ ServerEof(fd)
  /\ polled' = polled \ {fd}
  /\ ServerClose(fd)
  /\ UNCHANGED <<alive, job, tableVars>>

\* recvPDU returned 0: the client's names are forgotten and the descriptor is
\* given back, in this order and without a step in between.
Disconnect(fd) ==
  /\ Polling
  /\ fd \in polled
  /\ ServerEof(fd)
  /\ HT!RemoveHandle(fd)
  /\ polled' = polled \ {fd}
  /\ ServerClose(fd)
  /\ UNCHANGED <<alive, job>>

------------------------------------------------------------------------------
(* The handlers' sends. *)

\* sendPDU returns; it blocks while the connection is full.
SendNext ==
  /\ alive
  /\ job.todo # <<>>
  /\ ServerSendReturns(Head(job.todo).sock, Head(job.todo).pdu)
  /\ job' = Job(job.fd, Tail(job.todo), job.closing)
  /\ UNCHANGED <<alive, polled, tableVars>>

\* safeSend exits, unless SIGPIPE was there first.
SendKillsServer ==
  /\ alive
  /\ job.todo # <<>>
  /\ ServerSendKills(Head(job.todo).sock)
  /\ ServerDies

\* Mutant: the socket is closed but stays in the poll set.
MutantCloseRejected ==
  /\ alive
  /\ job.todo = <<>>
  /\ job.closing
  /\ ServerClose(job.fd)
  /\ job' = NoJob
  /\ UNCHANGED <<alive, polled, tableVars>>

\* The end of flagConnect for a handle that was rejected.
CloseRejected ==
  /\ alive
  /\ job.todo = <<>>
  /\ job.closing
  /\ polled' = polled \ {job.fd}
  /\ ServerClose(job.fd)
  /\ job' = NoJob
  /\ UNCHANGED <<alive, tableVars>>

ServerNext ==
  \/ AcceptExits
  \/ SendNext
  \/ SendKillsServer
  \/ CloseRejected
  \/ \E fd \in Fds :
       \/ AddNewClient(fd)
       \/ FlagConnect(fd)
       \/ FlagBroadcast(fd)
       \/ FlagUnicast(fd)
       \/ FlagMulticast(fd)
       \/ FlagHandleList(fd)
       \/ Disconnect(fd)
==============================================================================
