--------------------------------- MODULE Tcp ---------------------------------
(***************************************************************************)
(* The kernel between the server and its clients, as the calls of          *)
(* networks.c, pdu.c and safeUtil.c see it.  A connection is named by the  *)
(* client that opened it: one run of cclient opens one.  The two           *)
(* directions are FIFO and lossless while both ends are open, and hold at  *)
(* most SockBuf PDUs each (socket buffers of both hosts together); a send  *)
(* into a full direction blocks.                                           *)
(*                                                                         *)
(* Every PDU is sent by one send() and received by two recv(MSG_WAITALL)   *)
(* calls, so a direction is a sequence of whole PDUs.  A process killed    *)
(* inside a blocked send can leave part of a PDU behind; that is not in    *)
(* this module.                                                            *)
(*                                                                         *)
(* An end that is closed with data it has not read, or that receives data  *)
(* after it was closed, answers with RST instead of FIN.  At the other end *)
(* the RST arrives at a time of the network's choosing (Reset), from then  *)
(* on send() fails, and of the data under way any suffix may be lost: a    *)
(* receiver may see the end of the stream early.                           *)
(***************************************************************************)
EXTENDS Integers, Sequences

CONSTANTS
  Clients,   \* the runs of cclient
  NoClient,  \* an fd of the server that is not a connection
  MaxFd,     \* the server's largest descriptor (RLIMIT_NOFILE - 1)
  SockBuf    \* PDUs one direction of a connection can hold

FirstFd == 4  \* 0, 1, 2 are stdio and 3 is the listening socket
Fds == FirstFd .. MaxFd

ASSUME TcpAssumption ==
  /\ NoClient \notin Clients
  /\ MaxFd \in Int
  /\ SockBuf \in Nat \ {0}

VARIABLES
  backlog,  \* connections waiting in accept()'s queue
  conn,     \* the server's descriptors: the connection behind each
  c2s,      \* PDUs under way from a client to the server
  s2c,      \* PDUs under way from the server to a client
  cliEnd,   \* the client's end as the server's socket knows it
  srvEnd    \* the server's end as the client's socket knows it

tcpVars == <<backlog, conn, c2s, s2c, cliEnd, srvEnd>>

TcpInit ==
  /\ backlog = <<>>
  /\ conn = [fd \in Fds |-> NoClient]
  /\ c2s = [c \in Clients |-> <<>>]
  /\ s2c = [c \in Clients |-> <<>>]
  /\ cliEnd = [c \in Clients |-> "none"]
  /\ srvEnd = [c \in Clients |-> "none"]

OpenFds == {fd \in Fds : conn[fd] # NoClient}

\* The connections the server holds or could still accept.
Connected == {c \in Clients : cliEnd[c] # "none"}

------------------------------------------------------------------------------
(* The client's calls. *)

\* connect() to a listening server completes without its help.
ConnectCall(c) ==
  /\ backlog' = Append(backlog, c)
  /\ cliEnd' = [cliEnd EXCEPT ![c] = "open"]
  /\ srvEnd' = [srvEnd EXCEPT ![c] = "open"]
  /\ UNCHANGED <<conn, c2s, s2c>>

\* send() returns, with the PDU queued or, when the server has closed, thrown
\* away by the server's kernel, which answers with RST.
ClientSendReturns(c, pdu) ==
  /\ UNCHANGED <<backlog, conn, s2c, cliEnd>>
  /\ \/ /\ srvEnd[c] = "open"
        /\ Len(c2s[c]) < SockBuf
        /\ c2s' = [c2s EXCEPT ![c] = Append(@, pdu)]
        /\ UNCHANGED srvEnd
     \/ /\ srvEnd[c] = "fin"
        /\ \E seen \in {"fin", "rst"} : srvEnd' = [srvEnd EXCEPT ![c] = seen]
        /\ UNCHANGED c2s

\* send() raises SIGPIPE.
ClientSendKills(c) == srvEnd[c] = "rst"

ClientRecv(c) ==
  /\ s2c[c] # <<>>
  /\ s2c' = [s2c EXCEPT ![c] = Tail(@)]
  /\ UNCHANGED <<backlog, conn, c2s, cliEnd, srvEnd>>

\* recv() returns 0, or fails with ECONNRESET, which safeRecv makes 0.
ClientEof(c) ==
  \/ srvEnd[c] = "fin" /\ s2c[c] = <<>>
  \/ srvEnd[c] = "rst"

\* close(), or the end of the process.  What the server has not read stays.
ClientClose(c) ==
  /\ srvEnd' = [srvEnd EXCEPT ![c] = "none"]
  /\ IF cliEnd[c] = "open"
     THEN /\ cliEnd' = [cliEnd EXCEPT ![c] = "closed"]
          /\ UNCHANGED s2c
     ELSE /\ s2c' = [s2c EXCEPT ![c] = <<>>]
          /\ UNCHANGED cliEnd
  /\ UNCHANGED <<backlog, conn, c2s>>

------------------------------------------------------------------------------
(* The server's calls. *)

\* accept() returns the lowest free descriptor.
AcceptCall(fd) ==
  /\ backlog # <<>>
  /\ fd \in Fds \ OpenFds
  /\ \A g \in Fds \ OpenFds : fd <= g
  /\ conn' = [conn EXCEPT ![fd] = Head(backlog)]
  /\ backlog' = Tail(backlog)
  /\ UNCHANGED <<c2s, s2c, cliEnd, srvEnd>>

\* accept() fails with EMFILE.
AcceptFails == backlog # <<>> /\ Fds \subseteq OpenFds

ServerRecv(fd) ==
  /\ fd \in OpenFds
  /\ c2s[conn[fd]] # <<>>
  /\ c2s' = [c2s EXCEPT ![conn[fd]] = Tail(@)]
  /\ UNCHANGED <<backlog, conn, s2c, cliEnd, srvEnd>>

\* Mutant: an error of recv() is not taken for the end of the connection.
MutantServerEof(fd) ==
  fd \in OpenFds /\ cliEnd[conn[fd]] = "closed" /\ c2s[conn[fd]] = <<>>

\* recv() returns 0, or fails with ECONNRESET, which safeRecv makes 0.
ServerEof(fd) ==
  /\ fd \in OpenFds
  /\ \/ cliEnd[conn[fd]] = "closed" /\ c2s[conn[fd]] = <<>>
     \/ cliEnd[conn[fd]] = "reset"

\* Mutant: a send into a full connection returns and the PDU is lost.
MutantServerSendReturns(fd, pdu) ==
  /\ fd \in OpenFds
  /\ cliEnd[conn[fd]] \in {"open", "closed"}
  /\ s2c' = IF Len(s2c[conn[fd]]) < SockBuf
            THEN [s2c EXCEPT ![conn[fd]] = Append(@, pdu)] ELSE s2c
  /\ UNCHANGED <<backlog, conn, c2s, cliEnd, srvEnd>>

\* send() returns.  A client that has closed its end takes the PDU as well:
\* only the RST it answers with tells the server.
ServerSendReturns(fd, pdu) ==
  /\ fd \in OpenFds
  /\ cliEnd[conn[fd]] \in {"open", "closed"}
  /\ Len(s2c[conn[fd]]) < SockBuf
  /\ s2c' = [s2c EXCEPT ![conn[fd]] = Append(@, pdu)]
  /\ UNCHANGED <<backlog, conn, c2s, cliEnd, srvEnd>>

\* send() raises SIGPIPE or fails with ECONNRESET or EBADF.
ServerSendKills(fd) == fd \in OpenFds => cliEnd[conn[fd]] = "reset"

\* The server's ends of the connections in lost go away.
CloseServerEnds(lost) ==
  /\ srvEnd' = [c \in Clients |->
       IF c \notin lost \/ cliEnd[c] # "open" THEN srvEnd[c]
       ELSE IF c2s[c] = <<>> /\ \A i \in DOMAIN backlog : backlog[i] # c
            THEN "fin" ELSE "rst"]
  /\ s2c' = [c \in Clients |->
       IF c \in lost /\ cliEnd[c] # "open" THEN <<>> ELSE s2c[c]]
  /\ c2s' = [c \in Clients |-> IF c \in lost THEN <<>> ELSE c2s[c]]
  /\ cliEnd' = [c \in Clients |-> IF c \in lost THEN "none" ELSE cliEnd[c]]

\* close(fd).
ServerClose(fd) ==
  /\ CloseServerEnds({conn[fd]})
  /\ conn' = [conn EXCEPT ![fd] = NoClient]
  /\ UNCHANGED backlog

\* The end of the server process closes everything, the listening socket and
\* the connections nobody accepted included.
ServerExit ==
  /\ CloseServerEnds(Connected)
  /\ conn' = [fd \in Fds |-> NoClient]
  /\ backlog' = <<>>

------------------------------------------------------------------------------
(* The network. *)

\* An RST reaches the server: the client has closed its end with PDUs it had
\* not read, or the server sent to it after that.
Reset(c) ==
  /\ cliEnd[c] = "closed"
  /\ s2c[c] # <<>>
  /\ cliEnd' = [cliEnd EXCEPT ![c] = "reset"]
  /\ s2c' = [s2c EXCEPT ![c] = <<>>]
  /\ UNCHANGED <<backlog, conn, c2s, srvEnd>>
==============================================================================
