------------------------------- MODULE Cclient -------------------------------
(***************************************************************************)
(* cclient.c: every run of the client, from connect() to its end.  A       *)
(* client reads one thing at a time: a line of its user, which it turns    *)
(* into one or more PDUs and sends one by one, or a PDU of the server.     *)
(* From the first character of a line to the last of its sends it receives *)
(* nothing: it waits in getchar() for as long as its user takes.           *)
(***************************************************************************)
EXTENDS Tcp, ChatPacket

CONSTANTS
  ArgvHandle,  \* the handle each run is started with
  MaxChunks,   \* pieces of TEXT_DATA_CHUNK bytes one line is cut into, at most
  MaxDsts,     \* destinations of a multicast, 9 in the code
  Budget       \* bound on the PDUs each run sends after its handle

HANDLES_MIN == 2

ASSUME CclientAssumption ==
  /\ ArgvHandle \in [Clients -> Names]
  /\ MaxChunks \in Nat \ {0}
  /\ MaxDsts \in Nat
  /\ Budget \in [Clients -> Nat]

VARIABLES
  pc,    \* where main() is
  outq,  \* the PDUs of the current line not sent yet
  sent   \* PDUs built so far; numbers the texts, bounded by Budget

clientVars == <<pc, outq, sent>>

Stages == {
  "start",      \* not run yet
  "connected",  \* tcpClientSetup has returned
  "wait",       \* recvPDU of initConnectHandle
  "chat",       \* clientControl, and processStdin behind readFromStdin
  "line",       \* getchar() of readFromStdin, with a line that is not complete
  "list",       \* the loop of flagListBegin
  "gone"}       \* the process has ended

ClientInit ==
  /\ pc = [c \in Clients |-> "start"]
  /\ outq = [c \in Clients |-> <<>>]
  /\ sent = [c \in Clients |-> 0]

myHandle(c) == ArgvHandle[c]

Goto(c, stage) == pc' = [pc EXCEPT ![c] = stage]

\* exit(), a signal, or a return from main(): the kernel closes the socket.
Exit(c) ==
  /\ Goto(c, "gone")
  /\ outq' = [outq EXCEPT ![c] = <<>>]
  /\ ClientClose(c)
  /\ UNCHANGED sent

------------------------------------------------------------------------------
(* Connecting. *)

\* getaddrinfo finds no address for the server's name: the client exits.
ResolveFails(c) ==
  /\ Goto(c, "gone")
  /\ UNCHANGED tcpVars

Connect(c, listening) ==
  /\ pc[c] = "start"
  /\ \/ ResolveFails(c)
     \/ /\ listening
        /\ ConnectCall(c)
        /\ Goto(c, "connected")
     \/ /\ ~listening
        /\ Goto(c, "gone")
        /\ UNCHANGED tcpVars
  /\ UNCHANGED <<outq, sent>>

\* The send of initConnectHandle.  For the empty handle the builder's -1 is
\* used as a length: the copy in sendPDU runs out of the address space.
InitConnectHandle(c) ==
  /\ pc[c] = "connected"
  /\ \/ /\ myHandle(c) \in LegalNames
        /\ ClientSendReturns(c, HandleOnlyPacket(INIT_CONNECT_FLAG, myHandle(c)))
        /\ Goto(c, "wait")
        /\ UNCHANGED <<outq, sent>>
     \/ /\ myHandle(c) \notin LegalNames
        /\ Exit(c)
     \/ /\ ClientSendKills(c)
        /\ Exit(c)

\* Its answer: only flag 2 leads on.
RecvConnectAnswer(c) ==
  /\ pc[c] = "wait"
  /\ \/ /\ s2c[c] # <<>>
        /\ Head(s2c[c]).flag = GOOD_CONNECT_FLAG
        /\ ClientRecv(c)
        /\ Goto(c, "chat")
        /\ UNCHANGED <<outq, sent>>
     \/ /\ s2c[c] # <<>>
        /\ Head(s2c[c]).flag # GOOD_CONNECT_FLAG
        /\ Exit(c)
     \/ /\ ClientEof(c)
        /\ Exit(c)

------------------------------------------------------------------------------
(* processStdin: one line of the user. *)

\* pollCall returns STDIN_FILENO: something was typed, not always a whole line.
ReadFromStdin(c) ==
  /\ pc[c] = "chat"
  /\ outq[c] = <<>>
  /\ Goto(c, "line")
  /\ UNCHANGED <<outq, sent, tcpVars>>

\* The end of a line that is too short, or not a command.
IgnoreLine(c) ==
  /\ pc[c] = "line"
  /\ Goto(c, "chat")
  /\ UNCHANGED <<outq, sent, tcpVars>>

\* The end of a command: the PDUs it becomes are queued, to be sent one by one.
TakeLine(c, line) ==
  /\ pc[c] = "line"
  /\ sent[c] + Len(line) <= Budget[c]
  /\ outq' = [outq EXCEPT ![c] = line]
  /\ sent' = [sent EXCEPT ![c] = @ + Len(line)]
  /\ Goto(c, "chat")
  /\ UNCHANGED tcpVars

\* The text of the i-th piece of the line c reads next.
Piece(c, i) == [by |-> c, n |-> sent[c] + i]

SendBroadcast(c) ==
  \E chunks \in 1 .. MaxChunks :
    TakeLine(c, [i \in 1 .. chunks |->
      BroadcastPacket(myHandle(c), Piece(c, i))])

SendUnicast(c) ==
  \E chunks \in 1 .. MaxChunks, dst \in LegalNames :
    TakeLine(c, [i \in 1 .. chunks |->
      MessagePacket(UNICAST_FLAG, myHandle(c), <<dst>>, Piece(c, i))])

SendMulticast(c) ==
  \E chunks \in 1 .. MaxChunks, numOfDst \in HANDLES_MIN .. MaxDsts :
    \E dsts \in [1 .. numOfDst -> LegalNames] :
      TakeLine(c, [i \in 1 .. chunks |->
        MessagePacket(MULTICAST_FLAG, myHandle(c), dsts, Piece(c, i))])

SendHandleList(c) == TakeLine(c, <<ChatHeaderPacket(HANDLE_LIST_FLAG)>>)

\* Mutant: the loop over the pieces of a line does not move on.
MutantSendPDU(c) ==
  /\ outq[c] # <<>>
  /\ \/ ClientSendReturns(c, Head(outq[c])) /\ UNCHANGED clientVars
     \/ ClientSendKills(c) /\ Exit(c)

\* sendPDU returns; it blocks while the connection is full.
SendPDU(c) ==
  /\ outq[c] # <<>>
  /\ \/ /\ ClientSendReturns(c, Head(outq[c]))
        /\ outq' = [outq EXCEPT ![c] = Tail(@)]
        /\ UNCHANGED <<pc, sent>>
     \/ /\ ClientSendKills(c)
        /\ Exit(c)

------------------------------------------------------------------------------
(* processMsgFromServer. *)

\* Mutant: a return of 0 from recvPDU is not noticed.
MutantProcessMsgFromServer(c) ==
  /\ pc[c] = "chat"
  /\ outq[c] = <<>>
  /\ ClientRecv(c)
  /\ IF Head(s2c[c]).flag = HANDLE_LIST_RESP_FLAG
     THEN Goto(c, "list") ELSE UNCHANGED pc
  /\ UNCHANGED <<outq, sent>>

\* What arrives is printed; flag 11 starts the loop of flagListBegin.
ProcessMsgFromServer(c) ==
  /\ pc[c] = "chat"
  /\ outq[c] = <<>>
  /\ \/ /\ ClientRecv(c)
        /\ IF Head(s2c[c]).flag = HANDLE_LIST_RESP_FLAG
           THEN Goto(c, "list") ELSE UNCHANGED pc
        /\ UNCHANGED <<outq, sent>>
     \/ /\ ClientEof(c)
        /\ Exit(c)

\* The loop ends at flag 13, and at any other flag that is not an item: the
\* PDU that carried it is lost.
FlagListBegin(c) ==
  /\ pc[c] = "list"
  /\ \/ /\ ClientRecv(c)
        /\ IF Head(s2c[c]).flag = HANDLE_ITEM_FLAG
           THEN UNCHANGED pc ELSE Goto(c, "chat")
        /\ UNCHANGED <<outq, sent>>
     \/ /\ ClientEof(c)
        /\ Exit(c)

\* ^C at any time after connect(), or the end of its input.
Leave(c) ==
  /\ pc[c] \notin {"start", "gone"}
  /\ Exit(c)

\* What c does of its own accord.
User(c) ==
  \/ ReadFromStdin(c)
  \/ IgnoreLine(c)
  \/ SendBroadcast(c)
  \/ SendUnicast(c)
  \/ SendMulticast(c)
  \/ SendHandleList(c)
  \/ Leave(c)

\* What c does unless it is blocked.
Program(c) ==
  \/ InitConnectHandle(c)
  \/ RecvConnectAnswer(c)
  \/ SendPDU(c)
  \/ ProcessMsgFromServer(c)
  \/ FlagListBegin(c)
==============================================================================
