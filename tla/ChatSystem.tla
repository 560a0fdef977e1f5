------------------------------ MODULE ChatSystem ------------------------------
(***************************************************************************)
(* The server, its clients and the kernel between them.                    *)
(***************************************************************************)
EXTENDS Server, Cclient

vars == <<tcpVars, serverVars, clientVars>>

Init == TcpInit /\ ServerInit /\ ClientInit

ServerStep == ServerNext /\ UNCHANGED clientVars
ConnectStep(c) == Connect(c, alive) /\ UNCHANGED serverVars
UserStep(c) == User(c) /\ UNCHANGED serverVars
ProgramStep(c) == Program(c) /\ UNCHANGED serverVars
NetworkStep(c) == Reset(c) /\ UNCHANGED <<serverVars, clientVars>>

Next ==
  \/ ServerStep
  \/ \E c \in Clients :
       \/ ConnectStep(c)
       \/ UserStep(c)
       \/ ProgramStep(c)
       \/ NetworkStep(c)

Spec == Init /\ [][Next]_vars

(***************************************************************************)
(* Fairness.  The server and the clients are processes the scheduler runs  *)
(* when they are not blocked, and an RST arrives; users need not do        *)
(* anything.                                                               *)
(***************************************************************************)
Fairness ==
  /\ WF_vars(ServerStep)
  /\ \A c \in Clients : WF_vars(ProgramStep(c)) /\ WF_vars(NetworkStep(c))

FairSpec == Spec /\ Fairness

------------------------------------------------------------------------------
(* What is on its way to a client: in its socket, then in the server's job. *)

Pending(c) ==
  LET mine == InOrder({i \in DOMAIN job.todo :
                 job.todo[i].sock \in Fds /\ conn[job.todo[i].sock] = c})
  IN [k \in DOMAIN mine |-> job.todo[mine[k]].pdu]

Stream(c) == s2c[c] \o Pending(c)

Running(c) == pc[c] \notin {"start", "gone"}

------------------------------------------------------------------------------
(* Properties. *)

Pdus ==
  [flag : 1 .. 13, handle : Names] \cup [flag : 1 .. 13]
    \cup [flag : 1 .. 13, count : Nat]
    \cup [flag : TextFlags, src : Names, text : [by : Clients, n : Nat]]
    \cup [flag : TextFlags, src : Names, dsts : Seq(Names),
          text : [by : Clients, n : Nat]]

TypeOK ==
  /\ backlog \in Seq(Clients)
  /\ conn \in [Fds -> Clients \cup {NoClient}]
  /\ c2s \in [Clients -> Seq(Pdus)]
  /\ s2c \in [Clients -> Seq(Pdus)]
  /\ cliEnd \in [Clients -> {"none", "open", "closed", "reset"}]
  /\ srvEnd \in [Clients -> {"none", "open", "fin", "rst"}]
  /\ alive \in BOOLEAN
  /\ polled \subseteq Fds
  /\ job \in [fd : Fds \cup {0}, todo : Seq([sock : Fds, pdu : Pdus]),
              closing : BOOLEAN]
  /\ HT!TypeOK
  /\ pc \in [Clients -> Stages]
  /\ outq \in [Clients -> Seq(Pdus)]
  /\ sent \in [Clients -> Nat] /\ \A c \in Clients : sent[c] <= Budget[c]

\* The handle table is only as good as the descriptors in it, and the kernel
\* hands a closed descriptor out again: every valid entry's socket must be open
\* and belong to the client that registered this name, whatever has left,
\* connected and been refused before (server.c:82-85, 129-134).
NoStaleEntry ==
  \A i \in HT!ValidSlots :
    alive => /\ SocketAt(i) \in OpenFds
             /\ ArgvHandle[conn[SocketAt(i)]] = HandleAt(i)

\* A client that has been let in is in the table, under its name and its
\* socket, for as long as it runs: flag 2 is sent only after addHandle, and
\* nothing but the end of the client takes it out again.
LoggedInIsRegistered ==
  \A c \in Clients :
    alive /\ pc[c] \in {"chat", "line", "list"} =>
      \E fd \in Fds : conn[fd] = c /\ <<myHandle(c), fd>> \in HT!Bindings

\* The poll set and the descriptor table agree whenever pollCall is about to
\* run: no open connection is deaf, no closed descriptor is polled.
PollMatchesOpen == Polling => polled = OpenFds

\* What a client reads is a sequence it can parse.  The answer to flag 1 comes
\* first and is alone of its kind (initConnectHandle reads it into 16 bytes and
\* gives up on any other flag); a list is flag 11 with the number of items that
\* follow, the items, flag 13, with nothing in between (flagListBegin drops a
\* PDU of any other flag and leaves its loop).
StreamGrammar ==
  \A c \in Clients :
    LET stream == Stream(c)
        Flag(i) == stream[i].flag
    IN
    alive /\ Running(c) =>
      /\ \A i \in DOMAIN stream :
           /\ Flag(i) \in {GOOD_CONNECT_FLAG, BAD_CONNECT_FLAG} <=>
                i = 1 /\ pc[c] \in {"connected", "wait"}
           /\ Flag(i) = HANDLE_LIST_RESP_FLAG =>
                LET last == i + stream[i].count + 1 IN
                  /\ last \in DOMAIN stream
                  /\ Flag(last) = HANDLE_FINISH_FLAG
                  /\ \A j \in i + 1 .. last - 1 : Flag(j) = HANDLE_ITEM_FLAG
           /\ Flag(i) \in {HANDLE_ITEM_FLAG, HANDLE_FINISH_FLAG} =>
                IF i = 1 THEN pc[c] = "list"
                ELSE Flag(i - 1) \in {HANDLE_LIST_RESP_FLAG, HANDLE_ITEM_FLAG}
      /\ pc[c] = "list" =>
           /\ stream # <<>>
           /\ Flag(1) \in {HANDLE_ITEM_FLAG, HANDLE_FINISH_FLAG}

\* A text is on its way only to a client it is for: a broadcast to others than
\* its sender, a message to a client it names.  Names and descriptors pass from
\* one client to the next, the texts sent under them do not.
NoMisdelivery ==
  \A c \in Clients : \A i \in DOMAIN Stream(c) :
    LET pdu == Stream(c)[i] IN
      /\ pdu.flag = BROADCAST_FLAG => pdu.text.by # c
      /\ pdu.flag \in {UNICAST_FLAG, MULTICAST_FLAG} =>
           \E k \in DOMAIN pdu.dsts : pdu.dsts[k] = myHandle(c)

\* The pieces one client's lines are cut into reach another client in the order
\* in which they were cut, and none twice, but for a multicast that names the
\* receiver more than once.
OrderedDelivery ==
  \A from, to \in Clients :
    LET line == Stream(to) \o c2s[from] \o outq[from]
        IsText(p) == p.flag \in TextFlags /\ p.text.by = from
    IN \A i, j \in DOMAIN line :
         i < j /\ IsText(line[i]) /\ IsText(line[j]) =>
           \/ line[i].text.n < line[j].text.n
           \/ /\ line[i] = line[j]
              /\ line[i].flag = MULTICAST_FLAG
              /\ \E k, l \in DOMAIN line[i].dsts :
                   /\ k # l
                   /\ line[i].dsts[k] = line[i].dsts[l]

Members == IF alive THEN {<<b[1], conn[b[2]]>> : b \in HT!Bindings} ELSE {}
Left == {c \in Clients : pc[c] = "gone"}
Inbox == [c \in Clients |-> IF c \in Left THEN <<>> ELSE Stream(c)]

\* The server's table, poll loop and one-by-one sends implement ChatRoom: to its
\* clients every PDU has its whole effect at the moment the server takes it, on
\* the members of that moment, and no PDU is dropped (server.c:52-221).
Room == INSTANCE ChatRoom WITH
  up       <- alive,
  members  <- Members,
  left     <- Left,
  requests <- c2s,
  inbox    <- Inbox

ImplementsChatRoom == Room!Spec

------------------------------------------------------------------------------
(* Liveness. *)

\* A client that has sent its handle is let in, turned away, or sees the server
\* end; it does not wait for ever.
ConnectAnswered == \A c \in Clients : pc[c] = "wait" ~> pc[c] # "wait"

\* A PDU a client has sent is handled while the server runs: the server is
\* there to "accept new clients and service existing" (server.c:44).
Serviced ==
  \A c \in Clients : \A n \in 1 .. Budget[c] + 1 :
    Len(c2s[c]) >= n ~> (Len(c2s[c]) < n \/ ~alive)

\* A name nobody uses any more comes free, however its client ended.
NameComesFree ==
  \A name \in LegalNames :
    LET Used == \E c \in Clients : myHandle(c) = name /\ Running(c)
    IN ~Used ~> (Used \/ name \notin {b[1] : b \in HT!Bindings} \/ ~alive)

\* When the server ends, so do its clients (cclient.c:360-364).  Only one that
\* reads a line stays: it looks at its socket between two lines.
ClientsFollowServer ==
  \A c \in Clients : ~alive ~> (~Running(c) \/ pc[c] = "line")

------------------------------------------------------------------------------
(* What the comments claim and the code does not keep. *)

\* "server will run until ^C" (server.c:55), which the model does not send.
ServerRuns == alive

\* "accept new clients and service existing" (server.c:44), at least when users
\* type whole lines and then leave their clients to the server.
ServicedInTheEnd ==
  <>[](\A c \in Clients : pc[c] # "line") => Serviced
==============================================================================
