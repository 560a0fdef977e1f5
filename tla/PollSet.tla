------------------------------- MODULE PollSet -------------------------------
(***************************************************************************)
(* pollLib.c, driven by the loop of server.c.  The array is indexed by     *)
(* descriptor and has holes: an entry never used, or removed, asks about   *)
(* descriptor 0, the server's standard input, with no events.  poll()      *)
(* reports errors and hang-ups whether or not they are asked for.          *)
(*                                                                         *)
(* The server polls for input only and for ever (POLL_WAIT_FOREVER).       *)
(* Failures of poll() itself and of malloc are left out.                   *)
(***************************************************************************)
EXTENDS Integers, FiniteSets, FiniteSetsExt

CONSTANTS
  POLL_SET_SIZE,  \* 10 in the code
  MaxFd           \* the largest descriptor the server can have

mainServerSocket == 3  \* 0, 1, 2 are stdio
Fds == mainServerSocket .. MaxFd

ASSUME PollSetAssumption ==
  /\ POLL_SET_SIZE \in Nat \ {0}
  /\ MaxFd \in Nat /\ MaxFd > mainServerSocket

VARIABLES
  pollFileDescriptors,  \* a function on 0 .. currentPollSetSize - 1
  maxFileDescriptor,
  currentPollSetSize,
  at,                   \* where the server is: main, pollCall, a handler, ended
  readySocket,          \* what pollCall returned last
  open,                 \* the server's sockets
  ready,                \* those with data, a connection to accept, or an end
  stdin                 \* the other end of the server's standard input

pollVars == <<pollFileDescriptors, maxFileDescriptor, currentPollSetSize>>
vars == <<pollVars, at, readySocket, open, ready, stdin>>

Slots == 0 .. currentPollSetSize - 1

POLLIN == "POLLIN"
Unasked == {"POLLHUP", "POLLNVAL"}  \* reported without being asked for

Unused(memory) == [fd |-> 0, events |-> {}, revents |-> memory]

PollFd == [fd : {0} \cup Fds, events : SUBSET {POLLIN},
           revents : SUBSET ({POLLIN} \cup Unasked)]

TypeOK ==
  /\ currentPollSetSize \in Nat \ {0}
  /\ pollFileDescriptors \in [Slots -> PollFd]
  /\ maxFileDescriptor \in 0 .. currentPollSetSize
  /\ at \in {"main", "poll", "handler", "ended"}
  /\ readySocket \in {-1} \cup Slots
  /\ {mainServerSocket} \subseteq open /\ open \subseteq Fds
  /\ ready \subseteq open
  /\ stdin \in {"quiet", "typed", "hung up"}

\* setupPollSet, after tcpServerSetup.
Init ==
  /\ currentPollSetSize = POLL_SET_SIZE
  /\ pollFileDescriptors = [i \in 0 .. POLL_SET_SIZE - 1 |-> Unused({})]
  /\ maxFileDescriptor = 0
  /\ at = "main"
  /\ readySocket = -1
  /\ open = {mainServerSocket}
  /\ ready = {}
  /\ stdin = "quiet"

------------------------------------------------------------------------------
(* pollLib.c *)

\* Mutant: the comparison is off by one.
MutantNeedsGrowth(fd) == fd > currentPollSetSize

NeedsGrowth(fd) == fd >= currentPollSetSize

\* growPollSet: the revents of the new entries hold what was in memory.
Grown(fd, memory) ==
  [i \in 0 .. fd + POLL_SET_SIZE - 1 |->
    IF i \in Slots THEN pollFileDescriptors[i] ELSE Unused(memory[i])]

\* Mutant: maxFileDescriptor is the largest descriptor, not one more.
MutantUpTo(fd) == Max({fd, maxFileDescriptor})

UpTo(fd) == Max({fd + 1, maxFileDescriptor})

AddToPollSet(fd) ==
  \E memory \in [currentPollSetSize .. fd + POLL_SET_SIZE - 1 -> {{}, {POLLIN}}] :
    LET array == IF NeedsGrowth(fd) THEN Grown(fd, memory) ELSE pollFileDescriptors
        slot  == [array[fd] EXCEPT !.fd = fd, !.events = {POLLIN}]
    IN
    /\ currentPollSetSize' =
         IF NeedsGrowth(fd) THEN fd + POLL_SET_SIZE ELSE currentPollSetSize
    /\ maxFileDescriptor' = UpTo(fd)
    /\ pollFileDescriptors' = [array EXCEPT ![fd] = slot]

\* Mutant: the descriptor stays in the entry, without events.
MutantRemoveFromPollSet(fd) ==
  /\ pollFileDescriptors' = [pollFileDescriptors EXCEPT ![fd].events = {}]
  /\ UNCHANGED <<maxFileDescriptor, currentPollSetSize>>

RemoveFromPollSet(fd) ==
  /\ pollFileDescriptors' =
       [pollFileDescriptors EXCEPT ![fd].fd = 0, ![fd].events = {}]
  /\ UNCHANGED <<maxFileDescriptor, currentPollSetSize>>

\* What the kernel has to say of a descriptor.
Conditions(fd) ==
  IF fd = 0 THEN CASE stdin = "quiet"   -> {}
                   [] stdin = "typed"   -> {POLLIN}
                   [] stdin = "hung up" -> {"POLLHUP"}
  ELSE IF fd \notin open THEN {"POLLNVAL"}
  ELSE IF fd \in ready THEN {POLLIN} ELSE {}

Revents(i) ==
  LET entry == pollFileDescriptors[i]
  IN Conditions(entry.fd) \cap (entry.events \cup Unasked)

\* The entries pollCall's scan finds after poll(), which looks at, and writes
\* the revents of, the first maxFileDescriptor entries.
Reported == {i \in 0 .. maxFileDescriptor - 1 : Revents(i) # {}}

\* Mutant: the scan goes down.
MutantFirstReported == Max(Reported)

FirstReported == Min(Reported)

PollCall ==
  /\ at = "poll"
  /\ Reported # {}
  /\ readySocket' = FirstReported
  /\ pollFileDescriptors' = [i \in Slots |->
       IF i < maxFileDescriptor
       THEN [pollFileDescriptors[i] EXCEPT !.revents = Revents(i)]
       ELSE pollFileDescriptors[i]]
  /\ at' = "handler"
  /\ UNCHANGED <<maxFileDescriptor, currentPollSetSize, open, ready, stdin>>

------------------------------------------------------------------------------
(* The server around it. *)

\* The rest of main().
Start ==
  /\ at = "main"
  /\ AddToPollSet(mainServerSocket)
  /\ at' = "poll"
  /\ UNCHANGED <<readySocket, open, ready, stdin>>

\* accept() returns the lowest free descriptor; more connections may wait.
AddNewClient ==
  /\ at = "handler"
  /\ readySocket = mainServerSocket
  /\ LET fd == Min(Fds \ open) IN
       /\ AddToPollSet(fd)
       /\ open' = open \cup {fd}
       /\ \/ ready' = ready \ {mainServerSocket}
          \/ Fds # open' /\ UNCHANGED ready
  /\ at' = "poll"
  /\ UNCHANGED <<readySocket, stdin>>

\* A PDU is received and handled; there may be more.
HandlePacket ==
  /\ at = "handler"
  /\ readySocket \in open \ {mainServerSocket}
  /\ ready' \in {ready, ready \ {readySocket}}
  /\ at' = "poll"
  /\ UNCHANGED <<pollVars, readySocket, open, stdin>>

\* The end of a connection, or a rejected handle.
Disconnect ==
  /\ at = "handler"
  /\ readySocket \in open \ {mainServerSocket}
  /\ RemoveFromPollSet(readySocket)
  /\ open' = open \ {readySocket}
  /\ ready' = ready \ {readySocket}
  /\ at' = "poll"
  /\ UNCHANGED <<readySocket, stdin>>

\* pollCall returned the index of a hole: safeRecv fails and exits.
RecvExits ==
  /\ at = "handler"
  /\ readySocket \notin open
  /\ at' = "ended"
  /\ UNCHANGED <<pollVars, readySocket, open, ready, stdin>>

\* Connections come in only while a descriptor is free: what accept() does
\* otherwise is in Server.
Arrive(fd) ==
  /\ fd \in open \ ready
  /\ fd = mainServerSocket => Fds # open
  /\ ready' = ready \cup {fd}
  /\ UNCHANGED <<pollVars, at, readySocket, open, stdin>>

\* Somebody types at the server's terminal, or the other end is closed.
StdinChanges ==
  /\ \/ stdin = "quiet" /\ stdin' = "typed"
     \/ stdin # "hung up" /\ stdin' = "hung up"
  /\ UNCHANGED <<pollVars, at, readySocket, open, ready>>

ServerStep ==
  \/ Start
  \/ PollCall
  \/ AddNewClient
  \/ HandlePacket
  \/ Disconnect
  \/ RecvExits

Next ==
  \/ ServerStep
  \/ \E fd \in Fds : Arrive(fd)
  \/ StdinChanges

Spec == Init /\ [][Next]_vars

\* The server runs when it is not blocked; nothing need ever arrive.
FairSpec == Spec /\ WF_vars(ServerStep)

------------------------------------------------------------------------------
(* Properties. *)

\* No socket is deaf: while the server waits in pollCall, no open socket is
\* ready.  The array, its high-water mark and the kernel's table must agree on
\* every one of them (pollLib.c:42-53, 59-60, 76, 86).
NoneMissed == at = "poll" /\ Reported = {} => ready = {}

Polled == {i \in Slots : pollFileDescriptors[i].events # {}}

PS == INSTANCE PolledSet WITH
  polled <- Polled,
  picked <- IF at = "handler" THEN {readySocket} ELSE {}

\* The array with its holes and its growth is the set its callers take it for:
\* pollCall returns a socket that is open, asked about and ready, so that the
\* server neither blocks in recv() on a quiet client nor exits, whatever was
\* added, removed and added again, and whatever memory realloc brought in.  It
\* holds until the server's standard input is hung up.
ImplementsPolledSet == PS!Init /\ [][PS!Next \/ stdin = "hung up"]_(PS!vars)

\* What is left of fairness when the scan always begins at 0: a descriptor that
\* is ready is returned, if those below it fall quiet.  While they do not it may
\* wait for ever, as pollLib.c:10 says.
QuietBelowServed ==
  \A fd \in Fds :
    <>[](stdin # "hung up" /\ \A lower \in ready : lower >= fd) =>
      [](fd \in ready => <>(at = "handler" /\ readySocket = fd))

\* "server will run until ^C" (server.c:55), and there is no ^C here.
ServerRuns == at # "ended"
==============================================================================
