---------------------------- MODULE PollSetProofs ----------------------------
(***************************************************************************)
(* Theorems about PollSet, for every initial size of the array and every   *)
(* number of descriptors.                                                  *)
(*                                                                         *)
(* The inductive invariant is IInv: an entry asks about the descriptor     *)
(* that is its index while that one is open, and is a hole otherwise       *)
(* (Entries); all open descriptors are below the high-water mark           *)
(* (BelowMark); pollCall has returned one of them, or the standard input   *)
(* is hung up (Picked); and a connection waits only while a descriptor is  *)
(* free for it (Backlog).                                                  *)
(***************************************************************************)
EXTENDS PollSet, ScanLemmas

Hole(entry) == entry.fd = 0 /\ entry.events = {}

Asks(entry, fd) == entry.fd = fd /\ entry.events = {POLLIN}

Entries ==
  \A i \in Slots :
    IF i \in open /\ at # "main" THEN Asks(pollFileDescriptors[i], i)
    ELSE Hole(pollFileDescriptors[i])

BelowMark ==
  IF at = "main" THEN open = {mainServerSocket}
  ELSE \A fd \in open : fd < maxFileDescriptor

Picked ==
  at = "handler" =>
    /\ stdin # "hung up" => readySocket \in open
    /\ readySocket = mainServerSocket => mainServerSocket \in ready

Backlog == mainServerSocket \in ready => Fds # open

IInv == TypeOK /\ Entries /\ BelowMark /\ Picked /\ Backlog

LEMMA FdsAreNat == Fds \in SUBSET Nat /\ mainServerSocket \in Fds /\ 0 \notin Fds
BY PollSetAssumption DEF Fds, mainServerSocket

------------------------------------------------------------------------------
(* What the operations do to the array. *)

\* addToPollSet, with or without growth, asks about the new descriptor, moves the
\* mark behind it, leaves the other entries alone, and adds holes only.
LEMMA AddEffect ==
  ASSUME TypeOK, NEW fd \in Fds, AddToPollSet(fd)
  PROVE  /\ currentPollSetSize' \in Nat \ {0}
         /\ pollFileDescriptors' \in [Slots' -> PollFd]
         /\ maxFileDescriptor' \in 0 .. currentPollSetSize'
         /\ maxFileDescriptor <= maxFileDescriptor' /\ fd < maxFileDescriptor'
         /\ fd \in Slots' /\ Slots \subseteq Slots'
         /\ Asks(pollFileDescriptors'[fd], fd)
         /\ \A i \in Slots' \ {fd} :
              IF i \in Slots THEN pollFileDescriptors'[i] = pollFileDescriptors[i]
              ELSE Hole(pollFileDescriptors'[i])
<1> DEFINE New == currentPollSetSize .. fd + POLL_SET_SIZE - 1
<1>1. PICK memory \in [New -> {{}, {POLLIN}}] :
        LET array == IF NeedsGrowth(fd) THEN Grown(fd, memory) ELSE pollFileDescriptors
            slot  == [array[fd] EXCEPT !.fd = fd, !.events = {POLLIN}]
        IN /\ currentPollSetSize' =
                IF NeedsGrowth(fd) THEN fd + POLL_SET_SIZE ELSE currentPollSetSize
           /\ maxFileDescriptor' = UpTo(fd)
           /\ pollFileDescriptors' = [array EXCEPT ![fd] = slot]
  BY DEF AddToPollSet
<1> DEFINE array == IF NeedsGrowth(fd) THEN Grown(fd, memory) ELSE pollFileDescriptors
           size  == IF NeedsGrowth(fd) THEN fd + POLL_SET_SIZE ELSE currentPollSetSize
           slot  == [array[fd] EXCEPT !.fd = fd, !.events = {POLLIN}]
<1>2. /\ fd \in Nat /\ fd # 0
      /\ POLL_SET_SIZE \in Nat \ {0}
      /\ currentPollSetSize \in Nat \ {0}
      /\ pollFileDescriptors \in [Slots -> PollFd]
      /\ maxFileDescriptor \in 0 .. currentPollSetSize
  BY FdsAreNat, PollSetAssumption DEF TypeOK
<1>3. /\ size \in Nat \ {0} /\ fd < size /\ currentPollSetSize <= size
      /\ currentPollSetSize' = size
  BY <1>1, <1>2 DEF NeedsGrowth
<1>4. /\ Slots' = 0 .. size - 1
      /\ fd \in Slots' /\ Slots \subseteq Slots'
  BY <1>2, <1>3 DEF Slots
<1>5. /\ array \in [Slots' -> PollFd]
      /\ \A i \in Slots' : IF i \in Slots THEN array[i] = pollFileDescriptors[i]
                           ELSE Hole(array[i])
  <2>1. CASE ~NeedsGrowth(fd)
    BY <2>1, <1>2, <1>3, <1>4 DEF Slots
  <2>2. CASE NeedsGrowth(fd)
    <3>1. /\ currentPollSetSize' = fd + POLL_SET_SIZE
          /\ Slots' = 0 .. fd + POLL_SET_SIZE - 1
      <4>1. currentPollSetSize' = fd + POLL_SET_SIZE
        BY <2>2, <1>1
      <4> HIDE DEF size
      <4>2. Slots' = 0 .. currentPollSetSize' - 1
        BY DEF Slots
      <4> QED BY <4>1, <4>2, <1>2
    <3>2. array = [i \in Slots' |->
                     IF i \in Slots THEN pollFileDescriptors[i] ELSE Unused(memory[i])]
      BY <2>2, <3>1 DEF Grown
    <3>3. ASSUME NEW i \in Slots', i \notin Slots
          PROVE  Unused(memory[i]) \in PollFd /\ Hole(Unused(memory[i]))
      <4>1. i \in New
        <5>1. i \in 0 .. fd + POLL_SET_SIZE - 1
          BY <3>1, <3>3
        <5>2. i \notin 0 .. currentPollSetSize - 1
          BY <3>3 DEF Slots
        <5> QED BY <5>1, <5>2, <1>2
      <4>2. memory[i] \in {{}, {POLLIN}}
        BY <4>1
      <4>3. memory[i] \in SUBSET ({POLLIN} \cup Unasked)
        BY <4>2
      <4> QED BY <4>3 DEF Unused, PollFd, Hole
    <3> HIDE DEF array
    <3> QED BY <3>2, <3>3, <1>2
  <2> QED BY <2>1, <2>2
<1>6. slot \in PollFd /\ Asks(slot, fd)
  <2>1. array[fd] \in PollFd
    BY <1>4, <1>5
  <2> HIDE DEF array
  <2> QED BY <2>1 DEF PollFd, Asks
<1>7. pollFileDescriptors' = [array EXCEPT ![fd] = slot]
  BY <1>1
<1>8. /\ pollFileDescriptors' \in [Slots' -> PollFd]
      /\ pollFileDescriptors'[fd] = slot
      /\ \A i \in Slots' \ {fd} : pollFileDescriptors'[i] = array[i]
  <2> HIDE DEF array, slot
  <2> QED BY <1>4, <1>5, <1>6, <1>7
<1>9. /\ maxFileDescriptor' \in 0 .. size
      /\ maxFileDescriptor <= maxFileDescriptor' /\ fd < maxFileDescriptor'
  <2>1. maxFileDescriptor' = Max({fd + 1, maxFileDescriptor})
    BY <1>1 DEF UpTo
  <2>2. /\ maxFileDescriptor' \in {fd + 1, maxFileDescriptor}
        /\ maxFileDescriptor' >= fd + 1
        /\ maxFileDescriptor' >= maxFileDescriptor
    <3>1. fd + 1 \in Int /\ maxFileDescriptor \in Int
      BY <1>2
    <3> HIDE DEF array, slot, size
    <3>2. /\ Max({fd + 1, maxFileDescriptor}) \in {fd + 1, maxFileDescriptor}
          /\ Max({fd + 1, maxFileDescriptor}) >= fd + 1
          /\ Max({fd + 1, maxFileDescriptor}) >= maxFileDescriptor
      BY <3>1, MaxOfTwo
    <3> QED BY <2>1, <3>2
  <2> HIDE DEF size
  <2> QED BY <2>2, <1>2, <1>3
<1> HIDE DEF array, slot, size
<1> QED BY <1>3, <1>4, <1>5, <1>6, <1>8, <1>9

\* removeFromPollSet makes a hole and changes nothing else.
LEMMA RemoveEffect ==
  ASSUME TypeOK, NEW fd \in Slots, RemoveFromPollSet(fd)
  PROVE  /\ UNCHANGED <<maxFileDescriptor, currentPollSetSize>>
         /\ Slots' = Slots
         /\ pollFileDescriptors' \in [Slots -> PollFd]
         /\ Hole(pollFileDescriptors'[fd])
         /\ \A i \in Slots \ {fd} : pollFileDescriptors'[i] = pollFileDescriptors[i]
BY DEF TypeOK, RemoveFromPollSet, Slots, PollFd, Hole

\* The sockets of the server are in the array.
LEMMA OpenInArray ==
  ASSUME TypeOK, BelowMark, at # "main"
  PROVE  open \subseteq Slots
<1> SUFFICES ASSUME NEW fd \in open PROVE fd \in Slots
  OBVIOUS
<1>1. fd \in Nat /\ fd < maxFileDescriptor
  BY FdsAreNat DEF TypeOK, BelowMark
<1>2. currentPollSetSize \in Nat /\ maxFileDescriptor \in 0 .. currentPollSetSize
  BY DEF TypeOK
<1> QED BY <1>1, <1>2 DEF Slots

\* What the callers take the array for.
PolledOpen == Polled = IF at = "main" THEN {} ELSE open

LEMMA PolledIsOpen == IInv => PolledOpen
<1> SUFFICES ASSUME IInv PROVE Polled = IF at = "main" THEN {} ELSE open
  BY DEF PolledOpen
<1>1. CASE at = "main"
  BY <1>1 DEF IInv, Entries, Polled, Hole
<1>2. CASE at # "main"
  BY <1>2, OpenInArray DEF IInv, Entries, Polled, Hole, Asks
<1> QED BY <1>1, <1>2

\* An entry is reported if its index is open and ready, and otherwise only if it
\* is a hole and the standard input is hung up.
LEMMA ReportedReady ==
  ASSUME IInv, at # "main"
  PROVE  /\ ready \subseteq Reported
         /\ Reported \cap open \subseteq ready
         /\ stdin # "hung up" => Reported \subseteq open
<1>1. open \subseteq Slots /\ ready \subseteq open /\ 0 \notin open
  BY OpenInArray, FdsAreNat DEF IInv, TypeOK
<1>4. currentPollSetSize \in Nat /\ maxFileDescriptor \in 0 .. currentPollSetSize
  BY DEF IInv, TypeOK
<1>2. ASSUME NEW i \in ready PROVE i \in Reported
  <2>1. i \in Slots /\ i \in open /\ i < maxFileDescriptor /\ i # 0
    BY <1>1, <1>2 DEF IInv, BelowMark
  <2>2. Asks(pollFileDescriptors[i], i)
    BY <2>1 DEF IInv, Entries
  <2>3. Revents(i) = {POLLIN} \cap ({POLLIN} \cup Unasked)
    BY <1>2, <2>1, <2>2 DEF Revents, Conditions, Asks
  <2>4. i \in 0 .. maxFileDescriptor - 1
    BY <2>1, <1>4 DEF Slots
  <2> QED BY <2>3, <2>4 DEF Reported
<1>3. ASSUME NEW i \in Reported
      PROVE  i \in ready \/ (i \notin open /\ stdin = "hung up")
  <2>1. i \in Slots /\ Revents(i) # {}
    <3>1. i \in 0 .. maxFileDescriptor - 1 /\ Revents(i) # {}
      BY <1>3 DEF Reported
    <3> QED BY <3>1, <1>4 DEF Slots
  <2>2. CASE i \in open
    <3>1. Asks(pollFileDescriptors[i], i)
      BY <2>1, <2>2 DEF IInv, Entries
    <3> QED BY <2>1, <2>2, <3>1, <1>1 DEF Revents, Conditions, Asks
  <2>3. CASE i \notin open
    <3>1. Hole(pollFileDescriptors[i])
      BY <2>1, <2>3 DEF IInv, Entries
    <3>2. ASSUME stdin # "hung up" PROVE Revents(i) = {}
      <4>1. stdin \in {"quiet", "typed"}
        BY <3>2 DEF IInv, TypeOK
      <4>2. Conditions(0) \subseteq {POLLIN}
        BY <4>1 DEF Conditions
      <4> QED BY <3>1, <4>2 DEF Revents, Hole, Unasked, POLLIN
    <3> QED BY <2>1, <2>3, <3>2
  <2> QED BY <2>2, <2>3
<1>5. \A i \in Reported : i \in ready \/ (i \notin open /\ stdin = "hung up")
  BY <1>3
<1> QED BY <1>1, <1>2, <1>5
------------------------------------------------------------------------------
(* The invariant. *)

LEMMA InitInv == Init => IInv
<1> SUFFICES ASSUME Init PROVE IInv
  OBVIOUS
<1>1. TypeOK
  BY PollSetAssumption, FdsAreNat DEF Init, TypeOK, Slots, PollFd, Unused
<1>2. Entries
  BY DEF Init, Entries, Slots, Hole, Unused
<1>3. BelowMark /\ Picked /\ Backlog
  BY DEF Init, BelowMark, Picked, Backlog
<1> QED BY <1>1, <1>2, <1>3 DEF IInv

\* addToPollSet keeps the invariant for the sockets open after it.
LEMMA AddInv ==
  ASSUME IInv, NEW fd \in Fds, AddToPollSet(fd),
         at # "main" \/ fd = mainServerSocket,
         open' = open \cup {fd}, ready' \subseteq ready,
         at' = "poll", readySocket' = readySocket, stdin' = stdin
  PROVE  TypeOK' /\ Entries' /\ BelowMark' /\ Picked'
<1>1. /\ currentPollSetSize' \in Nat \ {0}
      /\ pollFileDescriptors' \in [Slots' -> PollFd]
      /\ maxFileDescriptor' \in 0 .. currentPollSetSize'
      /\ maxFileDescriptor <= maxFileDescriptor' /\ fd < maxFileDescriptor'
      /\ fd \in Slots' /\ Slots \subseteq Slots'
      /\ Asks(pollFileDescriptors'[fd], fd)
      /\ \A i \in Slots' \ {fd} :
           IF i \in Slots THEN pollFileDescriptors'[i] = pollFileDescriptors[i]
           ELSE Hole(pollFileDescriptors'[i])
  BY AddEffect DEF IInv
<1>2. TypeOK'
  BY <1>1 DEF IInv, TypeOK
<1>3. at = "main" => open' = {fd}
  BY DEF IInv, BelowMark
<1>4. at # "main" => open \subseteq Slots
  BY OpenInArray DEF IInv
<1>5. Entries'
  <2> SUFFICES ASSUME NEW i \in Slots'
               PROVE  IF i \in open' THEN Asks(pollFileDescriptors'[i], i)
                      ELSE Hole(pollFileDescriptors'[i])
    BY DEF Entries
  <2>1. CASE i = fd
    BY <2>1, <1>1
  <2>2. CASE i # fd /\ i \notin Slots
    BY <2>2, <1>1, <1>3, <1>4
  <2>3. CASE i # fd /\ i \in Slots
    <3>1. pollFileDescriptors'[i] = pollFileDescriptors[i]
      BY <2>3, <1>1
    <3>2. i \in open' <=> i \in open /\ at # "main"
      BY <2>3, <1>3
    <3> QED BY <2>3, <3>1, <3>2 DEF IInv, Entries
  <2> QED BY <2>1, <2>2, <2>3
<1>6. BelowMark'
  <2> SUFFICES ASSUME NEW c \in open' PROVE c < maxFileDescriptor'
    BY DEF BelowMark
  <2>1. CASE c = fd
    BY <2>1, <1>1
  <2>2. CASE c # fd
    <3>1. c \in open /\ c < maxFileDescriptor
      BY <2>2, <1>3 DEF IInv, BelowMark
    <3>2. c \in Int /\ maxFileDescriptor \in Int /\ maxFileDescriptor' \in Int
      <4>1. currentPollSetSize \in Nat /\ maxFileDescriptor \in 0 .. currentPollSetSize
        BY DEF IInv, TypeOK
      <4>2. c \in Nat
        BY <3>1, FdsAreNat DEF IInv, TypeOK
      <4> QED BY <4>1, <4>2, <1>1
    <3> QED BY <3>1, <3>2, <1>1
  <2> QED BY <2>1, <2>2
<1>7. Picked'
  BY DEF Picked
<1> QED BY <1>2, <1>5, <1>6, <1>7

\* What pollCall returns.
LEMMA PollCallPicks ==
  ASSUME IInv, PollCall
  PROVE  /\ readySocket' \in Slots
         /\ readySocket' \in open => readySocket' \in ready
         /\ stdin # "hung up" => readySocket' \in open
<1>1. /\ at # "main" /\ Reported # {} /\ readySocket' = Min(Reported)
  BY DEF PollCall, FirstReported
<1>2. currentPollSetSize \in Nat /\ maxFileDescriptor \in 0 .. currentPollSetSize
  BY DEF IInv, TypeOK
<1>3. Reported \subseteq 0 .. maxFileDescriptor - 1
  BY DEF Reported
<1>4. Reported \subseteq Nat /\ Reported \subseteq Slots
  BY <1>2, <1>3 DEF Slots
<1>5. readySocket' \in Reported
  BY <1>1, <1>4, MinInSet
<1> QED BY <1>1, <1>4, <1>5, ReportedReady

LEMMA StartInv == ASSUME IInv, Start PROVE IInv'
<1>1. open' = open \cup {mainServerSocket}
  BY DEF Start, IInv, TypeOK
<1>2. TypeOK' /\ Entries' /\ BelowMark' /\ Picked'
  BY <1>1, AddInv, FdsAreNat DEF Start
<1>3. Backlog'
  BY DEF Start, IInv, Backlog
<1> QED BY <1>2, <1>3 DEF IInv

LEMMA PollCallInv == ASSUME IInv, PollCall PROVE IInv'
<1>1. /\ readySocket' \in Slots
      /\ readySocket' \in open => readySocket' \in ready
      /\ stdin # "hung up" => readySocket' \in open
  BY PollCallPicks
<1>2. /\ at = "poll" /\ at' = "handler" /\ Slots' = Slots
      /\ UNCHANGED <<maxFileDescriptor, currentPollSetSize, open, ready, stdin>>
  BY DEF PollCall, Slots
<1>3. /\ pollFileDescriptors' \in [Slots -> PollFd]
      /\ \A i \in Slots : /\ pollFileDescriptors'[i].fd = pollFileDescriptors[i].fd
                          /\ pollFileDescriptors'[i].events = pollFileDescriptors[i].events
  <2>1. ASSUME NEW i \in Slots
        PROVE  LET heard == [pollFileDescriptors[i] EXCEPT !.revents = Revents(i)]
               IN /\ heard \in PollFd
                  /\ heard.fd = pollFileDescriptors[i].fd
                  /\ heard.events = pollFileDescriptors[i].events
    <3>1. pollFileDescriptors[i] \in PollFd
      BY DEF IInv, TypeOK
    <3>2. Revents(i) \in SUBSET ({POLLIN} \cup Unasked)
      BY <3>1 DEF Revents, PollFd
    <3> QED BY <3>1, <3>2 DEF PollFd
  <2>2. pollFileDescriptors \in [Slots -> PollFd]
    BY DEF IInv, TypeOK
  <2> QED BY <2>1, <2>2 DEF PollCall
<1>4. TypeOK'
  BY <1>1, <1>2, <1>3 DEF IInv, TypeOK
<1>5. Entries'
  BY <1>2, <1>3 DEF IInv, Entries, Asks, Hole
<1>6. Picked'
  BY <1>1, <1>2, FdsAreNat DEF IInv, TypeOK, Picked
<1>7. BelowMark' /\ Backlog'
  BY <1>2 DEF IInv, BelowMark, Backlog
<1> QED BY <1>4, <1>5, <1>6, <1>7 DEF IInv

\* A connection waits, so that accept() finds a free descriptor.
LEMMA FreeDescriptor ==
  ASSUME IInv, AddNewClient
  PROVE  Min(Fds \ open) \in Fds \ open
<1>1. Fds # open
  BY DEF IInv, Picked, Backlog, AddNewClient
<1>2. Fds \ open # {} /\ Fds \ open \in SUBSET Nat
  BY <1>1, FdsAreNat DEF IInv, TypeOK
<1> QED BY <1>2, MinInSet

LEMMA AddNewClientInv == ASSUME IInv, AddNewClient PROVE IInv'
<1> DEFINE fd == Min(Fds \ open)
<1>1. fd \in Fds
  BY FreeDescriptor
<1>2. /\ AddToPollSet(fd) /\ open' = open \cup {fd}
      /\ ready' = ready \ {mainServerSocket} \/ (Fds # open' /\ ready' = ready)
      /\ at = "handler" /\ at' = "poll" /\ UNCHANGED <<readySocket, stdin>>
  BY DEF AddNewClient
<1> HIDE DEF fd
<1>3. TypeOK' /\ Entries' /\ BelowMark' /\ Picked'
  BY <1>1, <1>2, AddInv
<1>4. Backlog'
  BY <1>2 DEF Backlog
<1> QED BY <1>3, <1>4 DEF IInv

LEMMA HandlePacketInv == ASSUME IInv, HandlePacket PROVE IInv'
<1>1. /\ at = "handler" /\ at' = "poll" /\ Slots' = Slots /\ ready' \subseteq ready
      /\ UNCHANGED <<pollVars, readySocket, open, stdin>>
  BY DEF HandlePacket, Slots, pollVars
<1>2. TypeOK'
  BY <1>1 DEF IInv, TypeOK, pollVars
<1>3. Entries' /\ BelowMark' /\ Picked' /\ Backlog'
  BY <1>1 DEF IInv, Entries, BelowMark, Picked, Backlog, pollVars
<1> QED BY <1>2, <1>3 DEF IInv

LEMMA DisconnectInv == ASSUME IInv, Disconnect PROVE IInv'
<1>1. /\ at = "handler" /\ at' = "poll" /\ UNCHANGED <<readySocket, stdin>>
      /\ readySocket \in open /\ readySocket # mainServerSocket
      /\ open' = open \ {readySocket} /\ ready' = ready \ {readySocket}
  BY DEF Disconnect
<1>2. readySocket \in Slots
  BY <1>1, OpenInArray DEF IInv
<1>3. /\ UNCHANGED <<maxFileDescriptor, currentPollSetSize>>
      /\ Slots' = Slots
      /\ pollFileDescriptors' \in [Slots -> PollFd]
      /\ Hole(pollFileDescriptors'[readySocket])
      /\ \A i \in Slots \ {readySocket} :
           pollFileDescriptors'[i] = pollFileDescriptors[i]
  BY <1>2, RemoveEffect DEF Disconnect, IInv
<1>4. TypeOK'
  BY <1>1, <1>3 DEF IInv, TypeOK
<1>5. Entries'
  <2> SUFFICES ASSUME NEW i \in Slots
               PROVE  IF i \in open' THEN Asks(pollFileDescriptors'[i], i)
                      ELSE Hole(pollFileDescriptors'[i])
    BY <1>1, <1>3 DEF Entries
  <2>1. CASE i = readySocket
    BY <2>1, <1>1, <1>3
  <2>2. CASE i # readySocket
    <3>1. i \in open' <=> i \in open
      BY <2>2, <1>1
    <3>2. pollFileDescriptors'[i] = pollFileDescriptors[i]
      BY <2>2, <1>3
    <3> QED BY <3>1, <3>2, <1>1 DEF IInv, Entries
  <2> QED BY <2>1, <2>2
<1>6. BelowMark' /\ Picked'
  BY <1>1, <1>3 DEF IInv, BelowMark, Picked
<1>7. Backlog'
  BY <1>1 DEF IInv, TypeOK, Backlog
<1> QED BY <1>4, <1>5, <1>6, <1>7 DEF IInv

LEMMA OtherStepsInv ==
  ASSUME IInv,
         \/ RecvExits
         \/ \E fd \in Fds : Arrive(fd)
         \/ StdinChanges
         \/ UNCHANGED vars
  PROVE  IInv'
<1>1. /\ Slots' = Slots /\ UNCHANGED <<pollVars, readySocket, open>>
      /\ at' = at \/ (at # "main" /\ at' = "ended")
      /\ stdin' \in {stdin, "typed", "hung up"} /\ (stdin = "hung up" => stdin' = stdin)
      /\ ready \subseteq ready' /\ ready' \subseteq open
      /\ mainServerSocket \in ready' => mainServerSocket \in ready \/ Fds # open
  BY DEF RecvExits, Arrive, StdinChanges, vars, pollVars, Slots, IInv, TypeOK
<1>2. TypeOK'
  BY <1>1 DEF IInv, TypeOK, pollVars
<1>3. Entries' /\ BelowMark'
  BY <1>1 DEF IInv, Entries, BelowMark, pollVars
<1>4. Picked' /\ Backlog'
  BY <1>1 DEF IInv, Picked, Backlog
<1> QED BY <1>2, <1>3, <1>4 DEF IInv

LEMMA NextInv == IInv /\ [Next]_vars => IInv'
BY StartInv, PollCallInv, AddNewClientInv, HandlePacketInv, DisconnectInv,
   OtherStepsInv DEF Next, ServerStep

------------------------------------------------------------------------------
(* The theorems. *)

THEOREM Invariance == Spec => []IInv
BY InitInv, NextInv, PTL DEF Spec

\* The array is a function on its slots and the mark never passes its end, so
\* that poll() reads no entry that is not there (pollLib.c:42-53, 111-118).
THEOREM TypeCorrect == Spec => []TypeOK
<1>1. IInv => TypeOK
  BY DEF IInv
<1> QED BY <1>1, Invariance, PTL

\* pollCall never waits while a socket of the server is ready (pollLib.c:76-86).
THEOREM NoSocketIsDeaf == Spec => []NoneMissed
<1>1. IInv => NoneMissed
  BY ReportedReady DEF NoneMissed
<1> QED BY <1>1, Invariance, PTL

\* As long as the server's standard input is not hung up, the array is the set
\* of descriptors that the server's loop takes it for (pollLib.c:28-106).
THEOREM PolledSetImplemented == Spec => ImplementsPolledSet
<1>1. Init => PS!Init
  BY DEF Init, PS!Init, Polled, Slots, Unused
<1>2. IInv /\ PolledOpen /\ PolledOpen' /\ [Next]_vars
        => [PS!Next \/ stdin = "hung up"]_(PS!vars)
  <2> SUFFICES ASSUME IInv, PolledOpen, PolledOpen', [Next]_vars, stdin # "hung up"
               PROVE  PS!Next \/ UNCHANGED PS!vars
    OBVIOUS
  <2>1. /\ Polled  = IF at  = "main" THEN {} ELSE open
        /\ Polled' = IF at' = "main" THEN {} ELSE open'
    BY DEF PolledOpen
  <2>2. CASE Start
    <3>1. open = {mainServerSocket} /\ mainServerSocket \in Fds
      BY <2>2, FdsAreNat DEF IInv, BelowMark, Start
    <3>2. PS!Add(mainServerSocket)
      BY <2>1, <2>2, <3>1 DEF Start, PS!Add
    <3> QED BY <3>1, <3>2 DEF PS!Next
  <2>3. CASE PollCall
    <3>1. readySocket' \in open /\ readySocket' \in ready
      BY <2>3, PollCallPicks
    <3>2. readySocket' \in Fds
      BY <3>1 DEF IInv, TypeOK
    <3>3. PS!Pick(readySocket')
      BY <2>1, <2>3, <3>1 DEF PollCall, PS!Pick
    <3> QED BY <3>2, <3>3 DEF PS!Next
  <2>4. CASE AddNewClient
    <3> DEFINE fd == Min(Fds \ open)
    <3>1. fd \in Fds
      BY <2>4, FreeDescriptor
    <3>2. /\ at = "handler" /\ at' = "poll" /\ readySocket = mainServerSocket
          /\ open' = open \cup {fd}
          /\ ready' \in {ready, ready \ {readySocket}}
      BY <2>4 DEF AddNewClient
    <3> HIDE DEF fd
    <3>3. PS!Add(fd)
      BY <2>1, <3>2 DEF PS!Add
    <3> QED BY <3>1, <3>3 DEF PS!Next
  <2>5. CASE HandlePacket
    <3>1. PS!Serve(readySocket) /\ readySocket \in Fds
      BY <2>1, <2>5 DEF HandlePacket, PS!Serve, IInv, TypeOK
    <3> QED BY <3>1 DEF PS!Next
  <2>6. CASE Disconnect
    <3>1. PS!Serve(readySocket) /\ readySocket \in Fds
      BY <2>1, <2>6 DEF Disconnect, PS!Serve, IInv, TypeOK
    <3> QED BY <3>1 DEF PS!Next
  <2>7. CASE RecvExits
    BY <2>7 DEF RecvExits, IInv, Picked
  <2>8. ASSUME NEW fd \in Fds, Arrive(fd)
        PROVE  PS!Next
    <3>1. PS!Arrive(fd)
      BY <2>1, <2>8 DEF Arrive, PS!Arrive
    <3> QED BY <3>1 DEF PS!Next
  <2>9. CASE StdinChanges \/ UNCHANGED vars
    BY <2>1, <2>9 DEF StdinChanges, vars, PS!vars
  <2> QED BY <2>2, <2>3, <2>4, <2>5, <2>6, <2>7, <2>8, <2>9 DEF Next, ServerStep
<1> QED BY <1>1, <1>2, PolledIsOpen, Invariance, PTL DEF Spec, ImplementsPolledSet
==============================================================================
