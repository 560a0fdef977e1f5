# prog2chat in TLA+

A verification project for prog2chat, a chat program of one server (`server.c`)
and any number of clients (`cclient.c`) over TCP. It holds TLA+ modules
translated from the C sources, TLC configurations that check them on small
instances, and TLAPS proofs, for every value of the parameters, about the handle
table, the poll set, packets and the bytes of a connection, the lines of a client
and the whole system. File names and lines below are those of `src/`.

## The system

| part | source | state | operations |
|---|---|---|---|
| handle table | `handleTable.c` | array of entries (name, socket, valid flag), capacity, count | `initHandleTable`, `addHandle`, `removeHandle`, `lookupSocket`, `lookupHandle`, `getHandleCount`, `getHandleAtIndex`, `getTableCapacity` |
| packets | `chatPacket.c`, `chatFlags.h` | none | builders of flags 1-13, `getFlag`, `getHandleAt` |
| connections | `pdu.c`, `safeUtil.c`, `networks.c` | the kernel's sockets | `sendPDU`, `recvPDU`, `safeSend`, `safeRecv`, `tcpAccept`, `tcpClientSetup` |
| poll set | `pollLib.c` | array of `struct pollfd` indexed by descriptor | `addToPollSet`, `removeFromPollSet`, `pollCall` |
| server | `server.c` | handle table, poll set, descriptors | accept, one handler per flag, disconnect |
| client | `cclient.c` | its handle, one socket | login, `%B`, `%M`, `%C`, `%L`, receiving, list loop |
| name resolution | `gethostbyname.c` | none | one call before `connect()` |

Both programs are single-threaded loops around `pollCall`. The concurrency is
between processes: each blocks in `send()` and `recv()` at its own times, may be
killed anywhere, and learns of the other's end only through the kernel (FIN,
RST, SIGPIPE). The server alone changes the handle table; a client is known to
it by a descriptor, which the kernel hands out again after `close()`.

What each part has to guarantee:

* handle table: a name is bound once; the counter counts; a binding is neither
  lost nor moved by calls for other sockets, slots being reused and the array
  growing;
* server: each request has the effect of one atomic step of a chat room, though
  it is made of many sends; a client's name and descriptor are forgotten
  together; names come free; it goes on serving;
* client: it can parse what it gets (login answer first, lists unbroken), sends
  its pieces in order, and ends when the server does, if it is not in the middle of
  a line.

The hard behaviours, each with its line, are under `hazards` in `PROJECT.json`.

## Modules

| module | models | state and actions |
|---|---|---|
| `HandleMap` | the abstract registry | a set of bindings and its size; `Register`, `Release` |
| `HandleTable` | `handleTable.c` | the array, capacity and count under the names of the code; `AddHandle` (free slot or growth), `RejectHandle` (-1), `RemoveHandle`, and the lookups as operators |
| `HandleTableProofs` | theorems about `HandleTable` | |
| `PollSetProofs` | theorems about `PollSet` | |
| `PduStreamProofs` | theorems about `PduStream` and the packets of `PacketBytes` | |
| `StdinLinesProofs` | theorems about `StdinLines` | |
| `ChatTableProofs`, `ChatStreamProofs`, `ChatRoomProofs` | theorems about `ChatSystem`, each on top of the one before: types, table, descriptors and poll set; streams and the order of texts; refinement of `ChatRoom` | |
| `ScanLemmas` | lemmas about least and greatest indices, about counting up, about sequences and where their parts lie, for the proof modules | |
| `LoopOrder` | the order in which a loop over an array meets the slots it picks | none: `InOrder` |
| `ChatPacket` | `chatPacket.c`, `chatFlags.h` | PDUs as records |
| `Tcp` | the kernel, as `networks.c`, `pdu.c`, `safeUtil.c` see it | per connection two bounded FIFO queues (`c2s`, `s2c`) and what each end knows of the other (`cliEnd`, `srvEnd`); descriptors (`conn`), accept queue (`backlog`) |
| `Server` | `server.c` | `alive`, `polled`, `job`, and `HandleTable` by INSTANCE; one action per handler, one per send |
| `Cclient` | `cclient.c` | `pc` (where `main` is), `outq` (PDUs of the current line not sent yet), `sent` |
| `ChatSystem` | the composition, its properties and fairness | |
| `ChatRoom` | the abstract specification of the server | members, the requests not taken yet, inboxes; a request is taken with its whole effect in one step |
| `PolledSet` | the abstract poll set, which `Server` calls `polled` | the descriptors asked about, those that are ready, the one picked; `Add`, `Pick`, `Serve` |
| `PollSet` | `pollLib.c` under the loop of `server.c` | the array, high-water mark and size under the names of the code, the server's descriptors, and its standard input; `AddToPollSet`, `RemoveFromPollSet`, `PollCall` |
| `PacketBytes` | `chatPacket.c` and the parsing in the handlers | none: builders and parsers on sequences of bytes; `Encode`, `Decode` |
| `PduChannel` | the abstract connection, which `Tcp` uses | a queue of whole PDUs; `Send`, `Receive`, `EndOrLose`, `Close` |
| `PduStream` | `pdu.c`, `safeUtil.c` on bytes, one direction | the bytes in the sender's `send()`, in the connection, in the receiver's `recv()`, and received; a step per byte and per return of `recv()` |
| `CommandLine` | `processStdin` and the commands of `cclient.c` | none: a line to the PDUs it is sent as |
| `StdinLines` | `readFromStdin` behind `pollCall` and stdio | characters on their way (kernel, stdio buffer, `buffer`) and the lines taken; `PollReturns`, `Refill`, `Getchar`, `GetcharEof` |
| `MCHandleTable`, `MCChatSystem`, `MCPduStream`, `MCStdinLines` | instances for TLC | |

**Granularity.** A server handler is split where the process can block or die.
Its first action receives the PDU and changes the table; it leaves the list of
sends its loop will make in `job`, and each `SendNext` makes one. The server
does nothing else while `job` is there, so the table does not change under the
loop. A client's line is split the same way into `outq`, and before that into the
moment `getchar()` is called (`ReadFromStdin`) and the moment the line is complete
(`TakeLine`, or `IgnoreLine` when nothing is sent): in between the client does not
look at its socket. Between any two of those steps other processes and the network
move. Sends and receives are of whole PDUs.

**Layers.** `ChatSystem` composes server and clients over three simplifications,
and each has a module below it that shows how far it is right. `Server` takes
the poll set for a set: `PollSet` implements `PolledSet`. `Tcp` takes a
connection for two queues of PDUs: `PduStream`, with the bytes of `PacketBytes`,
implements `PduChannel`. `Cclient` takes a line for a wait and then a number
of PDUs: `StdinLines` says what it waits for, `CommandLine` which PDUs. The two
places where the lower layer can do what the upper one leaves out are a PDU cut
short by the end of its sender (last in its stream, see `InStep` and `pdu_short`)
and the hang-up of the server's standard input (`poll_hangup`).

**The kernel.** Queues hold `SockBuf` PDUs; a send into a full one blocks. A
closed end with unread data, or that is sent to, answers with RST; the RST
arrives whenever the network likes (`Reset`), later sends fail, and a receiver
may then see the end of the stream before all data (data under way is lost).
`accept()` returns the lowest free descriptor and fails when there is none.
Errors end the process, as `safeSend`, `safeRecv` and `tcpAccept` do;
`ECONNRESET` on receive is the end of the stream, as in `safeRecv`.

**Scheduling.** `pollCall` returns the lowest descriptor whose data has arrived.
Since the network may delay any data, a step of `Server` may take any connection
with PDUs under way; the order among those that have arrived is used in
`PollSet` only.

**Memory.** What `realloc` brings in is arbitrary: in `HandleTable` the new
entries, in `PollSet` the `revents` of the new entries. In `PduStream` the second
byte of a header of which only one byte came is whatever the stack held; a
length below 2 computed from it becomes a huge `size_t`, which the kernel
rejects or, at the end of the stream, answers with 0.

**Standard input.** A terminal hands over whole lines, a pipe any piece; stdio
takes up to `StdioMax` characters of what there is, from a terminal one line.

## Runs

| run | question | bounds |
|---|---|---|
| `handle_table` | does the array keep names unique, count exactly, keep entries where they are, and implement `HandleMap`? | 3 legal names, an empty and an overlong one, 2 sockets, array 1 -> 2 -> 4, two kinds of fresh memory, one of which looks like a valid entry |
| `chat_safety` | do names, sockets, poll set and PDU streams stay consistent, and does the server implement `ChatRoom`, when clients come, are refused, and go? | 3 clients, two after one name, 2 descriptors, one PDU each, `SockBuf` 4 |
| `chat_room` | are broadcast, unicast, multicast and list right with three members and holes in the table? | 3 clients with 3 names, one request, `SockBuf` 4 |
| `chat_chunks` | and when lines are cut in two and sends block? | 2 clients, 2 and 1 PDUs, lines of 1-2 pieces, `SockBuf` 2 |
| `chat_live` | is everything that must happen bound to happen? | 3 clients (two rivals, one with the empty handle), 2 descriptors, queues that do not fill |
| `poll_set` | is the array of `pollLib.c` the set its callers take it for, and whom does the scan serve? | 4 descriptors, an array of 2 that grows twice, two kinds of fresh memory, a standard input that is quiet, typed at, or hung up |
| `pdu_stream` | are bytes received as the PDUs that were sent, whenever the sender ends? | 2 PDUs out of 11, all layouts and lengths, bytes of 16 values (PDUs of up to 19 bytes need both bytes of the header), 6 bytes under way |
| `stdin_lines` | is what is typed what is sent? | for each command all arguments of up to 4 characters over blank, digit and letter and longer ones over blank and letter, all other blanks, multicasts with the numbers 0, 1, 4, 9, 10, `02`, `002`, `+2`, `-2`, `+`, `2x`, `x2` and 1 to 10 handles, pairs of lines around the size of the buffer; handles of 2, pieces of 2, a buffer of 26, reads of 6 |
| `server_sigpipe` | does the server survive a client's end? No. | 2 clients |
| `chat_blocked` | is every PDU handled when connections can fill up, if users type whole lines? No. | 2 clients, `SockBuf` 1 |
| `pdu_short` | does `recvPDU` return 0 for a PDU that is cut short? No. | as `pdu_stream` |
| `poll_hangup` | does the server survive the end of its standard input? No. | as `poll_set` |

Why the bounds suffice for what they are for: two rivals and two descriptors are
the least with which a descriptor passes from a client that has left to one that
takes its name or another; three members are the least with a hole in the table
that has a member behind it; a table that starts at one entry grows on the
second and third login as the real one does on the eleventh; two pieces are the
least that can be swapped or repeated; two PDUs are the least with which a
receiver that has lost step shows it, and six bytes hold two of the shortest;
a multicast to two clients with a text is among the inputs with every spacing of
its handles, a multicast to nine fits into the buffer, and a line one
shorter, as long and one longer than the buffer is there, too. `Base`, `HANDLE_NAME_MAX`, `TEXT_DATA_CHUNK`, `LineMax` and
the other lengths are constants of the modules, small in the runs; what matters
of them, that one is one less than another or fits into a byte, is assumed by
name (`PacketBytesAssumption` and its like). The number of PDUs each client sends is
bounded by `Budget`, the pieces of a line by `MaxChunks`, the destinations of a
multicast by `MaxDsts`, the queues by `SockBuf`, the descriptors by `MaxFd`.
Handles start out as a function of the run (`ArgvHandle`), as `argv[1]` does.
In `chat_safety` the two rivals are interchangeable, hence the symmetry set.

Deadlock is not checked in the runs of `ChatSystem`: it comes to rest when the
budgets are used up, and for good when the server and all clients have ended.
That nobody waits for ever is what `chat_live` checks. The same goes for
`poll_set` (the server may end), `pdu_stream` and `stdin_lines` (the input is
used up), with their own liveness properties.

**What the properties say.** `StreamGrammar`: what is queued for a client, in
its socket and then in the server's job, is a sequence its code can parse.
`NoStaleEntry`, `NoMisdelivery`: no name or text follows a descriptor to its
next owner. `LoggedInIsRegistered`, `PollMatchesOpen`: what a client believes,
what the table says and what poll watches agree. `OrderedDelivery`: pieces keep
their order and are not repeated, from the sender's line to the receiver.
`ImplementsChatRoom`: with the inbox of a client mapped to its socket queue
followed by the sends the server still owes it, and its requests to the PDUs not
read yet, every server step is a step of the atomic room or changes nothing: a
PDU that is read was one its client may send at that moment, and has all of its
effect; in particular nobody but a client that has
left is taken out of it, and a login is refused only while another member holds
the name.

`StableSlots`: an entry of the handle table stays as it is in every step but a
`RemoveHandle` of its own socket, and then no entry of that socket is left.
`ClientsFollowServer`: a client that runs on after the server has ended is in the
middle of a line.

`NoneMissed`, `ImplementsPolledSet`: every ready descriptor wakes `pollCall`, and
nothing else does, until the standard input of the server is hung up.
`QuietBelowServed` says what the lowest-first scan leaves of fairness.
`InStep`: the receiver never takes a text for a header; only the last PDU of a
sender that has ended is short. `ImplementsPduChannel`: the PDUs received are,
parsed, the PDUs built. `RecvComesBack`, `AllReceived`: no `recv()` waits for
bytes that will not come. `CharsAccounted`: what was typed is the lines taken
and what waits in the buffers, in order. `LinesSent` compares the position
arithmetic of the commands with a definition by words (`WellFormed`,
`Accounted`); what a blank is and what `atoi` makes of a word is the same in both.
`LinesTaken`: lines do not stay in the stdio buffer, of a terminal with lines that
fit, or once the input is closed; from an open pipe they may.

**Fairness** (`chat_live`, `chat_blocked`). Weak fairness of the server, of each
client's program and of the arrival of an RST: processes that are not blocked
run, and the network delivers. Users are free to type and to leave, or not, and
to stop in the middle of a line: nothing makes the end of a line come.
`ServicedInTheEnd` puts that aside, so that `chat_blocked` is about full
connections only.
`pollLib.c` warns (lines 8-11) that its lowest-first scan can starve
descriptors; with the bounded number of PDUs of these runs a single weak
fairness condition on the server is enough for all of them to be served, and
nothing is claimed for unbounded traffic. In `poll_set`, where traffic is
unbounded, a descriptor is promised service only when those below it fall quiet.
`pdu_stream` assumes that the receiver runs and that a `send()` with room goes
on: a sender may be killed inside a PDU but not suspended there (it would hold
the server, which waits in `recv()` for the rest). `stdin_lines` assumes of the
client that it runs, and of the user nothing.

**Findings.** (1) A send to a client that has gone ends the server: SIGPIPE is
not ignored and `safeSend` exits. (2) Server and client can block in `send()` to
each other for ever, which stops the server for everyone; a client that gets its
lines from a file, and so always finds stdin ready first, comes close to it by
itself. (3) Removed and unused entries of the poll set ask about descriptor 0, and
hang-ups are reported without being asked for: when the pipe or terminal at the
server's standard input goes away, `pollCall` returns such an entry and the server
ends. (4) `pdu.c:58` and `pdu.h:17` say that `recvPDU` returns 0 if the connection is
closed midway through a PDU; it returns the length of what came, and the handlers
parse it as if it were whole. `InStep` says that this is the last PDU of its stream.

Three differences between comments and code have no run of their own:

* `cclient.c:363` says that a client exits when the server ends. One that has got a
  part of a line, from a pipe or by `^D` behind it, waits in `getchar()` for the rest
  and does not notice (`pc = "line"`); `ClientsFollowServer` excepts this state and
  no other.
* `server.c:55` says that the server runs until `^C`. `tcpAccept` exits also when the
  descriptors run out (`AcceptExits`): a second way to violate `ServerRuns`, beside
  that of `server_sigpipe`. It happens in `chat_safety`, which has more clients than
  descriptors.
* `lookupHandle` is documented (`handleTable.h:16`) and not implemented, and nobody
  calls it.

## Proofs

### The handle table

`HandleTableProofs` proves, for all sets of names and sockets, all contents of
fresh memory and all initial capacities:

| theorem | statement |
|---|---|
| `TypeCorrect` | `Spec => []TypeOK` |
| `NamesUnique` | `Spec => []UniqueNames` |
| `CountCorrect` | `Spec => []CountExact` |
| `EntriesStable` | `Spec => StableSlots` |
| `TableImplementsMap` | `Spec => ImplementsHandleMap` |

The only assumption is `HandleTableAssumption`: legal names are names, the empty
one is not legal, sockets are natural numbers, fresh memory reads as entries and
the initial capacity is positive. The inductive invariant is `IInv == TypeOK /\
ValidLegal /\ UniqueNames /\ CountExact`. The conjuncts are proved together:
`tableCount \in Nat` after a removal needs `CountExact`; the duplicate check
in `addHandle` uses the result -1 of `lookupSocket` for "not there", which is
right only if no valid entry has socket -1 (`ValidLegal`). Two lemmas sum up
what an operation does to the valid entries (`AddHandleEffect`,
`RemoveHandleEffect`), and all the theorems follow from them. That a scan stops
at the least matching index (`MinInSet` of `ScanLemmas`) is proved from the well-foundedness of
finite sets under inclusion; that a walk sees as many names of a socket as
`removeHandle` clears (`BindingsOfSocket`) by a bijection.

### The poll set

`PollSetProofs` proves, for every initial size of the array, every number of
descriptors and every content of the memory `realloc` brings in:

| theorem | statement |
|---|---|
| `TypeCorrect` | `Spec => []TypeOK` |
| `NoSocketIsDeaf` | `Spec => []NoneMissed` |
| `PolledSetImplemented` | `Spec => ImplementsPolledSet` |

The only assumption is `PollSetAssumption`: the initial size is positive, and the
server may have a client. The inductive invariant is `IInv == TypeOK /\ Entries
/\ BelowMark /\ Picked /\ Backlog`. `TypeOK` alone is not inductive: that
`removeFromPollSet` writes inside the array needs the open sockets to be below
the mark (`BelowMark`), which is below the size; that `accept` has a descriptor
to return needs `Picked` (the listening socket is returned only when ready) and
`Backlog`. `Entries` says that entry i asks about i when i is open and is a hole
otherwise. `AddEffect` and `RemoveEffect` sum up what the two functions do to
the array; `ReportedReady` is the heart of the theorems: what the scan can find
is exactly what is open and ready, except for holes after a hang-up.

### The bytes of a connection

`PduStreamProofs` proves, for every set of PDUs, every way the connection and
`recv()` cut their bytes, every moment the sender may end and the network lose
the rest, and every content of uninitialised memory:

| theorem | statement |
|---|---|
| `TypeCorrect` | `Spec => []TypeOK` |
| `ReceiverInStep` | `Spec => []InStep` |
| `PacketsReadBack` | `Decode(Encode(pdu)) = pdu` for every PDU the builders accept |
| `StreamImplementsChannel` | `Spec => ImplementsPduChannel` |

The assumptions are `PacketBytesAssumption` and `PduStreamAssumption`: a byte
holds the flags and the length of a name; the PDUs are some that the builders of
`chatPacket.c` accept (`BuildablePdus`: handles of legal length and texts that
fit, both without NUL, as C strings are, one destination of flag 5 and 1 to 9 of flag
6, a count of four bytes); `dataBuffer` holds them, and the greatest length fits into the two bytes of
the header.

* Keeping step. The invariant is `IInv == TypeOK /\ (InSync \/ GivenUp)`. `InSync`
  says where every byte is: there are positions `end[0] <= end[1] <= ...` at which
  the frames of the PDUs built so far end (`Layout`); the byte at a place of `got`,
  `wire` and `unsent`, read as one string, is the byte of the frame that covers its
  position (`Carried`); and the place the receiver has got to is the one its phase
  says (`InPhase`): at the end of a frame when it waits, inside the header, or two
  bytes behind the start of a frame with the length of that frame in `data_len`.
  Positions stand in for the concatenation of all frames, which would need
  recursion. `GivenUp` is the state after a stream has ended inside a PDU.
  `HeaderReadBack` (a length below 2^16 survives `htons` and `ntohs`) is what makes
  the receiver find the next end.
* Reading back. There is a lemma for each builder (`HandleOnlyReadBack`,
  `MessageReadBack`, ...). `Lies(pdu, offset, field)` says that a field is in a PDU
  at an offset. What is appended lies behind what was there (`LiesApart`), so each
  builder puts its fields one behind the other; `HandleFound` and `TextFound` say
  what `getHandleAt` and `%s` make of a field that lies at their offset, a text
  because it has no NUL before its last byte. The server and the clients have parsers
  of their own for flags 5 and 6 (`UnicastDst`, `MulticastDsts`, `MessageText`). The
  offsets of the destinations are proved by counting up (`OffsetsAt`, `DstsFound`) to
  be those at which `messagePacket` put them (`FlattenLaid`), and the offsets a client
  steps over to be the same (`SameSteps`). The four bytes of a count are taken off
  and put back one at a time (`LastByte`).
* The channel. The queue of `PduChannel` is made of the PDUs that have left, or
  will leave, the sender whole and are not received. While the receiver is in step
  the layout of the frames tells which these are (`LeavingInSync`); an end or a
  reset takes bytes from the back, hence PDUs from the end of the queue (`Loss`,
  `LossMaps`). Where the receiver has met the end of the stream it is not in step
  any more, and the mapping is that of a queue that must be empty: `Emptied ==
  InSync \/ Queue = <<>>` is carried beside `IInv`. `SendPDU` is `Send`, the return
  of a payload that is whole is `Receive` (`WholeMaps`, which takes the data of the
  frame and then `PacketsReadBack`), of one that is short nothing (`ShortIsNone`),
  `SenderEnds` and `Reset` are `EndOrLose`, the end of the receiver is `Close`, and
  every byte that moves is a stutter (`MoveMaps`).

### `StdinLines`

| theorem | statement |
|---|---|
| `TypeCorrect` | `Spec => []TypeOK` |
| `NoCharacterLost` | `Spec => []CharsAccounted` |
| `EveryLine` | every line, of any characters but newline and NUL, satisfies `SaysWhatWasTyped` |
| `LinesSentRight` | `Spec => []LinesSent` |

`StdinLinesAssumption` asks for a buffer and a `read()` of at least one character,
and that inputs are sequences; `CommandLineAssumption`, that handles, counts and
pieces may have at least one. The invariant is `IInv == TypeOK /\ AllThere /\
NothingLeft`. `AllThere` is the equation of `CharsAccounted`: the characters of the
lines, of `buffer`, of the buffer of stdin and of the kernel are what has arrived.
Each step moves one border between two of these strings (`JoinMore`, `JoinRead`,
`JoinChar`, `JoinLine`). `CharsAccounted` is not inductive, as it does not say that
nothing arrives after the client has ended: `NothingLeft` adds that the input is
closed then. That a line more adds its characters behind those of all others
(`FlattenAppend`) is an induction over the number of lines: the numbers for which it
holds include 0 and with each number the next, and are therefore all (`CountingUp`,
since a set of numbers that is not empty has a least one).

`LinesSent` is a fact about the commands, not about steps: `EveryLine` proves it of
every line over every alphabet, so that of the invariant it needs only the type of
`lines`. `CommandLine` finds words with positions, `WellFormed` and `Accounted` speak
of the n-th word and of ink; between the two stands `Reached(a, p, k)`: position p cuts
no word, and k words begin in front of it, or the line has less than k and p is its
end. The two loops lead from a position reached after k words to one reached after
k + 1 and pass the (k+1)-th word between them, or there is none (`NextWord`); counting
up over the destinations, the words read are handles exactly when the line has them,
and the ink passed is the ink of these words (`DstsRead`). The count of a multicast is
read the same way (`WordRead`), and a count that is missing or too long is 0
(`NoDigits`), which is refused. What is left is the text: `ChunksSay`, by strong
induction over the rest of the text (`CountingOn`), says that the pieces make it up
and that none is empty or too long. Recursive functions are unfolded by proving that
one exists for every length (`DstsExist`, `CutsExist`) and using its equation at one
index (`ReadsDstsAt`, `CutsAt`). The value of the digits themselves is not needed:
reader and definition both ask `Atoi` of the same word.

### The system

The three modules prove, for any number of clients, names and descriptors, any
initial size of the table, any size of the socket buffers, any length of lines
and any budget:

| module | theorem | statement |
|---|---|---|
| `ChatTableProofs` | `TypeCorrect` | `Spec => []TypeOK` |
| | `EntriesAreLive` | `Spec => []NoStaleEntry` |
| | `AdmittedStay` | `Spec => []LoggedInIsRegistered` |
| | `PolledAreOpen` | `Spec => []PollMatchesOpen` |
| | `NothingMisdelivered` | `Spec => []NoMisdelivery` |
| `ChatStreamProofs` | `StreamsParse` | `Spec => []StreamGrammar` |
| | `TextsInOrder` | `Spec => []OrderedDelivery` |
| `ChatRoomProofs` | `RoomInvariance` | `Spec => []RInv` |
| | `SystemImplementsRoom` | `Spec => ImplementsChatRoom` |

The assumptions are `TcpAssumption`, `ServerAssumption` and `CclientAssumption`,
which give the constants their types, `SockBuf` and the initial size a value
above 0, and keep the empty name from being legal. The arguments:

* Types. `Typed` says which PDUs can be in each queue. `TypeOK`, which lets any
  flag go with any fields, is not inductive: a handler reads the fields its flag
  promises. The table's part is the invariant of `HandleTableProofs`, taken over
  by INSTANCE.
* Table. `IInv` adds `Live`, which holds while the server does. `NoStaleEntry` is
  not inductive because a connection that is refused is closed without
  `removeHandle`: it has no entry, since a client sends flag 1 once, before
  anything else (`Handshake`), and is behind one descriptor at a time
  (`OneConnection`). `JobGood` carries the table and the descriptors of the moment
  a handler ran over to the sends it still has to make; nothing changes either
  while a job is there. `Admitted` follows flag 2 from the server's job through the
  socket to the client. `Delivered` is kept after the server has ended.
* Streams. `SendNext` moves a PDU from the job to a socket and changes nobody's
  stream (`StreamKept`). Every other step changes a stream at one end: it adds the
  answer to flag 1, a text or a whole list at the back, or takes the first PDU
  (`ParsesAnswer`, `ParsesTexts`, `ParsesList`, `ParsesTail`). `SInv` adds what these
  need. `Talk` relates where a client is to what is in its two queues, so that
  flag 1 is answered once; `ItemsFollowed` keeps a list whole after its flag 11 has
  been read, when no count says any longer how many items come; `Ends` keeps the
  kernel from dropping the stream of a client that runs. That a list has as many
  items as its flag 11 says is `CountExact` of the handle table.
* Order. `OrderedDelivery` speaks of one sequence; `Lanes` takes it apart into three
  queues, the receiver's stream, the sender's socket and the sender's line: the
  numbers of the sender's pieces rise in each and from each to the next, and none is
  above what the sender has cut. A step then does one of four things to a lane: it
  takes PDUs away at an end (`LaneThins`), moves the first PDU of a queue to the end
  of the one before it (`LaneServed`, `LaneSent`), adds what is not a piece of this
  sender (`LaneAside`), or cuts a line with the next numbers (`LaneCut`). A piece that
  is added to a stream twice must be a multicast with a destination twice: of a
  broadcast a client gets one copy because no two entries are for one client
  (`EntriesApart`), and of a unicast because it has one destination, which no type
  says and `UnicastToOne` does.
* Room. Every step maps to a step of `ChatRoom` or to none. The first step of a
  handler is the room's step: what the loop has left in `job` is, for every client,
  what the room gives it (`BroadcastReaches`, `ForwardReaches`, `ListReaches`), and
  the `SendNext` after it stutter. `Disconnect` is `Forget`, the ends of the server are
  `Crash`; a client's step is an `Ask`, a `Read`, a `Leave` or nothing
  (`ClientKinds`). The guards of the room's steps are promises of the system, which
  `RInv` carries: a text is signed with its sender's name (`AllSigned`); a PDU that is
  not flag 1 comes from a client that is in the table, so no handler serves a
  stranger (`Heard`); nothing of a client that was turned away is thrown away with
  its connection (`Refused`, since flag 1 travels alone until it is answered); and
  what the kernel drops was for a client that has ended (`Kernel`, with `Ends` of
  `SInv`). That lookup and loop find the same members is `UniqueNames` of the handle
  table (`LookupKnows`, `EntriesApart`), that the count of a list is right `CountExact`.

### Only model-checked

All invariants, action properties and refinements that the passing runs check are
theorems. What is left to TLC:

* Liveness, of all modules (`ConnectAnswered`, `Serviced`, `NameComesFree`,
  `ClientsFollowServer`, `QuietBelowServed`, `RecvComesBack`, `AllReceived`,
  `LinesTaken`): the prover does not handle fairness and ENABLED.
* What `Atoi` computes, which the proofs do not need: recursion over data.

## Not modelled

* What a handler makes of a PDU cut short: it reads on in its uninitialised
  buffer. `InStep` says when this can happen; `ChatSystem` leaves it out.
* `pollCall` with a timeout and failures of `poll()`; nobody uses the one, and the
  other ends the process at once.
* Errors of `socket`, `bind`, `listen`, memory exhaustion; the limit of the accept
  queue (10), which more clients than the runs have would be needed to reach.
* A sender that is stopped (`^Z`) inside a PDU; NUL characters and the editing of lines at a terminal.
* Flags no client sends, printing, the UDP functions of `networks.c` (never
  called), the unit tests, `pollLib.c.bak`. Of name resolution only that it may
  fail (`ResolveFails`).

## Plan

1. Done: `HandleMap`, `HandleTable`, its proofs; `Tcp`, `ChatPacket`, `Server`,
   `Cclient`, `ChatSystem`, `ChatRoom`.
2. Done: `PollSet` implementing `PolledSet`; `PacketBytes`; `PduStream`
   implementing `PduChannel`; `CommandLine` and `StdinLines`.
3. Done: `PollSetProofs`; `PduStreamProofs`, with `ImplementsPduChannel`;
   `ChatTableProofs`, `ChatStreamProofs`, `ChatRoomProofs`; `StdinLinesProofs`,
   with `LinesSent`.
