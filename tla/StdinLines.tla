------------------------------ MODULE StdinLines ------------------------------
(***************************************************************************)
(* readFromStdin of cclient.c behind pollCall: the user's characters on    *)
(* their way through a terminal or a pipe, the stdio buffer of getchar(),  *)
(* which poll() does not see, and buffer.  What the server sends meanwhile *)
(* changes nothing here and is left out, as is the end of the client for   *)
(* other reasons than the end of its input.                                *)
(***************************************************************************)
EXTENDS CommandLine

CONSTANTS
  LineMax,   \* PDU_LEN_MAX - 1, 1499: the characters one call reads at most
  StdioMax,  \* what one read() of stdio takes at most: 1024 or 4096
  Inputs     \* what users type, over all lines

NL == "newline"

Chars == UNION {ToSet(input) : input \in Inputs}

ASSUME StdinLinesAssumption ==
  /\ LineMax \in Nat \ {0}
  /\ StdioMax \in Nat \ {0}
  /\ Inputs \subseteq Seq(Chars)

VARIABLES
  typed,     \* the whole input; never changes
  terminal,  \* whether it is typed at a terminal; never changes
  arrived,   \* the characters of typed the kernel has
  closed,    \* whether its end is known to the kernel: ^D, or a closed pipe
  kernel,    \* arrived and not yet read()
  stdio,     \* the buffer of stdin
  at,        \* poll, getchar, or ended
  buffer,    \* of the call that runs
  lines      \* what the calls returned

vars == <<typed, terminal, arrived, closed, kernel, stdio, at, buffer, lines>>

TypeOK ==
  /\ typed \in Inputs
  /\ terminal \in BOOLEAN
  /\ arrived \in 0 .. Len(typed)
  /\ closed \in BOOLEAN
  /\ kernel \in Seq(Chars)
  /\ stdio \in Seq(Chars) /\ Len(stdio) <= StdioMax
  /\ at \in {"poll", "getchar", "ended"}
  /\ buffer \in Seq(Chars \ {NL}) /\ Len(buffer) < LineMax
  /\ lines \in Seq(Seq(Chars \ {NL}))

Init ==
  /\ typed \in Inputs
  /\ terminal \in BOOLEAN
  /\ arrived = 0
  /\ closed = FALSE
  /\ kernel = <<>>
  /\ stdio = <<>>
  /\ at = "poll"
  /\ buffer = <<>>
  /\ lines = <<>>

------------------------------------------------------------------------------
(* The user and the kernel. *)

\* The ends of the lines of typed.
LineEnds == {i \in DOMAIN typed : typed[i] = NL}

\* A terminal hands over whole lines, or what is there at ^D; a pipe anything.
Arrive ==
  /\ ~closed
  /\ \E n \in arrived + 1 .. Len(typed) :
       /\ terminal => n = Min({i \in LineEnds : i > arrived} \cup {Len(typed)})
       /\ arrived' = n
       /\ kernel' = kernel \o SubSeq(typed, arrived + 1, n)
  /\ UNCHANGED <<typed, terminal, closed, stdio, at, buffer, lines>>

\* The input may end anywhere, too.
Close ==
  /\ ~closed
  /\ closed' = TRUE
  /\ UNCHANGED <<typed, terminal, arrived, kernel, stdio, at, buffer, lines>>

\* What a read() takes: from a terminal not more than a line.
ReadLength ==
  LET available == Min({Len(kernel), StdioMax})
      newlines  == {i \in 1 .. available : kernel[i] = NL}
  IN IF terminal /\ newlines # {} THEN Min(newlines) ELSE available

------------------------------------------------------------------------------
(* The client. *)

\* Mutant: pollCall looks for POLLIN only.
MutantPollReturns ==
  /\ at = "poll"
  /\ kernel # <<>>
  /\ at' = "getchar"
  /\ UNCHANGED <<typed, terminal, arrived, closed, kernel, stdio, buffer, lines>>

\* pollCall returns STDIN_FILENO; processStdin calls readFromStdin.
PollReturns ==
  /\ at = "poll"
  /\ kernel # <<>> \/ closed
  /\ at' = "getchar"
  /\ UNCHANGED <<typed, terminal, arrived, closed, kernel, stdio, buffer, lines>>

\* getchar() calls read() when its buffer is empty.
Refill ==
  /\ at = "getchar"
  /\ stdio = <<>>
  /\ kernel # <<>>
  /\ stdio' = SubSeq(kernel, 1, ReadLength)
  /\ kernel' = SubSeq(kernel, ReadLength + 1, Len(kernel))
  /\ UNCHANGED <<typed, terminal, arrived, closed, at, buffer, lines>>

\* Mutant: a newline is stored like any other character.
MutantStored(aChar) == Append(buffer, aChar)

Stored(aChar) == IF aChar = NL THEN buffer ELSE Append(buffer, aChar)

\* Mutant: the loop ends at a newline only.
MutantLoopEnds(aChar, input) == aChar = NL

LoopEnds(aChar, input) == aChar = NL \/ Len(input) = LineMax

\* A character; with the last one readFromStdin returns, and processStdin
\* does with the line what CommandLine says.
Getchar ==
  /\ at = "getchar"
  /\ stdio # <<>>
  /\ stdio' = Tail(stdio)
  /\ LET input == Stored(Head(stdio))
     IN IF LoopEnds(Head(stdio), input)
        THEN at' = "poll" /\ buffer' = <<>> /\ lines' = Append(lines, input)
        ELSE buffer' = input /\ UNCHANGED <<at, lines>>
  /\ UNCHANGED <<typed, terminal, arrived, closed, kernel>>

\* getchar() returns EOF: the client ends, and a line without its newline with it.
GetcharEof ==
  /\ at = "getchar"
  /\ stdio = <<>> /\ kernel = <<>> /\ closed
  /\ at' = "ended"
  /\ UNCHANGED <<typed, terminal, arrived, closed, kernel, stdio, buffer, lines>>

Client ==
  \/ PollReturns
  \/ Refill
  \/ Getchar
  \/ GetcharEof

Next ==
  \/ Arrive
  \/ Close
  \/ Client

Spec == Init /\ [][Next]_vars

\* The client runs when it is not blocked; nothing need be typed.
FairSpec == Spec /\ WF_vars(Client)

------------------------------------------------------------------------------
(* Properties. *)

\* The characters a call took: a line that fills the buffer leaves its newline,
\* and whatever is before it, to the next call.
Taken(line) == IF Len(line) = LineMax THEN line ELSE Append(line, NL)

\* No character is lost, repeated or moved on its way into the lines, whatever
\* the pieces it arrives in and wherever a line is cut (cclient.c:482-496); at
\* the end only an unfinished line is dropped.
CharsAccounted ==
  /\ FlattenSeq([i \in DOMAIN lines |-> Taken(lines[i])])
       \o buffer \o stdio \o kernel = SubSeq(typed, 1, arrived)
  /\ at = "ended" => stdio = <<>> /\ kernel = <<>>

\* Every line that was read is sent as it was meant, or refused for a reason
\* (cclient.c:109-346).
LinesSent == \A i \in DOMAIN lines : SaysWhatWasTyped(lines[i])

\* A whole line is waiting to be taken.
Waiting == at # "ended" /\ NL \in ToSet(stdio) \cup ToSet(kernel)

ShortLines ==
  \A i \in 0 .. Len(typed) :
    i + LineMax <= Len(typed) => \E j \in 1 .. LineMax : typed[i + j] = NL

\* Every line is taken in the end: always once the input is closed, and without
\* that for lines of a terminal that fit the buffer.  Lines from a pipe may wait
\* in the stdio buffer for as long as nothing else is written.
LinesTaken ==
  (Waiting /\ (closed \/ (terminal /\ ShortLines))) ~> ~Waiting
==============================================================================
