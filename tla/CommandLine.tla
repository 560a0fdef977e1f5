----------------------------- MODULE CommandLine -----------------------------
(***************************************************************************)
(* processStdin of cclient.c: what one line of the user becomes.  A line   *)
(* is a sequence of characters, without newline and NUL; positions count   *)
(* from 1, and the position behind the last character is the final NUL.    *)
(* Messages to the user are left out.                                      *)
(***************************************************************************)
EXTENDS ChatPacket, FiniteSetsExt, SequencesExt

CONSTANTS
  HANDLE_NAME_MAX,  \* 100
  TEXT_DATA_CHUNK,  \* 199, one less than TEXT_LEN_MAX
  COUNT_LEN_MAX,    \* 6: what countStr takes
  myHandle

ASSUME CommandLineAssumption ==
  /\ HANDLE_NAME_MAX \in Nat \ {0}
  /\ TEXT_DATA_CHUNK \in Nat \ {0}
  /\ COUNT_LEN_MAX \in Nat \ {0}

HANDLES_MIN == 2
HANDLES_MAX == 9

isspace(char) ==
  char \in {" ", "tab", "newline", "vertical tab", "form feed", "carriage return"}

\* The digits, to their values.
Digits == <<"0", "1", "2", "3", "4", "5", "6", "7", "8", "9">>
Digit == [d \in ToSet(Digits) |-> CHOOSE value \in 0 .. 9 : Digits[value + 1] = d]

AtEnd(line, at) == at > Len(line)

\* The loops over isspace and !isspace.
SkipSpace(line, at) ==
  Min({i \in at .. Len(line) + 1 : AtEnd(line, i) \/ ~isspace(line[i])})

WordEnd(line, at) ==
  Min({i \in at .. Len(line) + 1 : AtEnd(line, i) \/ isspace(line[i])})

Rest(line, at) == SubSeq(line, at, Len(line))

\* A word of at most max characters, or <<>> for an invalid command.
Word(line, at, max) ==
  LET word == SubSeq(line, at, WordEnd(line, at) - 1)
  IN IF Len(word) <= max THEN word ELSE <<>>

\* atoi: the digits at the beginning of a word, behind a sign if it has one.
Atoi(word) ==
  LET signed == word # <<>> /\ word[1] \in {"+", "-"}
      first  == IF signed THEN 2 ELSE 1
      end == Min({i \in first .. Len(word) + 1 :
                    i > Len(word) \/ word[i] \notin DOMAIN Digit})
      Push(value, char) == 10 * value + Digit[char]
      magnitude == FoldLeft(Push, 0, SubSeq(word, first, end - 1))
  IN IF signed /\ word[1] = "-" THEN -magnitude ELSE magnitude

\* The numOfDst words from there, each with the position behind it; a word that
\* is not there, or too long, is <<>>.
DstWords(line, at, numOfDst) ==
  LET word[i \in 0 .. numOfDst] ==
        IF i = 0 THEN [dst |-> <<>>, end |-> at]
        ELSE LET first == SkipSpace(line, word[i - 1].end)
             IN [dst |-> Word(line, first, HANDLE_NAME_MAX),
                 end |-> WordEnd(line, first)]
  IN word

\* Mutant: sent is moved one too far.
MutantChunks(text) ==
  LET from[sent \in 0 .. Len(text) + TEXT_DATA_CHUNK] ==
        IF sent >= Len(text) THEN <<>>
        ELSE LET chunkSize == Min({Len(text) - sent, TEXT_DATA_CHUNK})
             IN <<SubSeq(text, sent + 1, sent + chunkSize)>>
                  \o from[sent + chunkSize + 1]
  IN IF text = <<>> THEN <<text>> ELSE from[0]

\* The pieces a text is sent in; an empty text is sent, too.
Chunks(text) ==
  LET from[sent \in 0 .. Len(text)] ==
        IF sent >= Len(text) THEN <<>>
        ELSE LET chunkSize == Min({Len(text) - sent, TEXT_DATA_CHUNK})
             IN <<SubSeq(text, sent + 1, sent + chunkSize)>> \o from[sent + chunkSize]
  IN IF text = <<>> THEN <<text>> ELSE from[0]

------------------------------------------------------------------------------
(* What each command sends: a sequence of PDUs, <<>> for an invalid one. *)

sendBroadcast(line) ==
  LET pieces == Chunks(Rest(line, SkipSpace(line, 3)))
  IN [i \in DOMAIN pieces |-> BroadcastPacket(myHandle, pieces[i])]

sendUnicast(line) ==
  LET dst    == DstWords(line, 3, 1)[1]
      pieces == Chunks(Rest(line, SkipSpace(line, dst.end)))
  IN IF dst.dst = <<>> THEN <<>>
     ELSE [i \in DOMAIN pieces |->
             MessagePacket(UNICAST_FLAG, myHandle, <<dst.dst>>, pieces[i])]

sendMulticast(line) ==
  LET at       == SkipSpace(line, 3)
      numOfDst == Atoi(Word(line, at, COUNT_LEN_MAX))
      words    == DstWords(line, WordEnd(line, at), numOfDst)
      dsts     == [i \in 1 .. numOfDst |-> words[i].dst]
      pieces   == Chunks(Rest(line, SkipSpace(line, words[numOfDst].end)))
  IN IF numOfDst \notin HANDLES_MIN .. HANDLES_MAX \/ <<>> \in ToSet(dsts) THEN <<>>
     ELSE [i \in DOMAIN pieces |->
             MessagePacket(MULTICAST_FLAG, myHandle, dsts, pieces[i])]

sendHandleList == <<ChatHeaderPacket(HANDLE_LIST_FLAG)>>

\* A command letter and its capital.
IsCommand(line, letters) ==
  Len(line) >= 2 /\ line[1] = "%" /\ line[2] \in letters

processStdin(line) ==
  CASE IsCommand(line, {"b", "B"}) -> sendBroadcast(line)
    [] IsCommand(line, {"m", "M"}) -> sendUnicast(line)
    [] IsCommand(line, {"c", "C"}) -> sendMulticast(line)
    [] IsCommand(line, {"l", "L"}) -> sendHandleList
    [] OTHER -> <<>>

------------------------------------------------------------------------------
(* What a line means, said without positions. *)

Ink(line) ==
  FlattenSeq([i \in DOMAIN line |-> IF isspace(line[i]) THEN <<>> ELSE <<line[i]>>])

\* The words of a line: the longest stretches of ink, by their ends.
Words(line) ==
  {w \in {<<i, j>> : i, j \in DOMAIN line} :
    /\ w[1] <= w[2]
    /\ \A k \in w[1] .. w[2] : ~isspace(line[k])
    /\ w[1] = 1 \/ isspace(line[w[1] - 1])
    /\ w[2] = Len(line) \/ isspace(line[w[2] + 1])}

NthWord(line, n) ==
  LET w == CHOOSE w \in Words(line) : Cardinality({v \in Words(line) : v[1] <= w[1]}) = n
  IN SubSeq(line, w[1], w[2])

\* The n-th word is there, and is a handle by its length.
HasHandle(line, n) ==
  n <= Cardinality(Words(line)) /\ Len(NthWord(line, n)) <= HANDLE_NAME_MAX

\* A line that must be sent: %b text, %m handle text, %c number handles text,
\* %l; the blank behind the letter may be missing.
WellFormed(line) ==
  LET args == Rest(line, 3)
  IN \/ IsCommand(line, {"b", "B", "l", "L"})
     \/ IsCommand(line, {"m", "M"}) /\ HasHandle(args, 1)
     \/ /\ IsCommand(line, {"c", "C"})
        /\ Words(args) # {}
        /\ Len(NthWord(args, 1)) <= COUNT_LEN_MAX
        /\ LET numOfDst == Atoi(NthWord(args, 1))
           IN /\ numOfDst \in HANDLES_MIN .. HANDLES_MAX
              /\ \A n \in 1 .. numOfDst : HasHandle(args, n + 1)

Texts(pdus) == [i \in DOMAIN pdus |-> pdus[i].text]

\* The handles a line names, and the ink in front of its text.
Named(line, flag) ==
  LET args == Rest(line, 3)
  IN CASE flag = BROADCAST_FLAG -> <<>>
       [] flag = UNICAST_FLAG   -> <<NthWord(args, 1)>>
       [] flag = MULTICAST_FLAG ->
            [n \in 1 .. Atoi(NthWord(args, 1)) |-> NthWord(args, n + 1)]

HeadInk(line, flag) ==
  SubSeq(line, 1, 2)
    \o (IF flag = MULTICAST_FLAG THEN NthWord(Rest(line, 3), 1) ELSE <<>>)
    \o FlattenSeq(Named(line, flag))

\* The PDUs of a line with text say all of it, once, in order, in pieces that
\* fit: the ink of the line is its command, its arguments and its text; the text
\* is the end of the line, cut into pieces of 1 to TEXT_DATA_CHUNK characters, or
\* is empty and goes out as one empty piece; and all pieces go to the clients the
\* line names.
Accounted(line, pdus) ==
  LET text == FlattenSeq(Texts(pdus))
      flag == pdus[1].flag
  IN /\ IsSuffix(text, line)
     /\ Ink(line) = HeadInk(line, flag) \o Ink(text)
     /\ text # <<>> => ~isspace(text[1])
     /\ \/ Len(pdus) = 1 /\ text = <<>>
        \/ \A i \in DOMAIN pdus : Len(pdus[i].text) \in 1 .. TEXT_DATA_CHUNK
     /\ \A i \in DOMAIN pdus : pdus[i] = [pdus[1] EXCEPT !.text = pdus[i].text]
     /\ flag # BROADCAST_FLAG => pdus[1].dsts = Named(line, flag)

SaysWhatWasTyped(line) ==
  LET pdus == processStdin(line)
  IN /\ pdus # <<>> <=> WellFormed(line)
     /\ pdus # <<>> /\ pdus # sendHandleList => Accounted(line, pdus)
==============================================================================
