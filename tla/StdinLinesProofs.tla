--------------------------- MODULE StdinLinesProofs ---------------------------
(***************************************************************************)
(* No character that is typed is lost, repeated or moved on its way into   *)
(* the lines, for every input, every buffer length and every length of     *)
(* read().                                                                 *)
(*                                                                         *)
(* The invariant is an equation: the characters of the lines, of buffer,   *)
(* of stdio and of the kernel are together what has arrived.  A step moves *)
(* the border between two neighbours (JoinMore, JoinRead, JoinChar,        *)
(* JoinLine).  That a line more adds its characters at the end of all the  *)
(* others (FlattenAppend) is proved by counting up.                        *)
(*                                                                         *)
(* And what processStdin makes of any line is what the line says.  The     *)
(* loops over blanks and words stop where Words begin and end (NextWord):  *)
(* by counting the words in front of a position (Reached) the k-th word    *)
(* that is read is the k-th of the line (DstsRead), and the ink passed so  *)
(* far is that of the words.  The rest is the text, which Chunks cuts into *)
(* pieces that make it up again (ChunksSay).                               *)
(***************************************************************************)
EXTENDS StdinLines, ScanLemmas

------------------------------------------------------------------------------
(* The characters on their way. *)

Alphabet == Chars \cup {NL}

Join(a, b, c, d) == a \o b \o c \o d

Strings(a, b, c, d) ==
  a \in Seq(Alphabet) /\ b \in Seq(Alphabet) /\ c \in Seq(Alphabet) /\ d \in Seq(Alphabet)

LEMMA Associative ==
  ASSUME NEW a \in Seq(Alphabet), NEW b \in Seq(Alphabet), NEW c \in Seq(Alphabet)
  PROVE  /\ Concat(a, b) \in Seq(Alphabet)
         /\ Concat(Concat(a, b), c) = Concat(a, Concat(b, c))
BY ConcatProperties, ConcatAssociative DEF Concat

LEMMA NothingMore ==
  ASSUME NEW a \in Seq(Alphabet)
  PROVE  Concat(a, <<>>) = a /\ Concat(<<>>, a) = a
BY ConcatEmptySeq DEF Concat

LEMMA JoinIs ==
  \A a, b, c, d : Join(a, b, c, d) = Concat(Concat(Concat(a, b), c), d)
BY DEF Join, Concat

\* More arrives.
LEMMA JoinMore ==
  ASSUME NEW a, NEW b, NEW c, NEW d, Strings(a, b, c, d), NEW e \in Seq(Alphabet)
  PROVE  Join(a, b, c, Concat(d, e)) = Concat(Join(a, b, c, d), e)
<1>1. Concat(Concat(a, b), c) \in Seq(Alphabet) /\ d \in Seq(Alphabet)
  BY Associative DEF Strings
<1> QED BY <1>1, Associative, JoinIs

\* stdio reads.
LEMMA JoinRead ==
  ASSUME NEW a, NEW b, NEW c, NEW d, Strings(a, b, c, d)
  PROVE  Join(a, b, c, d) = Join(a, b, <<>>, Concat(c, d))
<1>1. /\ Concat(a, b) \in Seq(Alphabet)
      /\ c \in Seq(Alphabet) /\ d \in Seq(Alphabet)
  BY Associative DEF Strings
<1>2. Concat(Concat(a, b), <<>>) = Concat(a, b)
  BY <1>1, NothingMore
<1> QED BY <1>1, <1>2, Associative, JoinIs

\* A character moves to buffer.
LEMMA JoinChar ==
  ASSUME NEW a, NEW b, NEW c, NEW d, NEW h \in Alphabet, Strings(a, b, c, d)
  PROVE  /\ Join(a, Concat(b, <<h>>), c, d) = Join(a, b, Concat(<<h>>, c), d)
         /\ Strings(a, Concat(b, <<h>>), c, d)
<1> DEFINE one == <<h>>
<1>1. one \in Seq(Alphabet)
  OBVIOUS
<1> HIDE DEF one
<1>2. /\ a \in Seq(Alphabet) /\ b \in Seq(Alphabet)
      /\ c \in Seq(Alphabet) /\ d \in Seq(Alphabet)
  BY DEF Strings
<1>3. Concat(a, b) \in Seq(Alphabet) /\ Concat(b, one) \in Seq(Alphabet)
  BY <1>1, <1>2, Associative
<1>4. Concat(a, Concat(b, one)) = Concat(Concat(a, b), one)
  BY <1>1, <1>2, Associative
<1>5. Concat(Concat(Concat(a, b), one), c) = Concat(Concat(a, b), Concat(one, c))
  BY <1>1, <1>2, <1>3, Associative
<1>6. Join(a, Concat(b, one), c, d) = Join(a, b, Concat(one, c), d)
  BY <1>4, <1>5, JoinIs
<1> QED BY <1>2, <1>3, <1>6 DEF Strings, one

\* A line ends.
LEMMA JoinLine ==
  ASSUME NEW a, NEW b, NEW c, NEW d, Strings(a, b, c, d)
  PROVE  Join(Concat(a, b), <<>>, c, d) = Join(a, b, c, d)
<1>1. Concat(a, b) \in Seq(Alphabet)
  BY Associative DEF Strings
<1>2. Concat(Concat(a, b), <<>>) = Concat(a, b)
  BY <1>1, NothingMore
<1> QED BY <1>2, JoinIs

\* The input need not hold a newline; what is taken may.
LEMMA CharsAreOfAlphabet ==
  /\ \A s \in Seq(Chars) : s \in Seq(Alphabet)
  /\ \A s \in Seq(Chars \ {NL}) : s \in Seq(Alphabet)
BY SeqMonotonic DEF Alphabet

------------------------------------------------------------------------------
(* The characters of the lines. *)

AllTaken(ls) == [i \in DOMAIN ls |-> Taken(ls[i])]

CharsOf(ls) == FlattenSeq(AllTaken(ls))

LEMMA TakenTyped ==
  ASSUME NEW line \in Seq(Chars \ {NL})
  PROVE  Taken(line) \in Seq(Alphabet)
BY CharsAreOfAlphabet, AppendProperties DEF Taken, Alphabet

LEMMA AllTakenTyped ==
  ASSUME NEW ls \in Seq(Seq(Chars \ {NL}))
  PROVE  AllTaken(ls) \in Seq(Seq(Alphabet)) /\ Len(AllTaken(ls)) = Len(ls)
<1>1. Len(ls) \in Nat /\ DOMAIN ls = 1 .. Len(ls)
  OBVIOUS
<1>2. \A i \in 1 .. Len(ls) : Taken(ls[i]) \in Seq(Alphabet)
  BY TakenTyped
<1>3. AllTaken(ls) = [i \in 1 .. Len(ls) |-> Taken(ls[i])]
  BY <1>1 DEF AllTaken
<1> QED BY <1>1, <1>2, <1>3

\* A line more.
LEMMA CharsOfLine ==
  ASSUME NEW ls \in Seq(Seq(Chars \ {NL})), NEW line \in Seq(Chars \ {NL})
  PROVE  /\ CharsOf(ls) \in Seq(Alphabet)
         /\ CharsOf(Append(ls, line)) = Concat(CharsOf(ls), Taken(line))
<1> DEFINE more == Append(ls, line)
           n == Len(ls)
<1>1. /\ more \in Seq(Seq(Chars \ {NL})) /\ n \in Nat /\ Len(more) = n + 1
      /\ more[n + 1] = line /\ \A i \in 1 .. n : more[i] = ls[i]
      /\ DOMAIN more = 1 .. n + 1 /\ DOMAIN ls = 1 .. n
  OBVIOUS
<1> HIDE DEF more, n
<1>2. /\ AllTaken(ls) \in Seq(Seq(Alphabet)) /\ Len(AllTaken(ls)) = n
      /\ AllTaken(more) \in Seq(Seq(Alphabet)) /\ Len(AllTaken(more)) = n + 1
  BY <1>1, AllTakenTyped DEF n
<1>3. /\ \A i \in 1 .. n : AllTaken(more)[i] = AllTaken(ls)[i]
      /\ AllTaken(more)[n + 1] = Taken(line)
  BY <1>1 DEF AllTaken
<1>4. AllTaken(more) = Append(AllTaken(ls), Taken(line))
  <2> DEFINE s == AllTaken(ls)
             t == AllTaken(more)
             e == Taken(line)
  <2>1. e \in Seq(Alphabet)
    BY TakenTyped
  <2> HIDE DEF s, t, e
  <2>2. /\ s \in Seq(Seq(Alphabet)) /\ Len(s) = n
        /\ t \in Seq(Seq(Alphabet)) /\ Len(t) = n + 1
        /\ \A i \in 1 .. n : t[i] = s[i]
        /\ t[n + 1] = e
    BY <1>2, <1>3 DEF s, t, e
  <2>3. t = Append(s, e)
    BY <1>1, <2>1, <2>2
  <2> QED BY <2>3 DEF s, t, e
<1> QED BY <1>2, <1>4, TakenTyped, FlattenAppend DEF CharsOf, Concat, more

------------------------------------------------------------------------------
(* The inductive invariant. *)

AllThere == Join(CharsOf(lines), buffer, stdio, kernel) = SubSeq(typed, 1, arrived)

\* When the client has ended nothing is left, and nothing more arrives.
NothingLeft == at = "ended" => closed /\ stdio = <<>> /\ kernel = <<>>

IInv == TypeOK /\ AllThere /\ NothingLeft

LEMMA AllThereIs ==
  CharsAccounted <=>
    /\ AllThere
    /\ at = "ended" => stdio = <<>> /\ kernel = <<>>
BY DEF CharsAccounted, AllThere, CharsOf, AllTaken, Join

LEMMA TypedIsASequence == TypeOK => typed \in Seq(Chars) /\ Len(typed) \in Nat
BY StdinLinesAssumption DEF TypeOK

LEMMA JoinTyped ==
  TypeOK => Strings(CharsOf(lines), buffer, stdio, kernel)
<1> SUFFICES ASSUME TypeOK PROVE Strings(CharsOf(lines), buffer, stdio, kernel)
  OBVIOUS
<1>1. CharsOf(lines) \in Seq(Alphabet)
  <2>1. <<>> \in Seq(Chars \ {NL})
    OBVIOUS
  <2> QED BY <2>1, CharsOfLine DEF TypeOK
<1> QED BY <1>1, CharsAreOfAlphabet DEF TypeOK, Strings

LEMMA InitHolds == Init => IInv
<1> SUFFICES ASSUME Init PROVE IInv
  OBVIOUS
<1>1. TypeOK
  <2>1. typed \in Seq(Chars) /\ Len(typed) \in Nat
    BY StdinLinesAssumption DEF Init
  <2>2. /\ <<>> \in Seq(Chars) /\ <<>> \in Seq(Chars \ {NL})
        /\ <<>> \in Seq(Seq(Chars \ {NL})) /\ Len(<<>>) = 0
    OBVIOUS
  <2>3. /\ kernel \in Seq(Chars)
        /\ stdio \in Seq(Chars) /\ Len(stdio) <= StdioMax
        /\ buffer \in Seq(Chars \ {NL}) /\ Len(buffer) < LineMax
        /\ lines \in Seq(Seq(Chars \ {NL}))
    BY <2>2, StdinLinesAssumption DEF Init
  <2>4. arrived \in 0 .. Len(typed)
    BY <2>1 DEF Init
  <2> QED BY <2>3, <2>4 DEF Init, TypeOK
<1>2. CharsOf(<<>>) = <<>>
  BY DEF CharsOf, AllTaken, FlattenSeq
<1>3. SubSeq(typed, 1, 0) = <<>>
  BY SubSeqEmpty
<1>4. Join(<<>>, <<>>, <<>>, <<>>) = <<>>
  BY DEF Join
<1>5. AllThere
  BY <1>2, <1>3, <1>4 DEF Init, AllThere
<1> QED BY <1>1, <1>5 DEF Init, IInv, NothingLeft

------------------------------------------------------------------------------
(* The steps. *)

LEMMA ArriveKeeps == IInv /\ Arrive => IInv'
<1> SUFFICES ASSUME IInv, Arrive PROVE IInv'
  OBVIOUS
<1>1. /\ TypeOK /\ AllThere /\ NothingLeft
      /\ ~closed
      /\ UNCHANGED <<typed, terminal, closed, stdio, at, buffer, lines>>
  BY DEF IInv, Arrive
<1>2. PICK n \in arrived + 1 .. Len(typed) :
        /\ arrived' = n
        /\ kernel' = kernel \o SubSeq(typed, arrived + 1, n)
  BY DEF Arrive
<1> DEFINE new == SubSeq(typed, arrived + 1, n)
<1>3. typed \in Seq(Chars) /\ Len(typed) \in Nat /\ arrived \in 0 .. Len(typed)
  BY <1>1, TypedIsASequence DEF TypeOK
<1>4. new \in Seq(Chars)
  <2>1. \A i \in arrived + 1 .. n : typed[i] \in Chars
    BY <1>3
  <2> QED BY <1>3, <2>1, SubSeqProperties
<1>5. SubSeq(typed, 1, arrived) \o new = SubSeq(typed, 1, n)
  <2>1. /\ 1 \in 1 .. Len(typed) + 1 /\ arrived \in 1 - 1 .. Len(typed)
        /\ n \in arrived .. Len(typed)
    BY <1>3
  <2> QED BY <1>3, <2>1, ConcatAdjacentSubSeq
<1> HIDE DEF new
<1>6. kernel' = Concat(kernel, new)
  BY <1>2 DEF Concat, new
<1>7. TypeOK'
  <2>1. kernel' \in Seq(Chars)
    BY <1>1, <1>4, <1>6, ConcatProperties DEF TypeOK, Concat
  <2>2. arrived' \in 0 .. Len(typed)
    BY <1>2, <1>3
  <2> QED BY <1>1, <2>1, <2>2 DEF TypeOK
<1>8. AllThere'
  <2>1. Join(CharsOf(lines), buffer, stdio, kernel')
          = Concat(Join(CharsOf(lines), buffer, stdio, kernel), new)
    BY <1>1, <1>4, <1>6, JoinTyped, JoinMore, CharsAreOfAlphabet
  <2>2. Join(CharsOf(lines), buffer, stdio, kernel') = SubSeq(typed, 1, n)
    BY <1>1, <1>5, <2>1 DEF AllThere, Concat
  <2> QED BY <1>1, <1>2, <2>2 DEF AllThere
<1>9. NothingLeft'
  BY <1>1 DEF NothingLeft
<1> QED BY <1>7, <1>8, <1>9 DEF IInv

\* A read() takes at least nothing and at most what there is and what fits.
LEMMA ReadLengthBounds ==
  ASSUME kernel \in Seq(Chars)
  PROVE  ReadLength \in 0 .. Len(kernel) /\ ReadLength <= StdioMax
<1> DEFINE available == Min({Len(kernel), StdioMax})
           newlines  == {i \in 1 .. available : kernel[i] = NL}
<1>1. Len(kernel) \in Nat /\ StdioMax \in Nat
  BY StdinLinesAssumption
<1>2. /\ available \in {Len(kernel), StdioMax}
      /\ available <= Len(kernel) /\ available <= StdioMax
  <2>1. {Len(kernel), StdioMax} \in SUBSET Nat /\ {Len(kernel), StdioMax} # {}
    BY <1>1
  <2> QED BY <2>1, MinInSet
<1> HIDE DEF available
<1>3. newlines # {} => Min(newlines) \in 1 .. available
  <2>1. newlines \in SUBSET Nat
    BY <1>1, <1>2
  <2>2. newlines # {} => Min(newlines) \in newlines
    <3> HIDE DEF newlines
    <3> QED BY <2>1, MinInSet
  <2> QED BY <2>2
<1>4. ReadLength = IF terminal /\ newlines # {} THEN Min(newlines) ELSE available
  BY DEF ReadLength, available
<1> HIDE DEF newlines
<1> QED BY <1>1, <1>2, <1>3, <1>4

LEMMA RefillKeeps == IInv /\ Refill => IInv'
<1> SUFFICES ASSUME IInv, Refill PROVE IInv'
  OBVIOUS
<1> DEFINE n == ReadLength
<1>1. /\ TypeOK /\ AllThere
      /\ at = "getchar" /\ stdio = <<>>
      /\ stdio' = SubSeq(kernel, 1, n)
      /\ kernel' = SubSeq(kernel, n + 1, Len(kernel))
      /\ UNCHANGED <<typed, terminal, arrived, closed, at, buffer, lines>>
  BY DEF IInv, Refill
<1>2. kernel \in Seq(Chars) /\ Len(kernel) \in Nat
  BY <1>1 DEF TypeOK
<1>3. n \in 0 .. Len(kernel) /\ n <= StdioMax
  BY <1>2, ReadLengthBounds
<1> HIDE DEF n
<1>4. /\ stdio' \in Seq(Chars) /\ Len(stdio') = n
      /\ kernel' \in Seq(Chars)
  <2>1. \A i \in 1 .. Len(kernel) : kernel[i] \in Chars
    BY <1>2
  <2>2. /\ \A i \in 1 .. n : kernel[i] \in Chars
        /\ \A i \in n + 1 .. Len(kernel) : kernel[i] \in Chars
    BY <1>3, <2>1
  <2> QED BY <1>1, <1>2, <1>3, <2>2, SubSeqProperties
<1>5. kernel = Concat(stdio', kernel')
  <2>1. /\ 1 \in 1 .. Len(kernel) + 1 /\ n \in 1 - 1 .. Len(kernel)
        /\ Len(kernel) \in n .. Len(kernel)
    BY <1>2, <1>3
  <2>2. SubSeq(kernel, 1, n) \o SubSeq(kernel, n + 1, Len(kernel))
          = SubSeq(kernel, 1, Len(kernel))
    BY <1>2, <2>1, ConcatAdjacentSubSeq
  <2>3. SubSeq(kernel, 1, Len(kernel)) = kernel
    BY <1>2, SubSeqFull
  <2>4. Concat(SubSeq(kernel, 1, n), SubSeq(kernel, n + 1, Len(kernel))) = kernel
    BY <2>2, <2>3 DEF Concat
  <2> QED BY <1>1, <2>4
<1>6. TypeOK'
  BY <1>1, <1>3, <1>4 DEF TypeOK
<1>7. AllThere'
  <2>1. Strings(CharsOf(lines), buffer, stdio', kernel')
    BY <1>1, <1>4, JoinTyped, CharsAreOfAlphabet DEF Strings
  <2>2. Join(CharsOf(lines), buffer, stdio', kernel')
          = Join(CharsOf(lines), buffer, <<>>, Concat(stdio', kernel'))
    BY <2>1, JoinRead
  <2>3. Join(CharsOf(lines), buffer, stdio', kernel')
          = Join(CharsOf(lines), buffer, stdio, kernel)
    BY <1>1, <1>5, <2>2
  <2> QED BY <1>1, <2>3 DEF AllThere
<1>8. NothingLeft'
  BY <1>1 DEF NothingLeft
<1> QED BY <1>6, <1>7, <1>8 DEF IInv

LEMMA GetcharKeeps == IInv /\ Getchar => IInv'
<1> SUFFICES ASSUME IInv, Getchar PROVE IInv'
  OBVIOUS
<1> DEFINE h == Head(stdio)
           input == Stored(h)
<1>1. /\ TypeOK /\ AllThere
      /\ at = "getchar" /\ stdio # <<>> /\ stdio' = Tail(stdio)
      /\ UNCHANGED <<typed, terminal, arrived, closed, kernel>>
      /\ IF LoopEnds(h, input)
         THEN at' = "poll" /\ buffer' = <<>> /\ lines' = Append(lines, input)
         ELSE buffer' = input /\ UNCHANGED <<at, lines>>
  BY DEF IInv, Getchar
<1>2. h \in Chars /\ stdio' \in Seq(Chars) /\ Len(stdio') = Len(stdio) - 1
      /\ Len(stdio) \in Nat
  BY <1>1, HeadTailProperties DEF TypeOK
<1>3. stdio = Concat(<<h>>, stdio')
  BY <1>1 DEF TypeOK, Concat
<1> HIDE DEF h
<1>4. /\ buffer \in Seq(Chars \ {NL}) /\ Len(buffer) \in Nat /\ Len(buffer) < LineMax
      /\ LineMax \in Nat \ {0}
      /\ lines \in Seq(Seq(Chars \ {NL}))
  BY <1>1, StdinLinesAssumption DEF TypeOK
<1>5. /\ Append(buffer, h) = Concat(buffer, <<h>>)
      /\ Len(Append(buffer, h)) = Len(buffer) + 1
      /\ h # NL => Append(buffer, h) \in Seq(Chars \ {NL})
  BY <1>2, <1>4 DEF Concat
<1> DEFINE taken == Append(buffer, h)
<1> HIDE DEF taken
<1>6. /\ Strings(CharsOf(lines), buffer, stdio', kernel)
      /\ Strings(CharsOf(lines), taken, stdio', kernel)
      /\ Join(CharsOf(lines), taken, stdio', kernel) = SubSeq(typed, 1, arrived)
  <2>1. Strings(CharsOf(lines), buffer, stdio', kernel)
    BY <1>1, <1>2, JoinTyped, CharsAreOfAlphabet DEF Strings
  <2>2. h \in Alphabet
    BY <1>2 DEF Alphabet
  <2>3. /\ Strings(CharsOf(lines), taken, stdio', kernel)
        /\ Join(CharsOf(lines), taken, stdio', kernel)
             = Join(CharsOf(lines), buffer, Concat(<<h>>, stdio'), kernel)
    BY <1>5, <2>1, <2>2, JoinChar DEF taken
  <2> QED BY <1>1, <1>3, <2>1, <2>3 DEF AllThere
<1>7. CASE LoopEnds(h, input)
  <2>1. at' = "poll" /\ buffer' = <<>> /\ lines' = Append(lines, input)
    BY <1>1, <1>7
  <2>2. input \in Seq(Chars \ {NL}) /\ Taken(input) = taken
    <3>1. CASE h = NL
      BY <1>4, <3>1 DEF Stored, Taken, taken
    <3>2. CASE h # NL
      BY <1>4, <1>5, <1>7, <3>2 DEF Stored, LoopEnds, Taken, taken
    <3> QED BY <3>1, <3>2
  <2> HIDE DEF input
  <2>3. CharsOf(lines') = Concat(CharsOf(lines), taken)
    BY <1>4, <2>1, <2>2, CharsOfLine
  <2>4. Join(CharsOf(lines'), buffer', stdio', kernel') = SubSeq(typed', 1, arrived')
    <3>1. Join(Concat(CharsOf(lines), taken), <<>>, stdio', kernel)
            = Join(CharsOf(lines), taken, stdio', kernel)
      BY <1>6, JoinLine
    <3> QED BY <1>1, <1>6, <2>1, <2>3, <3>1
  <2>5. lines' \in Seq(Seq(Chars \ {NL})) /\ buffer' \in Seq(Chars \ {NL}) /\ Len(buffer') = 0
    BY <1>4, <2>1, <2>2
  <2> QED BY <1>1, <1>2, <1>4, <2>1, <2>4, <2>5, StdinLinesAssumption
          DEF IInv, TypeOK, AllThere, NothingLeft
<1>8. CASE ~LoopEnds(h, input)
  <2>1. buffer' = input /\ at' = at /\ lines' = lines
    BY <1>1, <1>8
  <2>2. h # NL /\ input = taken /\ Len(input) # LineMax
    BY <1>8 DEF LoopEnds, Stored, taken
  <2>3. buffer' = taken /\ taken \in Seq(Chars \ {NL}) /\ Len(taken) < LineMax
    BY <1>4, <1>5, <2>1, <2>2 DEF taken
  <2>4. AllThere'
    BY <1>1, <1>6, <2>1, <2>3 DEF AllThere
  <2> QED BY <1>1, <1>2, <2>1, <2>3, <2>4, StdinLinesAssumption
          DEF IInv, TypeOK, NothingLeft
<1> QED BY <1>7, <1>8

LEMMA OthersKeep == IInv /\ (Close \/ PollReturns \/ GetcharEof) => IInv'
BY DEF IInv, TypeOK, AllThere, NothingLeft, Close, PollReturns, GetcharEof

------------------------------------------------------------------------------
(* Ink. *)

InkOf(char) == IF isspace(char) THEN <<>> ELSE <<char>>

Inks(line) == [i \in DOMAIN line |-> InkOf(line[i])]

\* The ink of a line, character by character.
LEMMA InkIs == \A line : Ink(line) = FlattenSeq(Inks(line))
BY DEF Ink, Inks, InkOf

\* An empty line has none.
LEMMA InkNone == Ink(<<>>) = <<>>
<1>1. Inks(<<>>) = <<>>
  BY DEF Inks
<1> QED BY <1>1, InkIs, FlattenNone

\* A character more adds its ink at the end.
LEMMA InkAppend ==
  ASSUME NEW T, NEW a \in Seq(T), NEW c \in T
  PROVE  /\ Ink(a) \in Seq(T)
         /\ InkOf(c) \in Seq(T)
         /\ Ink(Append(a, c)) = Concat(Ink(a), InkOf(c))
<1> DEFINE b == Append(a, c)
           n == Len(a)
<1>1. /\ n \in Nat /\ DOMAIN a = 1 .. n /\ DOMAIN b = 1 .. n + 1
      /\ \A i \in 1 .. n : b[i] = a[i] /\ a[i] \in T
      /\ b[n + 1] = c
  OBVIOUS
<1>2. \A d \in T : InkOf(d) \in Seq(T)
  BY DEF InkOf
<1> HIDE DEF b, n
<1>3. /\ Inks(a) \in Seq(Seq(T)) /\ Len(Inks(a)) = n
      /\ \A i \in 1 .. n : Inks(a)[i] = InkOf(a[i])
  <2>1. Inks(a) = [i \in 1 .. n |-> InkOf(a[i])]
    BY <1>1 DEF Inks
  <2>2. \A i \in 1 .. n : InkOf(a[i]) \in Seq(T)
    BY <1>1, <1>2
  <2> QED BY <1>1, <2>1, <2>2
<1>4. Inks(b) = [i \in 1 .. n + 1 |-> InkOf(b[i])]
  BY <1>1 DEF Inks
<1>5. Inks(b) = Append(Inks(a), InkOf(c))
  <2> DEFINE s == Inks(a)
             e == InkOf(c)
             t == Inks(b)
  <2>1. /\ s \in Seq(Seq(T)) /\ Len(s) = n /\ e \in Seq(T)
        /\ t \in Seq(Seq(T)) /\ Len(t) = n + 1
        /\ \A i \in 1 .. n : t[i] = s[i]
        /\ t[n + 1] = e
    <3>1. \A i \in 1 .. n + 1 : InkOf(b[i]) \in Seq(T)
      <4>1. \A i \in 1 .. n + 1 : i \in 1 .. n \/ i = n + 1
        BY <1>1
      <4> QED BY <1>1, <1>2, <4>1
    <3>2. t \in Seq(Seq(T)) /\ Len(t) = n + 1
      BY <1>1, <1>4, <3>1
    <3> QED BY <1>1, <1>2, <1>3, <1>4, <3>2
  <2> HIDE DEF s, e, t
  <2>2. t = Append(s, e)
    BY <1>1, <2>1
  <2> QED BY <2>2 DEF s, e, t
<1> QED BY <1>2, <1>3, <1>5, InkIs, FlattenAppend DEF Concat, b

\* The ink of two parts is that of the first, and then that of the second.
LEMMA InkConcat ==
  ASSUME NEW T, NEW a \in Seq(T)
  PROVE  \A b \in Seq(T) : Ink(Concat(a, b)) = Concat(Ink(a), Ink(b)) /\ Ink(b) \in Seq(T)
<1> DEFINE P == {b \in Seq(T) : Ink(Concat(a, b)) = Concat(Ink(a), Ink(b))
                                  /\ Ink(b) \in Seq(T)}
<1>1. \A b \in Seq(T) : Ink(b) \in Seq(T)
  <2> DEFINE Q == {b \in Seq(T) : Ink(b) \in Seq(T)}
  <2>1. <<>> \in Q
    <3>1. <<>> \in Seq(T)
      OBVIOUS
    <3> QED BY <3>1, InkNone
  <2>2. ASSUME NEW b \in Seq(T), NEW c \in T, b \in Q
        PROVE  Append(b, c) \in Q
    <3>1. Ink(b) \in Seq(T) /\ InkOf(c) \in Seq(T) /\ Ink(Append(b, c)) = Concat(Ink(b), InkOf(c))
      BY InkAppend
    <3>2. Ink(Append(b, c)) \in Seq(T)
      BY <3>1, ConcatTyped
    <3> QED BY <3>2
  <2> HIDE DEF Q
  <2>3. \A b \in Seq(T) : b \in Q
    BY <2>1, <2>2, AppendReaches
  <2> QED BY <2>3 DEF Q
<1>2. <<>> \in P
  <2>1. /\ <<>> \in Seq(T)
        /\ Concat(a, <<>>) = a /\ Concat(Ink(a), <<>>) = Ink(a)
    BY <1>1, ConcatNone
  <2> QED BY <1>1, <2>1, InkNone
<1>3. ASSUME NEW b \in Seq(T), NEW c \in T, b \in P
      PROVE  Append(b, c) \in P
  <2> DEFINE ab == Concat(a, b)
             one == <<c>>
  <2>1. ab \in Seq(T) /\ one \in Seq(T) /\ Append(b, c) = Concat(b, one)
        /\ Append(ab, c) = Concat(ab, one) /\ Append(b, c) \in Seq(T)
    BY ConcatTyped, ConcatOne
  <2> HIDE DEF ab, one
  <2>2. Concat(ab, one) = Concat(a, Concat(b, one))
    BY <2>1, ConcatAssoc DEF ab
  <2>3. /\ Ink(Append(ab, c)) = Concat(Ink(ab), InkOf(c))
        /\ Ink(Append(b, c)) = Concat(Ink(b), InkOf(c))
        /\ InkOf(c) \in Seq(T)
    BY <2>1, InkAppend
  <2>4. Ink(ab) = Concat(Ink(a), Ink(b))
    BY <1>3 DEF ab
  <2>5. Concat(Concat(Ink(a), Ink(b)), InkOf(c)) = Concat(Ink(a), Concat(Ink(b), InkOf(c)))
    BY <1>1, <2>3, ConcatAssoc
  <2>6. Ink(Concat(a, Append(b, c))) = Concat(Ink(a), Ink(Append(b, c)))
    BY <2>1, <2>2, <2>3, <2>4, <2>5
  <2> QED BY <1>1, <2>1, <2>6
<1> HIDE DEF P
<1>4. \A b \in Seq(T) : b \in P
  BY <1>2, <1>3, AppendReaches
<1> QED BY <1>4 DEF P

\* Blanks leave nothing, and the rest stays.
LEMMA InkOfBlanks ==
  ASSUME NEW T
  PROVE  \A a \in Seq(T) : (\A i \in 1 .. Len(a) : isspace(a[i])) => Ink(a) = <<>>
<1> DEFINE P == {a \in Seq(T) : (\A i \in 1 .. Len(a) : isspace(a[i])) => Ink(a) = <<>>}
<1>1. <<>> \in P
  BY InkNone
<1>2. ASSUME NEW a \in Seq(T), NEW c \in T, a \in P
      PROVE  Append(a, c) \in P
  <2>0. Append(a, c) \in Seq(T)
    OBVIOUS
  <2>1. SUFFICES ASSUME \A i \in 1 .. Len(Append(a, c)) : isspace(Append(a, c)[i])
                 PROVE  Ink(Append(a, c)) = <<>>
    BY <2>0
  <2>2. isspace(c) /\ \A i \in 1 .. Len(a) : isspace(a[i])
    <3> DEFINE b == Append(a, c)
    <3>1. /\ Len(a) \in Nat /\ Len(b) = Len(a) + 1
          /\ b[Len(a) + 1] = c /\ \A i \in 1 .. Len(a) : b[i] = a[i]
      OBVIOUS
    <3>2. \A i \in 1 .. Len(b) : isspace(b[i])
      BY <2>1
    <3> HIDE DEF b
    <3>3. Len(a) + 1 \in 1 .. Len(b) /\ \A i \in 1 .. Len(a) : i \in 1 .. Len(b)
      BY <3>1
    <3> QED BY <3>1, <3>2, <3>3
  <2>3. Ink(a) = <<>> /\ InkOf(c) = <<>> /\ <<>> \in Seq(T)
    BY <1>2, <2>2 DEF InkOf
  <2> QED BY <2>3, InkAppend, ConcatNone
<1> HIDE DEF P
<1>3. \A a \in Seq(T) : a \in P
  BY <1>1, <1>2, AppendReaches
<1> QED BY <1>3 DEF P

\* A word is all ink.
LEMMA InkOfInk ==
  ASSUME NEW T
  PROVE  \A a \in Seq(T) : (\A i \in 1 .. Len(a) : ~isspace(a[i])) => Ink(a) = a
<1> DEFINE P == {a \in Seq(T) : (\A i \in 1 .. Len(a) : ~isspace(a[i])) => Ink(a) = a}
<1>1. <<>> \in P
  BY InkNone
<1>2. ASSUME NEW a \in Seq(T), NEW c \in T, a \in P
      PROVE  Append(a, c) \in P
  <2>0. Append(a, c) \in Seq(T)
    OBVIOUS
  <2>1. SUFFICES ASSUME \A i \in 1 .. Len(Append(a, c)) : ~isspace(Append(a, c)[i])
                 PROVE  Ink(Append(a, c)) = Append(a, c)
    BY <2>0
  <2>2. ~isspace(c) /\ \A i \in 1 .. Len(a) : ~isspace(a[i])
    <3> DEFINE b == Append(a, c)
    <3>1. /\ Len(a) \in Nat /\ Len(b) = Len(a) + 1
          /\ b[Len(a) + 1] = c /\ \A i \in 1 .. Len(a) : b[i] = a[i]
      OBVIOUS
    <3>2. \A i \in 1 .. Len(b) : ~isspace(b[i])
      BY <2>1
    <3> HIDE DEF b
    <3>3. Len(a) + 1 \in 1 .. Len(b) /\ \A i \in 1 .. Len(a) : i \in 1 .. Len(b)
      BY <3>1
    <3> QED BY <3>1, <3>2, <3>3
  <2>3. Ink(a) = a /\ InkOf(c) = <<c>>
    BY <1>2, <2>2 DEF InkOf
  <2> QED BY <2>3, InkAppend, ConcatOne
<1> HIDE DEF P
<1>3. \A a \in Seq(T) : a \in P
  BY <1>1, <1>2, AppendReaches
<1> QED BY <1>3 DEF P

------------------------------------------------------------------------------
(* The loops over isspace and !isspace. *)

SkipsTo(a, p, f) ==
  /\ f \in p .. Len(a) + 1
  /\ f = Len(a) + 1 \/ ~isspace(a[f])
  /\ \A i \in p .. f - 1 : isspace(a[i])

EndsAt(a, f, e) ==
  /\ e \in f .. Len(a) + 1
  /\ e = Len(a) + 1 \/ isspace(a[e])
  /\ \A i \in f .. e - 1 : ~isspace(a[i])

\* The loop over isspace stops at the first character of ink.
LEMMA SkipSpaceIs ==
  ASSUME NEW T, NEW a \in Seq(T), NEW p \in 1 .. Len(a) + 1
  PROVE  SkipsTo(a, p, SkipSpace(a, p))
<1> DEFINE S == {i \in p .. Len(a) + 1 : AtEnd(a, i) \/ ~isspace(a[i])}
           f == Min(S)
<1>1. Len(a) \in Nat
  OBVIOUS
<1>2. S \in SUBSET Nat /\ Len(a) + 1 \in S
  BY <1>1 DEF AtEnd
<1>3. f \in S /\ \A x \in S : f <= x
  <2> HIDE DEF S
  <2> QED BY <1>2, MinInSet
<1>4. SkipSpace(a, p) = f
  BY DEF SkipSpace
<1> HIDE DEF f
<1> QED BY <1>1, <1>3, <1>4 DEF SkipsTo, AtEnd

\* The loop over !isspace stops at the first blank.
LEMMA WordEndIs ==
  ASSUME NEW T, NEW a \in Seq(T), NEW p \in 1 .. Len(a) + 1
  PROVE  EndsAt(a, p, WordEnd(a, p))
<1> DEFINE S == {i \in p .. Len(a) + 1 : AtEnd(a, i) \/ isspace(a[i])}
           e == Min(S)
<1>1. Len(a) \in Nat
  OBVIOUS
<1>2. S \in SUBSET Nat /\ Len(a) + 1 \in S
  BY <1>1 DEF AtEnd
<1>3. e \in S /\ \A x \in S : e <= x
  <2> HIDE DEF S
  <2> QED BY <1>2, MinInSet
<1>4. WordEnd(a, p) = e
  BY DEF WordEnd
<1> HIDE DEF e
<1> QED BY <1>1, <1>3, <1>4 DEF EndsAt, AtEnd

------------------------------------------------------------------------------
(* Words. *)

\* A word neither begins before p and ends behind it.
Boundary(a, p) == p \in 1 .. Len(a) + 1 /\ (p = 1 \/ p = Len(a) + 1 \/ isspace(a[p]))

Before(a, p) == {v \in Words(a) : v[1] < p}

IsWord(a, i, j) ==
  /\ i \in 1 .. Len(a) /\ j \in 1 .. Len(a) /\ i <= j
  /\ \A k \in i .. j : ~isspace(a[k])
  /\ i = 1 \/ isspace(a[i - 1])
  /\ j = Len(a) \/ isspace(a[j + 1])

\* The words of a line are its longest stretches of ink, and nothing else is.
LEMMA WordsAre ==
  ASSUME NEW T, NEW a \in Seq(T)
  PROVE  /\ \A i, j : <<i, j>> \in Words(a) <=> IsWord(a, i, j)
         /\ \A w \in Words(a) : w = <<w[1], w[2]>> /\ IsWord(a, w[1], w[2])
<1>1. DOMAIN a = 1 .. Len(a)
  OBVIOUS
<1>2. \A w \in Words(a) : w = <<w[1], w[2]>> /\ IsWord(a, w[1], w[2])
  BY <1>1 DEF Words, IsWord
<1>3. ASSUME NEW i, NEW j, IsWord(a, i, j)
      PROVE  <<i, j>> \in Words(a)
  <2> DEFINE w == <<i, j>>
  <2>1. w[1] = i /\ w[2] = j
    OBVIOUS
  <2>2. w \in {<<x, y>> : x, y \in DOMAIN a}
    <3>1. i \in DOMAIN a /\ j \in DOMAIN a
      BY <1>1, <1>3 DEF IsWord
    <3> QED BY <3>1
  <2> HIDE DEF w
  <2>3. w \in Words(a)
    BY <1>3, <2>1, <2>2 DEF Words, IsWord
  <2> QED BY <2>3 DEF w
<1>4. ASSUME NEW i, NEW j, <<i, j>> \in Words(a)
      PROVE  IsWord(a, i, j)
  <2>1. PICK w \in Words(a) : w = <<i, j>>
    BY <1>4
  <2>2. w[1] = i /\ w[2] = j
    BY <2>1
  <2> QED BY <1>2, <2>2
<1> QED BY <1>2, <1>3, <1>4

\* So words can be counted.
LEMMA WordsFinite ==
  ASSUME NEW T, NEW a \in Seq(T)
  PROVE  /\ IsFiniteSet(Words(a)) /\ Cardinality(Words(a)) \in Nat
         /\ \A p : IsFiniteSet(Before(a, p)) /\ Cardinality(Before(a, p)) \in Nat
<1> DEFINE n == 1 .. Len(a)
<1>1. IsFiniteSet(n)
  BY FS_Interval
<1>2. IsFiniteSet(n \X n)
  <2> HIDE DEF n
  <2> QED BY <1>1, FS_Product
<1>3. Words(a) \in SUBSET (n \X n)
  BY DEF Words
<1>4. IsFiniteSet(Words(a))
  <2> HIDE DEF n
  <2> QED BY <1>2, <1>3, FS_Subset
<1>5. \A p : Before(a, p) \in SUBSET Words(a)
  BY DEF Before
<1>6. \A p : IsFiniteSet(Before(a, p))
  BY <1>4, <1>5, FS_Subset
<1> QED BY <1>4, <1>6, FS_CardinalityType

\* Two words do not overlap.
LEMMA WordsApart ==
  ASSUME NEW T, NEW a \in Seq(T), NEW i, NEW j, NEW k, IsWord(a, i, j), IsWord(a, i, k)
  PROVE  j = k
<1>1. Len(a) \in Nat
  OBVIOUS
<1>2. ~(j < k)
  <2>1. SUFFICES ASSUME j < k PROVE FALSE
    OBVIOUS
  <2>2. j + 1 \in i .. k /\ j # Len(a)
    BY <1>1, <2>1 DEF IsWord
  <2> QED BY <2>2 DEF IsWord
<1>3. ~(k < j)
  <2>1. SUFFICES ASSUME k < j PROVE FALSE
    OBVIOUS
  <2>2. k + 1 \in i .. j /\ k # Len(a)
    BY <1>1, <2>1 DEF IsWord
  <2> QED BY <2>2 DEF IsWord
<1> QED BY <1>1, <1>2, <1>3 DEF IsWord

\* The n-th word is the one with n - 1 words in front of it.
LEMMA NthWordIs ==
  ASSUME NEW T, NEW a \in Seq(T), NEW w \in Words(a), NEW n,
         Cardinality({v \in Words(a) : v[1] <= w[1]}) = n
  PROVE  NthWord(a, n) = SubSeq(a, w[1], w[2])
<1> DEFINE UpTo(x) == {v \in Words(a) : v[1] <= x[1]}
<1>1. \A x \in Words(a) : x[1] \in Nat /\ x = <<x[1], x[2]>> /\ IsWord(a, x[1], x[2])
  BY WordsAre DEF IsWord
<1>2. \A x \in Words(a) : IsFiniteSet(UpTo(x))
  <2>1. \A x : UpTo(x) \in SUBSET Words(a)
    OBVIOUS
  <2> HIDE DEF UpTo
  <2> QED BY <2>1, WordsFinite, FS_Subset
<1>3. ASSUME NEW x \in Words(a), NEW y \in Words(a), x[1] < y[1]
      PROVE  Cardinality(UpTo(x)) # Cardinality(UpTo(y))
  <2>1. UpTo(x) \in SUBSET UpTo(y) /\ y \in UpTo(y) /\ y \notin UpTo(x)
    BY <1>1, <1>3
  <2> HIDE DEF UpTo
  <2> QED BY <1>2, <2>1, FS_Subset
<1>4. ASSUME NEW x \in Words(a), Cardinality(UpTo(x)) = Cardinality(UpTo(w))
      PROVE  x = w
  <2>1. ~(x[1] < w[1]) /\ ~(w[1] < x[1])
    <3> HIDE DEF UpTo
    <3> QED BY <1>3, <1>4
  <2>2. x[1] = w[1]
    BY <1>1, <2>1
  <2>3. x[2] = w[2]
    BY <1>1, <2>2, WordsApart
  <2> QED BY <1>1, <2>2, <2>3
<1> DEFINE c == CHOOSE x \in Words(a) : Cardinality({v \in Words(a) : v[1] <= x[1]}) = n
<1>5. c = w
  <2>1. c \in Words(a) /\ Cardinality(UpTo(c)) = n
    OBVIOUS
  <2> HIDE DEF c
  <2> QED BY <1>4, <2>1
<1>6. NthWord(a, n) = SubSeq(a, c[1], c[2])
  BY DEF NthWord
<1> HIDE DEF c
<1> QED BY <1>5, <1>6

\* A word that the two loops find is the next one.
LEMMA WordFound ==
  ASSUME NEW T, NEW a \in Seq(T), NEW p, NEW f, NEW e,
         Boundary(a, p), SkipsTo(a, p, f), EndsAt(a, f, e), f <= Len(a)
  PROVE  /\ Boundary(a, e) /\ f < e
         /\ <<f, e - 1>> \in Words(a) /\ <<f, e - 1>> \notin Before(a, p)
         /\ Before(a, e) = Before(a, p) \cup {<<f, e - 1>>}
         /\ Before(a, e) = {v \in Words(a) : v[1] <= f}
<1>1. /\ Len(a) \in Nat /\ p \in 1 .. Len(a) + 1 /\ f \in p .. Len(a)
      /\ e \in f .. Len(a) + 1 /\ ~isspace(a[f])
      /\ \A i \in p .. f - 1 : isspace(a[i])
      /\ \A i \in f .. e - 1 : ~isspace(a[i])
      /\ e = Len(a) + 1 \/ isspace(a[e])
  BY DEF Boundary, SkipsTo, EndsAt
<1>2. f < e
  BY <1>1
<1>3. Boundary(a, e)
  BY <1>1 DEF Boundary
<1>4. f = 1 \/ isspace(a[f - 1])
  <2>1. CASE f = p
    BY <1>1, <2>1 DEF Boundary
  <2>2. CASE f # p
    BY <1>1, <2>2
  <2> QED BY <2>1, <2>2
<1>5. IsWord(a, f, e - 1)
  <2>1. f \in 1 .. Len(a) /\ e - 1 \in 1 .. Len(a) /\ f <= e - 1
    BY <1>1, <1>2
  <2>2. e - 1 = Len(a) \/ isspace(a[e - 1 + 1])
    BY <1>1
  <2> QED BY <1>1, <1>4, <2>1, <2>2 DEF IsWord
<1>6. <<f, e - 1>> \in Words(a)
  BY <1>5, WordsAre
<1>7. ASSUME NEW v \in Words(a), v[1] < e, ~(v[1] < p)
      PROVE  v = <<f, e - 1>>
  <2>1. IsWord(a, v[1], v[2]) /\ v = <<v[1], v[2]>>
    BY WordsAre
  <2>2. v[1] \in 1 .. Len(a) /\ ~isspace(a[v[1]]) /\ (v[1] = 1 \/ isspace(a[v[1] - 1]))
    BY <1>1, <2>1 DEF IsWord
  <2>3. ~(v[1] < f)
    BY <1>1, <1>7, <2>2
  <2>4. ~(v[1] > f)
    BY <1>1, <1>7, <2>2
  <2>5. v[1] = f
    BY <1>1, <2>2, <2>3, <2>4
  <2>6. v[2] = e - 1
    BY <1>5, <2>1, <2>5, WordsApart
  <2> QED BY <2>1, <2>5, <2>6
<1> DEFINE w == <<f, e - 1>>
<1>8. w[1] = f /\ w \in Words(a)
  BY <1>6
<1> HIDE DEF w
<1>9. \A v \in Words(a) : v[1] \in Nat
  BY WordsAre DEF IsWord
<1>10. \A v \in Words(a) : v[1] < e /\ ~(v[1] < p) => v = w
  BY <1>7 DEF w
<1>11. w \notin Before(a, p)
  BY <1>1, <1>8 DEF Before
<1>12. Before(a, e) = Before(a, p) \cup {w}
  <2>1. \A v \in Words(a) : v[1] < p => v[1] < e
    BY <1>1, <1>2, <1>9
  <2> QED BY <1>2, <1>8, <1>10, <2>1 DEF Before
<1>13. Before(a, e) = {v \in Words(a) : v[1] <= f}
  <2>1. \A v \in Words(a) : v[1] <= f => v[1] < e
    BY <1>1, <1>2, <1>9
  <2>2. \A v \in Words(a) : v[1] < p => v[1] <= f
    BY <1>1, <1>9
  <2>3. \A v \in Words(a) : v[1] < e => v[1] <= f
    BY <1>1, <1>8, <1>10, <2>2
  <2> QED BY <2>1, <2>3 DEF Before
<1> QED BY <1>2, <1>3, <1>6, <1>11, <1>12, <1>13 DEF w

\* Behind the last word there is none.
LEMMA WordsEnd ==
  ASSUME NEW T, NEW a \in Seq(T), NEW p \in 1 .. Len(a) + 1, SkipsTo(a, p, Len(a) + 1)
  PROVE  Words(a) = Before(a, p)
<1>1. ASSUME NEW v \in Words(a)
      PROVE  v[1] < p
  <2>1. v[1] \in 1 .. Len(a) /\ ~isspace(a[v[1]])
    <3>1. IsWord(a, v[1], v[2])
      BY WordsAre
    <3>2. v[1] \in v[1] .. v[2]
      BY <3>1 DEF IsWord
    <3> QED BY <3>1, <3>2 DEF IsWord
  <2> QED BY <2>1 DEF SkipsTo
<1> QED BY <1>1 DEF Before

------------------------------------------------------------------------------
(* From word to word. *)

\* p is behind the k-th word, or behind a line with less than k.
Reached(a, p, k) ==
  /\ Boundary(a, p)
  /\ \/ Cardinality(Before(a, p)) = k
     \/ p = Len(a) + 1 /\ Cardinality(Words(a)) < k

\* A scan starts with no word behind it.
LEMMA ReachedFirst ==
  ASSUME NEW T, NEW a \in Seq(T)
  PROVE  Reached(a, 1, 0)
<1>1. 1 \in 1 .. Len(a) + 1
  OBVIOUS
<1>2. Before(a, 1) = {}
  BY WordsAre DEF Before, IsWord
<1> QED BY <1>1, <1>2, FS_EmptySet DEF Reached, Boundary

\* After k words the two loops find the next one, or the line has no more.
LEMMA NextWord ==
  ASSUME NEW T, NEW a \in Seq(T), NEW p, NEW f, NEW e, NEW k \in Nat,
         Reached(a, p, k), SkipsTo(a, p, f), EndsAt(a, f, e)
  PROVE  /\ Reached(a, e, k + 1)
         /\ IF f <= Len(a)
            THEN /\ f < e
                 /\ k + 1 <= Cardinality(Words(a))
                 /\ NthWord(a, k + 1) = SubSeq(a, f, e - 1)
            ELSE f = Len(a) + 1 /\ e = f /\ Cardinality(Words(a)) < k + 1
<1>1. /\ Len(a) \in Nat /\ p \in 1 .. Len(a) + 1
      /\ f \in p .. Len(a) + 1 /\ e \in f .. Len(a) + 1
  BY DEF Reached, Boundary, SkipsTo, EndsAt
<1>2. /\ Cardinality(Words(a)) \in Nat
      /\ \A x : IsFiniteSet(Before(a, x)) /\ Cardinality(Before(a, x)) \in Nat
  BY WordsFinite
<1>3. CASE f <= Len(a)
  <2> DEFINE w == <<f, e - 1>>
  <2>1. /\ Boundary(a, e) /\ f < e
        /\ w \in Words(a) /\ w \notin Before(a, p)
        /\ Before(a, e) = Before(a, p) \cup {w}
        /\ Before(a, e) = {v \in Words(a) : v[1] <= f}
    BY <1>3, WordFound DEF Reached
  <2>2. w[1] = f /\ w[2] = e - 1
    OBVIOUS
  <2> HIDE DEF w
  <2>3. Cardinality(Before(a, p)) = k
    BY <1>1, <1>3 DEF Reached
  <2>4. Cardinality(Before(a, e)) = k + 1
    BY <1>2, <2>1, <2>3, FS_AddElement
  <2>5. Cardinality(Before(a, e)) <= Cardinality(Words(a))
    <3>1. Before(a, e) \in SUBSET Words(a)
      BY DEF Before
    <3> QED BY <3>1, WordsFinite, FS_Subset
  <2>6. NthWord(a, k + 1) = SubSeq(a, f, e - 1)
    <3>1. Cardinality({v \in Words(a) : v[1] <= w[1]}) = k + 1
      BY <2>1, <2>2, <2>4
    <3> QED BY <2>1, <2>2, <3>1, NthWordIs
  <2> QED BY <1>2, <1>3, <2>1, <2>4, <2>5, <2>6 DEF Reached
<1>4. CASE ~(f <= Len(a))
  <2>1. f = Len(a) + 1 /\ e = Len(a) + 1
    BY <1>1, <1>4
  <2>2. Words(a) = Before(a, p)
    BY <1>1, <2>1, WordsEnd
  <2>3. Cardinality(Words(a)) < k + 1
    BY <1>2, <2>2 DEF Reached
  <2>4. Boundary(a, e)
    BY <1>1, <2>1 DEF Boundary
  <2> QED BY <1>4, <2>1, <2>3, <2>4 DEF Reached
<1> QED BY <1>3, <1>4

\* The rest of a line goes on behind any part of it.
LEMMA RestSplits ==
  ASSUME NEW T, NEW a \in Seq(T), NEW p \in 1 .. Len(a) + 1, NEW q \in p .. Len(a) + 1
  PROVE  /\ Rest(a, p) \in Seq(T)
         /\ SubSeq(a, p, q - 1) \in Seq(T)
         /\ Rest(a, p) = Concat(SubSeq(a, p, q - 1), Rest(a, q))
<1>1. Len(a) \in Nat /\ \A i \in 1 .. Len(a) : a[i] \in T
  OBVIOUS
<1>2. /\ \A i \in p .. Len(a) : a[i] \in T
      /\ \A i \in p .. q - 1 : a[i] \in T
  BY <1>1
<1>3. SubSeq(a, p, Len(a)) \in Seq(T) /\ SubSeq(a, p, q - 1) \in Seq(T)
  BY <1>1, <1>2, SubSeqProperties
<1>4. /\ q - 1 \in p - 1 .. Len(a)
      /\ Len(a) \in q - 1 .. Len(a) /\ q - 1 + 1 = q
  BY <1>1
<1>5. SubSeq(a, p, q - 1) \o SubSeq(a, q - 1 + 1, Len(a)) = SubSeq(a, p, Len(a))
  BY <1>4, ConcatAdjacentSubSeq
<1> QED BY <1>3, <1>4, <1>5 DEF Rest, Concat

\* Blanks in front of a word have no ink, and the word is all ink.
LEMMA InkOfRest ==
  ASSUME NEW T, NEW a \in Seq(T), NEW p \in 1 .. Len(a) + 1, NEW f, NEW e,
         SkipsTo(a, p, f), EndsAt(a, f, e)
  PROVE  /\ Ink(Rest(a, p)) = Ink(Rest(a, f))
         /\ Ink(Rest(a, p)) = Concat(SubSeq(a, f, e - 1), Ink(Rest(a, e)))
<1>1. /\ Len(a) \in Nat /\ f \in p .. Len(a) + 1 /\ e \in f .. Len(a) + 1
      /\ f \in 1 .. Len(a) + 1 /\ e \in 1 .. Len(a) + 1
  BY DEF SkipsTo, EndsAt
<1> DEFINE blanks == SubSeq(a, p, f - 1)
           word   == SubSeq(a, f, e - 1)
<1>2. /\ blanks \in Seq(T) /\ word \in Seq(T)
      /\ Rest(a, p) = Concat(blanks, Rest(a, f))
      /\ Rest(a, f) = Concat(word, Rest(a, e))
      /\ Rest(a, f) \in Seq(T) /\ Rest(a, e) \in Seq(T)
  BY <1>1, RestSplits
<1>3. Ink(blanks) = <<>>
  <2>1. \A i \in 1 .. Len(blanks) : blanks[i] = a[p + i - 1] /\ p + i - 1 \in p .. f - 1
    BY <1>1, SubSeqProperties
  <2>2. \A i \in 1 .. Len(blanks) : isspace(blanks[i])
    BY <2>1 DEF SkipsTo
  <2> HIDE DEF blanks
  <2> QED BY <1>2, <2>2, InkOfBlanks
<1>4. Ink(word) = word
  <2>1. \A i \in 1 .. Len(word) : word[i] = a[f + i - 1] /\ f + i - 1 \in f .. e - 1
    BY <1>1, SubSeqProperties
  <2>2. \A i \in 1 .. Len(word) : ~isspace(word[i])
    BY <2>1 DEF EndsAt
  <2> HIDE DEF word
  <2> QED BY <1>2, <2>2, InkOfInk
<1> HIDE DEF blanks, word
<1>5. /\ Ink(Rest(a, p)) = Concat(Ink(blanks), Ink(Rest(a, f)))
      /\ Ink(Rest(a, f)) = Concat(Ink(word), Ink(Rest(a, e)))
      /\ Ink(Rest(a, f)) \in Seq(T)
  BY <1>2, InkConcat
<1>6. Ink(Rest(a, p)) = Ink(Rest(a, f))
  BY <1>3, <1>5, ConcatNone
<1> QED BY <1>4, <1>5, <1>6 DEF word

------------------------------------------------------------------------------
(* The arguments of a command, and where they are in the line. *)

\* The arguments are the line without its first two characters.
LEMMA ArgsAre ==
  ASSUME NEW T, NEW line \in Seq(T), Len(line) >= 2
  PROVE  /\ Rest(line, 3) \in Seq(T) /\ Len(Rest(line, 3)) = Len(line) - 2
         /\ \A i \in 1 .. Len(line) - 2 : Rest(line, 3)[i] = line[i + 2]
<1>1. Len(line) \in Nat /\ \A i \in 3 .. Len(line) : line[i] \in T
  OBVIOUS
<1> DEFINE a == SubSeq(line, 3, Len(line))
<1>2. /\ a \in Seq(T) /\ Len(a) = IF 3 <= Len(line) THEN Len(line) - 3 + 1 ELSE 0
      /\ \A i \in 1 .. Len(line) - 3 + 1 : a[i] = line[3 + i - 1]
  BY <1>1, SubSeqProperties
<1> HIDE DEF a
<1>3. Len(a) = Len(line) - 2
  <2>1. Len(a) = IF 3 <= Len(line) THEN Len(line) - 3 + 1 ELSE 0
    BY <1>2
  <2> DEFINE n == Len(line)
  <2>2. n \in Nat /\ n >= 2
    BY <1>1
  <2> HIDE DEF n
  <2>3. (IF 3 <= n THEN n - 3 + 1 ELSE 0) = n - 2
    BY <2>2
  <2> QED BY <2>1, <2>3 DEF n
<1>4. \A i \in 1 .. Len(line) - 2 : i \in 1 .. Len(line) - 3 + 1 /\ 3 + i - 1 = i + 2
  BY <1>1
<1> QED BY <1>2, <1>3, <1>4 DEF Rest, a

\* What the loops find in the line they find in its arguments.
LEMMA ArgsScanned ==
  ASSUME NEW T, NEW line \in Seq(T), Len(line) >= 2, NEW q \in 3 .. Len(line) + 1
  PROVE  LET a == Rest(line, 3)
             f == SkipSpace(line, q)
             e == WordEnd(line, f)
         IN /\ f \in q .. Len(line) + 1 /\ e \in f .. Len(line) + 1
            /\ SkipsTo(a, q - 2, f - 2)
            /\ EndsAt(a, f - 2, e - 2)
<1> DEFINE a == Rest(line, 3)
           f == SkipSpace(line, q)
           e == WordEnd(line, f)
<1>1. Len(line) \in Nat /\ q \in 1 .. Len(line) + 1
  OBVIOUS
<1>2. Len(a) = Len(line) - 2 /\ \A i \in 1 .. Len(line) - 2 : a[i] = line[i + 2]
  BY ArgsAre
<1> HIDE DEF a
<1>3. \A i \in 3 .. Len(line) : a[i - 2] = line[i]
  BY <1>1, <1>2
<1>4. SkipsTo(line, q, f)
  BY <1>1, SkipSpaceIs
<1>5. f \in q .. Len(line) + 1 /\ f \in 1 .. Len(line) + 1
  BY <1>1, <1>4 DEF SkipsTo
<1>6. EndsAt(line, f, e)
  BY <1>5, WordEndIs
<1> HIDE DEF f, e
<1>7. e \in f .. Len(line) + 1
  BY <1>6 DEF EndsAt
<1>8. SkipsTo(a, q - 2, f - 2)
  <2>1. f - 2 \in q - 2 .. Len(a) + 1
    BY <1>1, <1>2, <1>5
  <2>2. f - 2 = Len(a) + 1 \/ ~isspace(a[f - 2])
    <3>1. f = Len(line) + 1 \/ f \in 3 .. Len(line)
      BY <1>1, <1>5
    <3> QED BY <1>1, <1>2, <1>3, <1>4, <3>1 DEF SkipsTo
  <2>3. ASSUME NEW i \in q - 2 .. f - 2 - 1
        PROVE  isspace(a[i])
    <3>1. i + 2 \in q .. f - 1 /\ i + 2 \in 3 .. Len(line) /\ i + 2 - 2 = i
      BY <1>1, <1>5
    <3>2. a[i] = line[i + 2]
      BY <1>3, <3>1
    <3> QED BY <1>4, <3>1, <3>2 DEF SkipsTo
  <2> QED BY <2>1, <2>2, <2>3 DEF SkipsTo
<1>9. EndsAt(a, f - 2, e - 2)
  <2>1. e - 2 \in f - 2 .. Len(a) + 1
    BY <1>1, <1>2, <1>5, <1>7
  <2>2. e - 2 = Len(a) + 1 \/ isspace(a[e - 2])
    <3>1. e = Len(line) + 1 \/ e \in 3 .. Len(line)
      BY <1>1, <1>5, <1>7
    <3> QED BY <1>1, <1>2, <1>3, <1>6, <3>1 DEF EndsAt
  <2>3. ASSUME NEW i \in f - 2 .. e - 2 - 1
        PROVE  ~isspace(a[i])
    <3>1. i + 2 \in f .. e - 1 /\ i + 2 \in 3 .. Len(line) /\ i + 2 - 2 = i
      BY <1>1, <1>5, <1>7
    <3>2. a[i] = line[i + 2]
      BY <1>3, <3>1
    <3> QED BY <1>6, <3>1, <3>2 DEF EndsAt
  <2> QED BY <2>1, <2>2, <2>3 DEF EndsAt
<1> QED BY <1>5, <1>7, <1>8, <1>9 DEF a, f, e

\* A part of the line is a part of its arguments.
LEMMA PartOfLine ==
  ASSUME NEW T, NEW line \in Seq(T), Len(line) >= 2,
         NEW q \in 3 .. Len(line) + 1, NEW r \in q - 1 .. Len(line)
  PROVE  SubSeq(line, q, r) = SubSeq(Rest(line, 3), q - 2, r - 2)
<1> DEFINE a == Rest(line, 3)
<1>1. /\ Len(line) \in Nat /\ a \in Seq(T) /\ Len(a) = Len(line) - 2
      /\ \A i \in 1 .. Len(line) - 2 : a[i] = line[i + 2]
  BY ArgsAre
<1> HIDE DEF a
<1>2. /\ \A i \in q .. r : line[i] \in T
      /\ \A i \in q - 2 .. r - 2 : a[i] \in T
  BY <1>1
<1> DEFINE u == SubSeq(line, q, r)
           v == SubSeq(a, q - 2, r - 2)
<1>3. /\ u \in Seq(T) /\ Len(u) = IF q <= r THEN r - q + 1 ELSE 0
      /\ \A i \in 1 .. r - q + 1 : u[i] = line[q + i - 1]
  BY <1>2, SubSeqProperties
<1>4. /\ v \in Seq(T) /\ Len(v) = IF q - 2 <= r - 2 THEN r - 2 - (q - 2) + 1 ELSE 0
      /\ \A i \in 1 .. r - 2 - (q - 2) + 1 : v[i] = a[q - 2 + i - 1]
  <2>1. q - 2 \in Int /\ r - 2 \in Int
    OBVIOUS
  <2> QED BY <1>2, <2>1, SubSeqProperties
<1> HIDE DEF u, v
<1>5. Len(u) = Len(v)
  BY <1>3, <1>4
<1>6. ASSUME NEW i \in 1 .. Len(u)
      PROVE  u[i] = v[i]
  <2>1. /\ i \in 1 .. r - q + 1 /\ i \in 1 .. r - 2 - (q - 2) + 1
        /\ q - 2 + i - 1 \in 1 .. Len(line) - 2 /\ q - 2 + i - 1 + 2 = q + i - 1
    BY <1>1, <1>3
  <2> QED BY <1>1, <1>3, <1>4, <2>1
<1>7. u = v
  BY <1>3, <1>4, <1>5, <1>6, SeqEqual
<1> QED BY <1>7 DEF u, v, a

\* A word of the line is read.
LEMMA WordRead ==
  ASSUME NEW T, NEW line \in Seq(T), Len(line) >= 2, NEW q \in 3 .. Len(line) + 1,
         NEW k \in Nat, Reached(Rest(line, 3), q - 2, k), NEW max \in Nat
  PROVE  LET a    == Rest(line, 3)
             f    == SkipSpace(line, q)
             e    == WordEnd(line, f)
             word == Word(line, f, max)
         IN /\ e \in 3 .. Len(line) + 1
            /\ Reached(a, e - 2, k + 1)
            /\ word # <<>> <=> /\ k + 1 <= Cardinality(Words(a))
                               /\ Len(NthWord(a, k + 1)) <= max
            /\ word # <<>> => /\ word = NthWord(a, k + 1)
                              /\ word \in Seq(T)
                              /\ Ink(Rest(a, q - 2)) = Concat(word, Ink(Rest(a, e - 2)))
<1> DEFINE a    == Rest(line, 3)
           f    == SkipSpace(line, q)
           e    == WordEnd(line, f)
           text == SubSeq(line, f, e - 1)
<1>1. /\ Len(line) \in Nat /\ a \in Seq(T) /\ Len(a) = Len(line) - 2
      /\ f \in q .. Len(line) + 1 /\ e \in f .. Len(line) + 1
      /\ SkipsTo(a, q - 2, f - 2) /\ EndsAt(a, f - 2, e - 2)
  BY ArgsScanned, ArgsAre
<1>2. Word(line, f, max) = IF Len(text) <= max THEN text ELSE <<>>
  BY DEF Word
<1> HIDE DEF a, f, e
<1>3. text = SubSeq(a, f - 2, e - 2 - 1)
  <2>1. f \in 3 .. Len(line) + 1 /\ e - 1 \in f - 1 .. Len(line) /\ e - 1 - 2 = e - 2 - 1
    BY <1>1
  <2> QED BY <2>1, PartOfLine DEF a
<1>4. text \in Seq(T) /\ Len(text) = e - f
  <2>1. \A i \in f .. e - 1 : line[i] \in T
    BY <1>1
  <2>2. f \in Int /\ e - 1 \in Int
    BY <1>1
  <2>3. text \in Seq(T) /\ Len(text) = IF f <= e - 1 THEN e - 1 - f + 1 ELSE 0
    BY <2>1, <2>2, SubSeqProperties
  <2> QED BY <1>1, <2>3
<1> HIDE DEF text
<1>5. /\ Reached(a, e - 2, k + 1)
      /\ IF f - 2 <= Len(a)
         THEN /\ f - 2 < e - 2
              /\ k + 1 <= Cardinality(Words(a))
              /\ NthWord(a, k + 1) = SubSeq(a, f - 2, e - 2 - 1)
         ELSE f - 2 = Len(a) + 1 /\ e - 2 = f - 2 /\ Cardinality(Words(a)) < k + 1
  BY <1>1, NextWord DEF a
<1>6. Ink(Rest(a, q - 2)) = Concat(text, Ink(Rest(a, e - 2)))
  <2>1. q - 2 \in 1 .. Len(a) + 1
    BY <1>1
  <2> QED BY <1>1, <1>3, <2>1, InkOfRest
<1>7. e \in 3 .. Len(line) + 1
  BY <1>1
<1>8. Cardinality(Words(a)) \in Nat
  BY <1>1, WordsFinite
<1>9. text # <<>> <=> f < e
  BY <1>1, <1>4
<1> DEFINE word == Word(line, f, max)
<1>10. /\ word # <<>> <=> k + 1 <= Cardinality(Words(a)) /\ Len(NthWord(a, k + 1)) <= max
       /\ word # <<>> => word = text /\ word = NthWord(a, k + 1)
  <2>1. CASE f - 2 <= Len(a)
    <3>1. /\ k + 1 <= Cardinality(Words(a)) /\ NthWord(a, k + 1) = text /\ text # <<>>
      <4>1. /\ f - 2 < e - 2 /\ k + 1 <= Cardinality(Words(a))
            /\ NthWord(a, k + 1) = SubSeq(a, f - 2, e - 2 - 1)
        BY <1>5, <2>1
      <4>2. f < e
        BY <1>1, <4>1
      <4> QED BY <1>3, <1>9, <4>1, <4>2
    <3> QED BY <1>2, <3>1
  <2>2. CASE ~(f - 2 <= Len(a))
    <3>1. ~(k + 1 <= Cardinality(Words(a))) /\ text = <<>>
      BY <1>1, <1>5, <1>8, <1>9, <2>2
    <3> QED BY <1>2, <3>1
  <2> QED BY <2>1, <2>2
<1> HIDE DEF word
<1> QED BY <1>4, <1>5, <1>6, <1>7, <1>10 DEF a, f, e, word

------------------------------------------------------------------------------
(* The destinations of a line. *)

\* w is the function that DstWords builds.
ReadsDsts(w, line, from, n) ==
  w = [i \in 0 .. n |->
         IF i = 0 THEN [dst |-> <<>>, end |-> from]
         ELSE LET first == SkipSpace(line, w[i - 1].end)
              IN [dst |-> Word(line, first, HANDLE_NAME_MAX),
                  end |-> WordEnd(line, first)]]

NextDst(line, p) ==
  LET first == SkipSpace(line, p)
  IN [dst |-> Word(line, first, HANDLE_NAME_MAX), end |-> WordEnd(line, first)]

\* The same, with the step named.
LEMMA ReadsDstsIs ==
  ASSUME NEW w, NEW line, NEW from, NEW n \in Nat
  PROVE  ReadsDsts(w, line, from, n) <=>
           w = [i \in 0 .. n |-> IF i = 0 THEN [dst |-> <<>>, end |-> from]
                                 ELSE NextDst(line, w[i - 1].end)]
BY DEF ReadsDsts, NextDst

\* What w is at each index.
LEMMA ReadsDstsAt ==
  ASSUME NEW w, NEW line, NEW from, NEW n \in Nat, ReadsDsts(w, line, from, n)
  PROVE  /\ w[0] = [dst |-> <<>>, end |-> from]
         /\ \A i \in 1 .. n : w[i] = NextDst(line, w[i - 1].end)
<1>1. ASSUME NEW v, w = [i \in 0 .. n |-> IF i = 0 THEN [dst |-> <<>>, end |-> from]
                                          ELSE NextDst(line, v[i - 1].end)]
      PROVE  /\ w[0] = [dst |-> <<>>, end |-> from]
             /\ \A i \in 1 .. n : w[i] = NextDst(line, v[i - 1].end)
  BY <1>1
<1> QED BY <1>1, ReadsDstsIs

\* There is such a function, for every number of destinations.
LEMMA DstsExist ==
  ASSUME NEW line, NEW from, NEW n \in Nat
  PROVE  \E w : ReadsDsts(w, line, from, n)
<1> DEFINE S == {k \in Nat : \E w : ReadsDsts(w, line, from, k)}
<1>1. 0 \in S
  <2> DEFINE w == [i \in 0 .. 0 |-> [dst |-> <<>>, end |-> from]]
  <2>1. w = [i \in 0 .. 0 |-> IF i = 0 THEN [dst |-> <<>>, end |-> from]
                              ELSE NextDst(line, w[i - 1].end)]
    OBVIOUS
  <2> HIDE DEF w
  <2>2. ReadsDsts(w, line, from, 0)
    BY <2>1, ReadsDstsIs
  <2> QED BY <2>2
<1>2. ASSUME NEW k \in S
      PROVE  k + 1 \in S
  <2>1. k \in Nat
    OBVIOUS
  <2>2. PICK w : ReadsDsts(w, line, from, k)
    OBVIOUS
  <2> DEFINE v == [i \in 0 .. k + 1 |->
                     IF i = k + 1 THEN NextDst(line, w[k].end) ELSE w[i]]
  <2>3. ASSUME NEW i \in 0 .. k + 1
        PROVE  v[i] = IF i = 0 THEN [dst |-> <<>>, end |-> from]
                      ELSE NextDst(line, v[i - 1].end)
    <3>1. CASE i = k + 1
      <4>1. i # 0 /\ i - 1 = k /\ k \in 0 .. k + 1 /\ k # k + 1
        BY <2>1, <3>1
      <4> QED BY <3>1, <4>1
    <3>2. CASE i = 0
      <4>1. 0 # k + 1
        BY <2>1
      <4> QED BY <2>1, <2>2, <3>2, <4>1, ReadsDstsAt
    <3>3. CASE i # k + 1 /\ i # 0
      <4>1. /\ i \in 1 .. k /\ i - 1 \in 0 .. k + 1 /\ i - 1 # k + 1
        BY <2>1, <3>3
      <4>2. w[i] = NextDst(line, w[i - 1].end)
        BY <2>1, <2>2, <4>1, ReadsDstsAt
      <4> QED BY <3>3, <4>1, <4>2
    <3> QED BY <3>1, <3>2, <3>3
  <2>4. v = [i \in 0 .. k + 1 |-> v[i]]
    OBVIOUS
  <2> HIDE DEF v
  <2>5. v = [i \in 0 .. k + 1 |-> IF i = 0 THEN [dst |-> <<>>, end |-> from]
                                  ELSE NextDst(line, v[i - 1].end)]
    BY <2>3, <2>4
  <2>6. ReadsDsts(v, line, from, k + 1)
    BY <2>1, <2>5, ReadsDstsIs
  <2> QED BY <2>1, <2>6
<1> HIDE DEF S
<1>3. S = Nat
  <2>1. S \in SUBSET Nat
    BY DEF S
  <2> QED BY <1>1, <1>2, <2>1, CountingUp
<1> QED BY <1>3 DEF S

OneByOne(w, line, from, n) ==
  /\ w[0] = [dst |-> <<>>, end |-> from]
  /\ \A i \in 1 .. n : w[i] = NextDst(line, w[i - 1].end)

\* The words of DstWords are read one by one, each behind the one before.
LEMMA DstWordsAre ==
  ASSUME NEW line, NEW from, NEW n \in Nat
  PROVE  OneByOne(DstWords(line, from, n), line, from, n)
<1> DEFINE w == CHOOSE v : ReadsDsts(v, line, from, n)
<1>1. ReadsDsts(w, line, from, n)
  BY DstsExist
<1>2. DstWords(line, from, n) = w
  BY DEF DstWords, ReadsDsts
<1> HIDE DEF w
<1> QED BY <1>1, <1>2, ReadsDstsAt DEF OneByOne

\* The numbers of the words behind the first skip ones.
Handles(a, skip, n) == [i \in 1 .. n |-> NthWord(a, skip + i)]

\* Those words are found, or not, and with them all the ink up to the text.
DstsFound(T, line, from, skip, n) ==
  LET a     == Rest(line, 3)
      words == DstWords(line, from, n)
  IN /\ words[n].end \in 3 .. Len(line) + 1
     /\ \A i \in 1 .. n : words[i].dst # <<>> <=> HasHandle(a, skip + i)
     /\ (\A i \in 1 .. n : words[i].dst # <<>>) =>
          /\ Handles(a, skip, n) \in Seq(Seq(T))
          /\ \A i \in 1 .. n : words[i].dst = NthWord(a, skip + i)
          /\ Ink(Rest(a, from - 2)) = Concat(FlattenSeq(Handles(a, skip, n)),
                                           Ink(Rest(a, words[n].end - 2)))

\* A line is read for n destinations, behind skip other words.
LEMMA DstsRead ==
  ASSUME NEW T, NEW line \in Seq(T), Len(line) >= 2, NEW from \in 3 .. Len(line) + 1,
         NEW skip \in Nat, Reached(Rest(line, 3), from - 2, skip), NEW n \in Nat
  PROVE  DstsFound(T, line, from, skip, n)
<1> DEFINE a     == Rest(line, 3)
           words == DstWords(line, from, n)
<1>1. /\ words[0] = [dst |-> <<>>, end |-> from]
      /\ \A i \in 1 .. n : words[i] = NextDst(line, words[i - 1].end)
  <2>1. OneByOne(words, line, from, n)
    BY DstWordsAre
  <2> HIDE DEF words
  <2> QED BY <2>1 DEF OneByOne
<1>2. Len(line) \in Nat /\ a \in Seq(T) /\ Len(a) = Len(line) - 2
  BY ArgsAre
<1>3. HANDLE_NAME_MAX \in Nat
  BY CommandLineAssumption
<1> HIDE DEF words, a
<1> DEFINE Good(i) ==
             /\ words[i].end \in 3 .. Len(line) + 1
             /\ Reached(a, words[i].end - 2, skip + i)
           Said(i) ==
             /\ Handles(a, skip, i) \in Seq(Seq(T))
             /\ Ink(Rest(a, from - 2)) = Concat(FlattenSeq(Handles(a, skip, i)),
                                              Ink(Rest(a, words[i].end - 2)))
<1>4. ASSUME NEW i \in 1 .. n, Good(i - 1)
      PROVE  /\ Good(i)
             /\ words[i].dst # <<>> <=> HasHandle(a, skip + i)
             /\ words[i].dst # <<>> =>
                  /\ words[i].dst = NthWord(a, skip + i) /\ words[i].dst \in Seq(T)
                  /\ Ink(Rest(a, words[i - 1].end - 2))
                       = Concat(words[i].dst, Ink(Rest(a, words[i].end - 2)))
  <2> DEFINE q == words[i - 1].end
             k == skip + (i - 1)
             first == SkipSpace(line, q)
  <2>1. /\ q \in 3 .. Len(line) + 1 /\ k \in Nat /\ Reached(a, q - 2, k)
        /\ k + 1 = skip + i
    BY <1>4
  <2>2. words[i] = [dst |-> Word(line, first, HANDLE_NAME_MAX), end |-> WordEnd(line, first)]
    BY <1>1 DEF NextDst
  <2>3. words[i].dst = Word(line, first, HANDLE_NAME_MAX) /\ words[i].end = WordEnd(line, first)
    BY <2>2
  <2> HIDE DEF q, k
  <2>4. LET e    == WordEnd(line, SkipSpace(line, q))
            word == Word(line, SkipSpace(line, q), HANDLE_NAME_MAX)
        IN /\ e \in 3 .. Len(line) + 1
           /\ Reached(a, e - 2, k + 1)
           /\ word # <<>> <=> /\ k + 1 <= Cardinality(Words(a))
                              /\ Len(NthWord(a, k + 1)) <= HANDLE_NAME_MAX
           /\ word # <<>> => /\ word = NthWord(a, k + 1)
                             /\ word \in Seq(T)
                             /\ Ink(Rest(a, q - 2)) = Concat(word, Ink(Rest(a, e - 2)))
    BY <1>3, <2>1, WordRead DEF a
  <2> QED BY <2>1, <2>3, <2>4 DEF HasHandle, q
<1>5. Good(0) /\ Said(0)
  <2>1. words[0].end = from
    BY <1>1
  <2>2. Good(0)
    BY <2>1 DEF a
  <2>3. Handles(a, skip, 0) = <<>> /\ <<>> \in Seq(Seq(T))
    BY DEF Handles
  <2>4. Rest(a, from - 2) \in Seq(T)
    <3>1. from - 2 \in 1 .. Len(a) + 1
      BY <1>2
    <3>2. Len(a) + 1 \in from - 2 .. Len(a) + 1
      BY <1>2, <3>1
    <3> QED BY <1>2, <3>1, <3>2, RestSplits
  <2>5. Ink(Rest(a, from - 2)) \in Seq(T)
    <3>1. <<>> \in Seq(T)
      OBVIOUS
    <3> QED BY <2>4, <3>1, InkConcat
  <2>6. Concat(<<>>, Ink(Rest(a, from - 2))) = Ink(Rest(a, from - 2))
    BY <2>5, ConcatNone
  <2>7. Said(0)
    BY <2>1, <2>3, <2>6, FlattenNone
  <2> QED BY <2>2, <2>7
<1>6. ASSUME NEW i \in 1 .. n, Said(i - 1), Good(i - 1), words[i].dst # <<>>
      PROVE  Said(i)
  <2> DEFINE s == Handles(a, skip, i - 1)
             t == Handles(a, skip, i)
             e == words[i].dst
             tail == Ink(Rest(a, words[i].end - 2))
  <2>1. /\ s \in Seq(Seq(T))
        /\ Ink(Rest(a, from - 2)) = Concat(FlattenSeq(s), Ink(Rest(a, words[i - 1].end - 2)))
    BY <1>6
  <2>2. e = NthWord(a, skip + i) /\ e \in Seq(T)
        /\ Ink(Rest(a, words[i - 1].end - 2)) = Concat(e, tail)
    BY <1>4, <1>6
  <2>3. Good(i)
    BY <1>4, <1>6
  <2>4. tail \in Seq(T)
    <3> DEFINE p == words[i].end - 2
    <3>1. p \in 1 .. Len(a) + 1 /\ Len(a) + 1 \in p .. Len(a) + 1
      BY <1>2, <2>3
    <3> HIDE DEF p
    <3>2. Rest(a, p) \in Seq(T)
      BY <1>2, <3>1, RestSplits
    <3>3. Ink(Rest(a, p)) \in Seq(T)
      <4>1. <<>> \in Seq(T)
        OBVIOUS
      <4> QED BY <3>2, <4>1, InkConcat
    <3> QED BY <3>3 DEF p
  <2>5. t = Append(s, e)
    <3>1. /\ i - 1 \in Nat /\ i - 1 + 1 = i
          /\ s = [j \in 1 .. i - 1 |-> NthWord(a, skip + j)]
          /\ t = [j \in 1 .. i |-> NthWord(a, skip + j)]
      BY DEF Handles
    <3> HIDE DEF s, t, e
    <3>2. Len(s) = i - 1 /\ \A j \in 1 .. i - 1 : s[j] = NthWord(a, skip + j)
      BY <3>1
    <3>3. \A j \in 1 .. i : NthWord(a, skip + j) \in Seq(T)
      <4>1. \A j \in 1 .. i : j \in 1 .. i - 1 \/ j = i
        OBVIOUS
      <4>2. \A j \in 1 .. i - 1 : NthWord(a, skip + j) \in Seq(T)
        <5>1. \A j \in 1 .. Len(s) : s[j] \in Seq(T)
          BY <2>1, ElementOfSeq
        <5> QED BY <3>2, <5>1
      <4> QED BY <2>2, <4>1, <4>2
    <3>4. t \in Seq(Seq(T)) /\ Len(t) = i
      BY <3>1, <3>3
    <3>5. \A j \in 1 .. i - 1 : t[j] = s[j]
      BY <3>1
    <3>6. t[i] = e
      BY <2>2, <3>1
    <3> QED BY <2>1, <2>2, <3>1, <3>2, <3>4, <3>5, <3>6
  <2>6. t \in Seq(Seq(T)) /\ FlattenSeq(t) = Concat(FlattenSeq(s), e) /\ FlattenSeq(s) \in Seq(T)
    <3> HIDE DEF s, e, t
    <3>1. Append(s, e) \in Seq(Seq(T))
      BY <2>1, <2>2
    <3> QED BY <2>1, <2>2, <2>5, <3>1, FlattenAppend DEF Concat
  <2> HIDE DEF s, t, e, tail
  <2>7. Concat(FlattenSeq(s), Concat(e, tail)) = Concat(FlattenSeq(t), tail)
    BY <2>2, <2>4, <2>6, ConcatAssoc
  <2> QED BY <2>1, <2>2, <2>6, <2>7 DEF t, tail
<1> DEFINE S == {i \in Nat : i <= n =>
                   /\ Good(i)
                   /\ \A j \in 1 .. i : words[j].dst # <<>> <=> HasHandle(a, skip + j)
                   /\ (\A j \in 1 .. i : words[j].dst # <<>>) =>
                        Said(i) /\ \A j \in 1 .. i : words[j].dst = NthWord(a, skip + j)}
<1>7. 0 \in S
  BY <1>5
<1>8. ASSUME NEW i \in S
      PROVE  i + 1 \in S
  <2>1. SUFFICES ASSUME i + 1 <= n
                 PROVE  /\ Good(i + 1)
                        /\ \A j \in 1 .. i + 1 :
                             words[j].dst # <<>> <=> HasHandle(a, skip + j)
                        /\ (\A j \in 1 .. i + 1 : words[j].dst # <<>>) =>
                             /\ Said(i + 1)
                             /\ \A j \in 1 .. i + 1 : words[j].dst = NthWord(a, skip + j)
    OBVIOUS
  <2>2. /\ i \in Nat /\ i + 1 \in 1 .. n /\ i + 1 - 1 = i
        /\ \A j \in 1 .. i + 1 : j \in 1 .. i \/ j = i + 1
        /\ \A j \in 1 .. i : j \in 1 .. i + 1
    BY <2>1
  <2>3. /\ Good(i)
        /\ \A j \in 1 .. i : words[j].dst # <<>> <=> HasHandle(a, skip + j)
        /\ (\A j \in 1 .. i : words[j].dst # <<>>) =>
             Said(i) /\ \A j \in 1 .. i : words[j].dst = NthWord(a, skip + j)
    BY <2>1, <2>2
  <2> HIDE DEF Good, Said
  <2>4. /\ Good(i + 1)
        /\ words[i + 1].dst # <<>> <=> HasHandle(a, skip + (i + 1))
        /\ words[i + 1].dst # <<>> => words[i + 1].dst = NthWord(a, skip + (i + 1))
    <3> DEFINE n1 == i + 1
    <3>1. n1 \in 1 .. n /\ Good(n1 - 1)
      BY <2>2, <2>3
    <3> HIDE DEF n1
    <3>2. /\ Good(n1)
          /\ words[n1].dst # <<>> <=> HasHandle(a, skip + n1)
          /\ words[n1].dst # <<>> => words[n1].dst = NthWord(a, skip + n1)
      BY <1>4, <3>1
    <3> QED BY <3>2 DEF n1
  <2>5. Said(i) /\ words[i + 1].dst # <<>> => Said(i + 1)
    BY <1>6, <2>2, <2>3
  <2>6. i + 1 \in 1 .. i + 1
    BY <2>2
  <2> QED BY <2>2, <2>3, <2>4, <2>5, <2>6
<1> HIDE DEF S, Good, Said
<1>9. S = Nat
  <2>1. S \in SUBSET Nat
    BY DEF S
  <2> QED BY <1>7, <1>8, <2>1, CountingUp
<1>10. /\ Good(n)
       /\ \A j \in 1 .. n : words[j].dst # <<>> <=> HasHandle(a, skip + j)
       /\ (\A j \in 1 .. n : words[j].dst # <<>>) =>
            Said(n) /\ \A j \in 1 .. n : words[j].dst = NthWord(a, skip + j)
  <2>1. n \in S /\ n <= n
    BY <1>9
  <2> QED BY <2>1, Zenon DEF S
<1> QED BY <1>10 DEF Good, Said, a, words, DstsFound

------------------------------------------------------------------------------
(* The pieces of a text. *)

ChunkSize(text, sent) == Min({Len(text) - sent, TEXT_DATA_CHUNK})

Piece(text, sent) == SubSeq(text, sent + 1, sent + ChunkSize(text, sent))

\* A piece is never empty, and never more than is left or fits.
LEMMA ChunkSizeBounds ==
  ASSUME NEW T, NEW text \in Seq(T), NEW sent \in Nat, sent < Len(text)
  PROVE  /\ ChunkSize(text, sent) \in 1 .. TEXT_DATA_CHUNK
         /\ ChunkSize(text, sent) <= Len(text) - sent
         /\ TEXT_DATA_CHUNK \in Nat
<1> DEFINE S == {Len(text) - sent, TEXT_DATA_CHUNK}
<1>1. TEXT_DATA_CHUNK \in Nat \ {0} /\ Len(text) \in Nat
  BY CommandLineAssumption
<1>2. S \in SUBSET Nat /\ S # {}
  BY <1>1
<1>3. Min(S) \in S /\ \A x \in S : Min(S) <= x
  <2> HIDE DEF S
  <2> QED BY <1>2, MinInSet
<1>4. ChunkSize(text, sent) = Min(S)
  BY DEF ChunkSize
<1> DEFINE m == Min(S)
<1> HIDE DEF m
<1>5. (m = Len(text) - sent \/ m = TEXT_DATA_CHUNK) /\ m <= Len(text) - sent /\ m <= TEXT_DATA_CHUNK
  BY <1>3 DEF m
<1>6. m \in 1 .. TEXT_DATA_CHUNK /\ m <= Len(text) - sent
  BY <1>1, <1>5
<1> QED BY <1>1, <1>4, <1>6 DEF m

\* f is what Chunks builds, from position m on.
Cuts(f, text, m) ==
  f = [sent \in m .. Len(text) |->
         IF sent >= Len(text) THEN <<>>
         ELSE <<Piece(text, sent)>> \o f[sent + ChunkSize(text, sent)]]

\* What f is at each position.
LEMMA CutsAt ==
  ASSUME NEW f, NEW text, NEW m, Cuts(f, text, m), NEW sent \in m .. Len(text)
  PROVE  f[sent] = IF sent >= Len(text) THEN <<>>
                   ELSE <<Piece(text, sent)>> \o f[sent + ChunkSize(text, sent)]
<1>1. ASSUME NEW g, f = [i \in m .. Len(text) |->
                           IF i >= Len(text) THEN <<>>
                           ELSE <<Piece(text, i)>> \o g[i + ChunkSize(text, i)]]
      PROVE  f[sent] = IF sent >= Len(text) THEN <<>>
                       ELSE <<Piece(text, sent)>> \o g[sent + ChunkSize(text, sent)]
  BY <1>1
<1> QED BY <1>1 DEF Cuts

\* There is such a function: each piece begins behind the one before.
LEMMA CutsExist ==
  ASSUME NEW T, NEW text \in Seq(T)
  PROVE  \E f : Cuts(f, text, 0)
<1> DEFINE n == Len(text)
           S == {k \in Nat : k <= n => \E f : Cuts(f, text, n - k)}
<1>0. n \in Nat
  OBVIOUS
<1>1. 0 \in S
  <2> DEFINE f == [sent \in n .. n |-> <<>>]
  <2>1. f = [sent \in n .. n |-> IF sent >= n THEN <<>>
                                 ELSE <<Piece(text, sent)>> \o f[sent + ChunkSize(text, sent)]]
    BY <1>0
  <2> HIDE DEF f
  <2>2. Cuts(f, text, n)
    BY <2>1 DEF Cuts
  <2>3. n - 0 = n
    BY <1>0
  <2> QED BY <2>2, <2>3
<1>2. ASSUME NEW k \in S
      PROVE  k + 1 \in S
  <2>1. SUFFICES ASSUME k + 1 <= n
                 PROVE  \E f : Cuts(f, text, n - (k + 1))
    OBVIOUS
  <2> DEFINE m == n - (k + 1)
  <2>2. m \in Nat /\ n - k = m + 1 /\ m < n /\ k <= n
    BY <1>0, <2>1
  <2>3. PICK f : Cuts(f, text, m + 1)
    BY <2>2
  <2> HIDE DEF m, n
  <2> DEFINE g == [sent \in m .. n |->
                     IF sent = m THEN <<Piece(text, m)>> \o f[m + ChunkSize(text, m)]
                     ELSE f[sent]]
  <2>4. ASSUME NEW sent \in m .. n
        PROVE  g[sent] = IF sent >= n THEN <<>>
                         ELSE <<Piece(text, sent)>> \o g[sent + ChunkSize(text, sent)]
    <3>1. sent >= n \/ /\ ChunkSize(text, sent) \in Nat \ {0}
                       /\ sent + ChunkSize(text, sent) \in m .. n
                       /\ sent + ChunkSize(text, sent) # m
      <4>1. SUFFICES ASSUME ~(sent >= n)
                     PROVE  /\ ChunkSize(text, sent) \in Nat \ {0}
                            /\ sent + ChunkSize(text, sent) \in m .. n
                            /\ sent + ChunkSize(text, sent) # m
        OBVIOUS
      <4> DEFINE c == ChunkSize(text, sent)
      <4>2. c \in 1 .. TEXT_DATA_CHUNK /\ c <= n - sent /\ TEXT_DATA_CHUNK \in Nat
        <5>1. sent \in Nat /\ sent < Len(text)
          BY <1>0, <2>2, <4>1 DEF n
        <5> QED BY <5>1, ChunkSizeBounds DEF n
      <4> HIDE DEF c
      <4>3. c \in Nat \ {0} /\ sent + c \in m .. n /\ sent + c # m
        BY <1>0, <2>2, <4>1, <4>2
      <4> QED BY <4>3 DEF c
    <3>2. CASE sent = m
      <4> DEFINE next == m + ChunkSize(text, m)
      <4>1. ~(m >= n) /\ m \in m .. n /\ next \in m .. n /\ next # m
        <5>1. m \in Nat /\ n \in Nat /\ m < n
          BY <1>0, <2>2
        <5>2. m >= n \/ (next \in m .. n /\ next # m)
          BY <3>1, <3>2, Zenon
        <5> HIDE DEF next
        <5> QED BY <5>1, <5>2
      <4> HIDE DEF next
      <4>2. g[next] = f[next] /\ g[m] = <<Piece(text, m)>> \o f[next]
        BY <4>1 DEF next
      <4> QED BY <3>2, <4>1, <4>2 DEF next
    <3>3. CASE sent # m
      <4>1. sent \in m + 1 .. n
        BY <1>0, <2>2, <3>3
      <4>2. f[sent] = IF sent >= n THEN <<>>
                      ELSE <<Piece(text, sent)>> \o f[sent + ChunkSize(text, sent)]
        BY <2>3, <4>1, CutsAt DEF n
      <4> QED BY <3>1, <3>3, <4>2
    <3> QED BY <3>2, <3>3
  <2>5. g = [sent \in m .. n |-> g[sent]]
    OBVIOUS
  <2> HIDE DEF g
  <2>6. g = [sent \in m .. n |-> IF sent >= n THEN <<>>
                                 ELSE <<Piece(text, sent)>> \o g[sent + ChunkSize(text, sent)]]
    BY <2>4, <2>5
  <2>7. Cuts(g, text, m)
    BY <2>6 DEF Cuts, n
  <2> QED BY <2>7 DEF m
<1> HIDE DEF S
<1>3. S = Nat
  <2>1. S \in SUBSET Nat
    BY DEF S
  <2> QED BY <1>1, <1>2, <2>1, CountingUp
<1>4. n - n = 0 /\ n \in S /\ n <= n
  BY <1>0, <1>3
<1> QED BY <1>4 DEF S

\* Chunks is what it is at the beginning of the text.
LEMMA ChunksAre ==
  ASSUME NEW T, NEW text \in Seq(T)
  PROVE  \E f : Cuts(f, text, 0) /\ Chunks(text) = IF text = <<>> THEN <<text>> ELSE f[0]
<1> DEFINE f == CHOOSE g : Cuts(g, text, 0)
<1>1. Cuts(f, text, 0)
  BY CutsExist
<1>2. Chunks(text) = IF text = <<>> THEN <<text>> ELSE f[0]
  BY Zenon DEF Chunks, Cuts, Piece, ChunkSize
<1> QED BY <1>1, <1>2

\* The pieces from a position on are the text from there on, and they fit.
Said(f, text, sent, T) ==
  /\ f[sent] \in Seq(Seq(T))
  /\ FlattenSeq(f[sent]) = Rest(text, sent + 1)
  /\ \A i \in 1 .. Len(f[sent]) : Len(f[sent][i]) \in 1 .. TEXT_DATA_CHUNK
  /\ sent < Len(text) => f[sent] # <<>>

\* The pieces of a text make it up, and each fits; an empty text is one piece.
LEMMA ChunksSay ==
  ASSUME NEW T, NEW text \in Seq(T)
  PROVE  /\ Chunks(text) \in Seq(Seq(T)) /\ Len(Chunks(text)) \in Nat \ {0}
         /\ FlattenSeq(Chunks(text)) = text
         /\ IF text = <<>> THEN Len(Chunks(text)) = 1
            ELSE \A i \in 1 .. Len(Chunks(text)) :
                   Len(Chunks(text)[i]) \in 1 .. TEXT_DATA_CHUNK
<1> DEFINE n == Len(text)
<1>0. n \in Nat /\ \A i \in 1 .. n : text[i] \in T
  OBVIOUS
<1>1. PICK f : Cuts(f, text, 0) /\ Chunks(text) = IF text = <<>> THEN <<text>> ELSE f[0]
  BY ChunksAre
<1> HIDE DEF n
<1> DEFINE S == {k \in Nat : k <= n => Said(f, text, n - k, T)}
<1>2. ASSUME NEW k \in Nat, \A m \in 0 .. k - 1 : m \in S
      PROVE  k \in S
  <2>1. SUFFICES ASSUME k <= n
                 PROVE  Said(f, text, n - k, T)
    OBVIOUS
  <2> DEFINE sent == n - k
  <2>2. sent \in 0 .. n
    BY <1>0, <2>1
  <2> HIDE DEF sent
  <2>3. f[sent] = IF sent >= n THEN <<>>
                  ELSE <<Piece(text, sent)>> \o f[sent + ChunkSize(text, sent)]
    BY <1>1, <2>2, CutsAt DEF n
  <2>4. CASE sent >= n
    <3>1. sent = n /\ f[sent] = <<>>
      BY <1>0, <2>2, <2>3, <2>4
    <3>2. Rest(text, sent + 1) = <<>>
      BY <1>0, <3>1, SubSeqEmpty DEF Rest, n
    <3>3. <<>> \in Seq(Seq(T)) /\ Len(<<>>) = 0
      OBVIOUS
    <3> QED BY <1>0, <3>1, <3>2, <3>3, FlattenNone DEF Said, sent, n
  <2>5. CASE ~(sent >= n)
    <3> DEFINE c == ChunkSize(text, sent)
               p == Piece(text, sent)
               next == sent + c
               rest == f[next]
    <3>1. c \in 1 .. TEXT_DATA_CHUNK /\ c <= n - sent /\ TEXT_DATA_CHUNK \in Nat
      <4>1. sent \in Nat /\ sent < Len(text)
        BY <1>0, <2>2, <2>5 DEF n
      <4> QED BY <4>1, ChunkSizeBounds DEF n
    <3>2. p = SubSeq(text, sent + 1, next)
      BY DEF Piece
    <3> HIDE DEF c
    <3>3. next \in sent + 1 .. n /\ k - c \in 0 .. k - 1 /\ next = n - (k - c) /\ k - c <= n
      BY <1>0, <2>1, <2>2, <3>1 DEF sent
    <3> HIDE DEF next, p
    <3>4. Said(f, text, next, T)
      BY <1>2, <3>3
    <3>5. p \in Seq(T) /\ Len(p) = c
      <4>1. \A i \in sent + 1 .. next : text[i] \in T
        BY <1>0, <2>2, <3>3
      <4>2. sent + 1 \in Int /\ next \in Int /\ next - (sent + 1) + 1 = c /\ sent + 1 <= next
        BY <1>0, <2>2, <3>1, <3>3 DEF next
      <4> QED BY <3>2, <4>1, <4>2, SubSeqProperties
    <3>6. Concat(p, Rest(text, next + 1)) = Rest(text, sent + 1)
      <4> DEFINE m == sent + 1
      <4>1. /\ m \in 1 .. n + 1 /\ next \in m - 1 .. n /\ n \in next .. n
        BY <1>0, <2>2, <3>3
      <4> HIDE DEF m
      <4>2. SubSeq(text, m, next) \o SubSeq(text, next + 1, Len(text))
              = SubSeq(text, m, Len(text))
        BY <4>1, ConcatAdjacentSubSeq DEF n
      <4> QED BY <3>2, <4>2 DEF Concat, Rest, m
    <3>7. f[sent] = <<p>> \o rest
      BY <2>3, <2>5 DEF p, next, c
    <3>8. rest \in Seq(Seq(T)) /\ <<p>> \in Seq(Seq(T)) /\ Len(<<p>>) = 1 /\ <<p>>[1] = p
      BY <3>4, <3>5 DEF Said
    <3>9. FlattenSeq(f[sent]) = Rest(text, sent + 1)
      <4>1. FlattenSeq(rest) = Rest(text, next + 1)
        BY <3>4 DEF Said
      <4>2. FlattenSeq(<<p>>) = p
        BY <3>5, FlattenOne
      <4> DEFINE one == <<p>>
      <4> HIDE DEF rest, one
      <4>3. FlattenSeq(one \o rest) = FlattenSeq(one) \o FlattenSeq(rest)
        BY <3>8, FlattenConcat DEF one
      <4> QED BY <3>6, <3>7, <4>1, <4>2, <4>3 DEF Concat, one
    <3>10. /\ f[sent] \in Seq(Seq(T)) /\ f[sent] # <<>>
           /\ \A i \in 1 .. Len(f[sent]) : Len(f[sent][i]) \in 1 .. TEXT_DATA_CHUNK
      <4> DEFINE one == <<p>>
                 all == one \o rest
      <4>0. \A i \in 1 .. Len(rest) : Len(rest[i]) \in 1 .. TEXT_DATA_CHUNK
        BY <3>4 DEF Said
      <4>1. one \in Seq(Seq(T)) /\ rest \in Seq(Seq(T)) /\ Len(one) = 1 /\ one[1] = p
        BY <3>8
      <4> HIDE DEF rest, one
      <4>2. /\ all \in Seq(Seq(T)) /\ Len(all) = 1 + Len(rest) /\ Len(rest) \in Nat
            /\ \A i \in 1 .. 1 + Len(rest) : all[i] = IF i <= 1 THEN one[i] ELSE rest[i - 1]
        <5>1. \A u, v \in Seq(Seq(T)) :
                /\ u \o v \in Seq(Seq(T)) /\ Len(u \o v) = Len(u) + Len(v)
                /\ \A i \in 1 .. Len(u) + Len(v) :
                     (u \o v)[i] = IF i <= Len(u) THEN u[i] ELSE v[i - Len(u)]
          BY ConcatProperties
        <5>2. /\ all \in Seq(Seq(T)) /\ Len(all) = Len(one) + Len(rest)
              /\ \A i \in 1 .. Len(one) + Len(rest) :
                   all[i] = IF i <= Len(one) THEN one[i] ELSE rest[i - Len(one)]
          BY <4>1, <5>1, Zenon
        <5> HIDE DEF all
        <5> QED BY <4>1, <5>2
      <4> HIDE DEF all
      <4>3. ASSUME NEW i \in 1 .. Len(all)
            PROVE  Len(all[i]) \in 1 .. TEXT_DATA_CHUNK
        <5>1. CASE i = 1
          <6>1. all[i] = p
            BY <4>1, <4>2, <5>1
          <6> QED BY <3>1, <3>5, <6>1
        <5>2. CASE i # 1
          <6>1. /\ i - 1 \in 1 .. Len(rest) /\ i \in 1 .. 1 + Len(rest) /\ ~(i <= 1)
            BY <4>2, <5>2
          <6>2. all[i] = rest[i - 1]
            BY <4>2, <6>1
          <6> QED BY <4>0, <6>1, <6>2
        <5> QED BY <5>1, <5>2
      <4>4. all # <<>>
        BY <4>2
      <4>5. f[sent] = all
        BY <3>7 DEF all, one
      <4> QED BY <4>2, <4>3, <4>4, <4>5
    <3> HIDE DEF rest
    <3> QED BY <3>9, <3>10 DEF Said, sent
  <2> QED BY <2>4, <2>5
<1> HIDE DEF S
<1>3. S = Nat
  <2>1. S \in SUBSET Nat
    BY DEF S
  <2> QED BY <1>2, <2>1, CountingOn
<1>4. Said(f, text, 0, T)
  <2>1. n \in S /\ n - n = 0 /\ n <= n
    BY <1>0, <1>3
  <2> QED BY <2>1 DEF S
<1>5. CASE text = <<>>
  <2>1. Chunks(text) = <<text>>
    BY <1>1, <1>5
  <2>2. <<text>> \in Seq(Seq(T)) /\ Len(<<text>>) = 1
    OBVIOUS
  <2>3. text \in Seq(T) /\ FlattenSeq(<<text>>) = text
    BY FlattenOne
  <2> DEFINE one == <<text>>
  <2> HIDE DEF one
  <2>4. one \in Seq(Seq(T)) /\ Len(one) = 1 /\ FlattenSeq(one) = text /\ Chunks(text) = one
    BY <2>1, <2>2, <2>3 DEF one
  <2>5. 1 \in Nat \ {0}
    OBVIOUS
  <2> QED BY <1>5, <2>4, <2>5, Zenon
<1>6. CASE text # <<>>
  <2>1. Chunks(text) = f[0]
    BY <1>1, <1>6
  <2>2. 0 < Len(text)
    BY <1>6, EmptySeq
  <2>3. Rest(text, 0 + 1) = text
    BY SubSeqFull DEF Rest
  <2>4. /\ f[0] \in Seq(Seq(T)) /\ f[0] # <<>>
        /\ FlattenSeq(f[0]) = text
        /\ \A i \in 1 .. Len(f[0]) : Len(f[0][i]) \in 1 .. TEXT_DATA_CHUNK
    BY <1>4, <2>2, <2>3 DEF Said
  <2>5. Len(f[0]) \in Nat \ {0}
    BY <2>4, EmptySeq
  <2> QED BY <1>6, <2>1, <2>4, <2>5
<1> QED BY <1>5, <1>6

------------------------------------------------------------------------------
(* What a line sends. *)

\* A number that is missing or too long counts as 0, which is out of range.
LEMMA NoDigits == Atoi(<<>>) = 0
<1> DEFINE Push(value, char) == 10 * value + Digit[char]
           empty == <<>>
           ends  == {i \in 1 .. Len(empty) + 1 : i > Len(empty) \/ empty[i] \notin DOMAIN Digit}
<1>1. Min(ends) = 1 /\ 1 - 1 = 0
  <2>1. ends = {1}
    OBVIOUS
  <2> HIDE DEF ends
  <2> QED BY <2>1, MinInSet
<1>2. SubSeq(empty, 1, Min(ends) - 1) = empty
  BY <1>1, SubSeqEmpty
<1> HIDE DEF empty
<1> DEFINE Unfolds(f) == f = [s \in SUBSET (DOMAIN empty) |->
                                IF s = {} THEN 0 ELSE Push(f[s \ {Max(s)}], empty[Max(s)])]
           fold == CHOOSE f : Unfolds(f)
<1>3. DOMAIN empty = {} /\ SUBSET {} = {{}}
  BY DEF empty
<1>4. fold[{}] = 0
  <2>1. \E f : Unfolds(f)
    <3> DEFINE f == [s \in SUBSET (DOMAIN empty) |-> 0]
    <3>1. Unfolds(f)
      BY <1>3
    <3> QED BY <3>1
  <2>2. Unfolds(fold)
    BY <2>1, Zenon
  <2>3. ASSUME NEW g, fold = [s \in SUBSET (DOMAIN empty) |->
                                IF s = {} THEN 0 ELSE Push(g[s \ {Max(s)}], empty[Max(s)])]
        PROVE  fold[{}] = 0
    BY <1>3, <2>3
  <2> QED BY <2>2, <2>3
<1>5. FoldLeft(Push, 0, empty) = fold[DOMAIN empty]
  BY Zenon DEF FoldLeft, MapThenFoldSet
<1>6. FoldLeft(Push, 0, empty) = 0
  BY <1>3, <1>4, <1>5, Zenon
<1>7. Atoi(<<>>) =
        LET first     == IF FALSE THEN 2 ELSE 1
            firstEnds == {i \in first .. Len(empty) + 1 :
                            i > Len(empty) \/ empty[i] \notin DOMAIN Digit}
        IN FoldLeft(Push, 0, SubSeq(empty, first, Min(firstEnds) - 1))
  BY Zenon DEF Atoi, empty
<1> QED BY <1>2, <1>6, <1>7, Zenon

\* The end of a line is a suffix of it.
LEMMA RestIsSuffix ==
  ASSUME NEW T, NEW line \in Seq(T), NEW f \in 1 .. Len(line) + 1
  PROVE  IsSuffix(Rest(line, f), line)
<1> DEFINE n == Len(line)
           r == SubSeq(line, f, n)
           m == n - f + 1
           u == Reverse(r)
           v == Reverse(line)
<1>1. n \in Nat /\ m \in 0 .. n /\ \A i \in f .. n : line[i] \in T
  OBVIOUS
<1>2. /\ r \in Seq(T) /\ Len(r) = m
      /\ \A i \in 1 .. m : r[i] = line[f + i - 1]
  <2>1. /\ r \in Seq(T) /\ Len(r) = IF f <= n THEN n - f + 1 ELSE 0
        /\ \A i \in 1 .. n - f + 1 : r[i] = line[f + i - 1]
    <3> DEFINE N == n
    <3>1. N \in Int /\ f \in Int /\ \A i \in f .. N : line[i] \in T
      BY <1>1
    <3> HIDE DEF N
    <3>2. /\ SubSeq(line, f, N) \in Seq(T)
          /\ Len(SubSeq(line, f, N)) = IF f <= N THEN N - f + 1 ELSE 0
          /\ \A i \in 1 .. N - f + 1 : SubSeq(line, f, N)[i] = line[f + i - 1]
      BY <3>1, SubSeqProperties
    <3> QED BY <3>2 DEF N
  <2> HIDE DEF r
  <2> QED BY <1>1, <2>1
<1> HIDE DEF r
<1>3. u = [i \in 1 .. m |-> r[m - i + 1]] /\ v = [i \in 1 .. n |-> line[n - i + 1]]
  BY <1>2 DEF Reverse
<1>4. \A i \in 1 .. m : u[i] = v[i] /\ u[i] \in T
  <2>1. ASSUME NEW i \in 1 .. m
        PROVE  u[i] = v[i] /\ u[i] \in T
    <3>1. m - i + 1 \in 1 .. m /\ f + (m - i + 1) - 1 = n - i + 1 /\ i \in 1 .. n
          /\ n - i + 1 \in f .. n
      BY <1>1
    <3>2. u[i] = r[m - i + 1] /\ v[i] = line[n - i + 1]
      BY <1>3, <3>1
    <3>3. r[m - i + 1] = line[f + (m - i + 1) - 1]
      BY <1>2, <3>1
    <3> QED BY <1>1, <3>1, <3>2, <3>3
  <2> QED BY <2>1
<1>5. Len(u) = m /\ Len(v) = n
  BY <1>1, <1>3
<1> HIDE DEF u, v, n, m
<1>6. SubSeq(u, 1, m) = SubSeq(v, 1, m)
  <2> DEFINE a == SubSeq(u, 1, m)
             b == SubSeq(v, 1, m)
  <2>1. m \in Int /\ \A i \in 1 .. m : u[i] \in T /\ v[i] \in T
    BY <1>1, <1>4
  <2>2. /\ a \in Seq(T) /\ Len(a) = IF 1 <= m THEN m - 1 + 1 ELSE 0
        /\ \A i \in 1 .. m - 1 + 1 : a[i] = u[1 + i - 1]
    BY <2>1, SubSeqProperties
  <2>3. /\ b \in Seq(T) /\ Len(b) = IF 1 <= m THEN m - 1 + 1 ELSE 0
        /\ \A i \in 1 .. m - 1 + 1 : b[i] = v[1 + i - 1]
    BY <2>1, SubSeqProperties
  <2> HIDE DEF a, b
  <2>4. Len(a) = m /\ Len(b) = m
    BY <1>1, <2>2, <2>3
  <2>5. \A i \in 1 .. m : a[i] = b[i]
    <3>1. \A i \in 1 .. m : i \in 1 .. m - 1 + 1 /\ 1 + i - 1 = i
      BY <1>1
    <3> QED BY <1>4, <2>2, <2>3, <3>1
  <2>6. a = b
    BY <2>2, <2>3, <2>4, <2>5, SeqEqual
  <2> QED BY <2>6 DEF a, b
<1> QED BY <1>1, <1>5, <1>6 DEF IsSuffix, IsPrefix, Rest, u, v, r, n

\* The text of a line, from q on, behind the blanks there.
TextOf(line, q) == Rest(line, SkipSpace(line, q))

\* When the ink of the arguments is head and what follows q, then the ink of the
\* line is its command, head and the text behind q, which does not begin blank.
LEMMA TextIs ==
  ASSUME NEW T, NEW line \in Seq(T), Len(line) >= 2, ~isspace(line[1]), ~isspace(line[2]),
         NEW q \in 3 .. Len(line) + 1, NEW head \in Seq(T),
         Ink(Rest(line, 3)) = Concat(head, Ink(Rest(Rest(line, 3), q - 2)))
  PROVE  /\ TextOf(line, q) \in Seq(T)
         /\ IsSuffix(TextOf(line, q), line)
         /\ Ink(line) = Concat(Concat(SubSeq(line, 1, 2), head), Ink(TextOf(line, q)))
         /\ TextOf(line, q) # <<>> => ~isspace(TextOf(line, q)[1])
<1> DEFINE n     == Len(line)
           a     == Rest(line, 3)
           f     == SkipSpace(line, q)
           text  == Rest(line, f)
           start == SubSeq(line, 1, 2)
<1>1. n \in Nat /\ n >= 2 /\ 1 \in 1 .. n + 1 /\ 3 \in 1 .. n + 1 /\ q \in 1 .. n + 1
      /\ \A i \in 1 .. n : line[i] \in T
  OBVIOUS
<1>2. SkipsTo(line, q, f)
  BY <1>1, SkipSpaceIs
<1> HIDE DEF f
<1>3. f \in q .. n + 1 /\ f \in 1 .. n + 1
  BY <1>1, <1>2 DEF SkipsTo
<1>4. EndsAt(line, f, WordEnd(line, f))
  BY <1>3, WordEndIs
<1>5. text \in Seq(T) /\ IsSuffix(text, line)
  BY <1>3, RestSplits, RestIsSuffix
<1>6. Rest(a, q - 2) = Rest(line, q)
  <2>1. n \in q - 1 .. n /\ Len(a) = n - 2
    BY <1>1, ArgsAre
  <2>2. SubSeq(line, q, n) = SubSeq(a, q - 2, n - 2)
    BY <2>1, PartOfLine
  <2> QED BY <2>1, <2>2 DEF Rest
<1>7. Ink(Rest(line, q)) = Ink(text)
  BY <1>1, <1>2, <1>4, InkOfRest
<1>8. line = Concat(start, a) /\ start \in Seq(T) /\ a \in Seq(T)
  <2>1. 3 \in 1 .. n + 1 /\ 3 - 1 = 2
    BY <1>1
  <2>2. /\ Rest(line, 1) = Concat(SubSeq(line, 1, 3 - 1), Rest(line, 3))
        /\ SubSeq(line, 1, 3 - 1) \in Seq(T) /\ Rest(line, 3) \in Seq(T)
    <3>1. 1 \in 1 .. Len(line) + 1 /\ 3 \in 1 .. Len(line) + 1
      BY <1>1
    <3> DEFINE p == 1
               r == 3
    <3>2. p \in 1 .. Len(line) + 1 /\ r \in p .. Len(line) + 1
      BY <1>1
    <3> HIDE DEF p, r
    <3>3. /\ Rest(line, p) = Concat(SubSeq(line, p, r - 1), Rest(line, r))
          /\ SubSeq(line, p, r - 1) \in Seq(T) /\ Rest(line, r) \in Seq(T)
      <4>1. r \in 1 .. Len(line) + 1
        BY <3>1 DEF r
      <4> QED BY <3>2, <4>1, RestSplits
    <3> QED BY <3>3 DEF p, r
  <2>3. Rest(line, 1) = line
    BY SubSeqFull DEF Rest
  <2> QED BY <2>1, <2>2, <2>3
<1>9. Ink(start) = start
  <2>1. 1 \in Int /\ 2 \in Int /\ \A i \in 1 .. 2 : line[i] \in T
    BY <1>1
  <2>2. Len(start) = 2 /\ start[1] = line[1] /\ start[2] = line[2]
    BY <1>1, <2>1
  <2>3. \A i \in 1 .. Len(start) : ~isspace(start[i])
    <3> HIDE DEF start
    <3>1. \A i \in 1 .. Len(start) : i = 1 \/ i = 2
      BY <2>2
    <3> QED BY <2>2, <3>1
  <2> QED BY <1>8, <2>3, InkOfInk
<1> HIDE DEF start, a, text
<1>10. Ink(line) = Concat(Ink(start), Ink(a))
  BY <1>8, InkConcat
<1>11. Ink(a) = Concat(head, Ink(text))
  BY <1>6, <1>7 DEF a
<1>12. Ink(text) \in Seq(T)
  <2>1. Ink(Concat(text, text)) = Concat(Ink(text), Ink(text)) /\ Ink(text) \in Seq(T)
    BY <1>5, InkConcat
  <2> QED BY <2>1
<1>13. Ink(line) = Concat(Concat(start, head), Ink(text))
  BY <1>8, <1>9, <1>10, <1>11, <1>12, ConcatAssoc
<1>14. text # <<>> => ~isspace(text[1])
  <2>1. CASE f = n + 1
    <3>1. text = <<>>
      BY <1>1, <2>1, SubSeqEmpty DEF text, Rest
    <3> QED BY <3>1
  <2>2. CASE f # n + 1
    <3>1. f \in 1 .. n /\ ~isspace(line[f])
      BY <1>2, <1>3, <2>2 DEF SkipsTo
    <3>2. text[1] = line[f]
      BY <1>1, <3>1 DEF text, Rest
    <3> QED BY <3>1, <3>2
  <2> QED BY <2>1, <2>2
<1> QED BY <1>5, <1>13, <1>14 DEF TextOf, text, f, start, a

\* The PDUs for the pieces of a text: alike but for their text.
Carries(pdus, text, flag) ==
  LET pieces == Chunks(text)
  IN /\ DOMAIN pdus = DOMAIN pieces
     /\ Len(pdus) = Len(pieces)
     /\ \A i \in DOMAIN pieces :
          /\ pdus[i].text = pieces[i] /\ pdus[i].flag = flag
          /\ pdus[i] = [pdus[1] EXCEPT !.text = pdus[i].text]

\* Then PDUs for that text account for the line, when head is the ink of what
\* they name.
LEMMA PiecesAccounted ==
  ASSUME NEW T, NEW line \in Seq(T), Len(line) >= 2, ~isspace(line[1]), ~isspace(line[2]),
         NEW q \in 3 .. Len(line) + 1, NEW head \in Seq(T),
         Ink(Rest(line, 3)) = Concat(head, Ink(Rest(Rest(line, 3), q - 2))),
         NEW flag, NEW pdus, Carries(pdus, TextOf(line, q), flag),
         HeadInk(line, flag) = Concat(SubSeq(line, 1, 2), head),
         flag # BROADCAST_FLAG => pdus[1].dsts = Named(line, flag)
  PROVE  pdus # <<>> /\ Accounted(line, pdus)
<1> DEFINE text   == TextOf(line, q)
           pieces == Chunks(text)
           n      == Len(pieces)
<1>1. /\ text \in Seq(T)
      /\ IsSuffix(text, line)
      /\ Ink(line) = Concat(Concat(SubSeq(line, 1, 2), head), Ink(text))
      /\ text # <<>> => ~isspace(text[1])
  BY TextIs
<1> HIDE DEF text
<1>2. /\ pieces \in Seq(Seq(T)) /\ n \in Nat \ {0}
      /\ FlattenSeq(pieces) = text
      /\ IF text = <<>> THEN n = 1
         ELSE \A i \in 1 .. n : Len(pieces[i]) \in 1 .. TEXT_DATA_CHUNK
  BY <1>1, ChunksSay
<1>3. /\ DOMAIN pdus = DOMAIN pieces /\ Len(pdus) = n
      /\ \A i \in DOMAIN pieces :
           /\ pdus[i].text = pieces[i] /\ pdus[i].flag = flag
           /\ pdus[i] = [pdus[1] EXCEPT !.text = pdus[i].text]
  BY DEF Carries, text
<1> HIDE DEF pieces
<1>4. DOMAIN pieces = 1 .. n /\ 1 \in 1 .. n
  BY <1>2
<1>5. Texts(pdus) = pieces
  <2>1. Texts(pdus) = [i \in 1 .. n |-> pieces[i]]
    BY <1>3, <1>4 DEF Texts
  <2>2. pieces = [i \in 1 .. n |-> pieces[i]]
    BY <1>2
  <2> QED BY <2>1, <2>2
<1>6. pdus[1].flag = flag
  BY <1>3, <1>4
<1>7. Ink(line) = HeadInk(line, flag) \o Ink(text)
  BY <1>1 DEF Concat
<1>8. \/ Len(pdus) = 1 /\ text = <<>>
      \/ \A i \in DOMAIN pdus : Len(pdus[i].text) \in 1 .. TEXT_DATA_CHUNK
  <2>1. CASE text = <<>>
    BY <1>2, <1>3, <2>1
  <2>2. CASE text # <<>>
    BY <1>2, <1>3, <1>4, <2>2
  <2> QED BY <2>1, <2>2
<1>9. pdus # <<>>
  BY <1>3, <1>4
<1> HIDE DEF n
<1>10. Accounted(line, pdus)
  <2>1. FlattenSeq(Texts(pdus)) = text
    BY <1>2, <1>5
  <2> QED BY <1>1, <1>3, <1>6, <1>7, <1>8, <2>1, Zenon DEF Accounted
<1> QED BY <1>9, <1>10

------------------------------------------------------------------------------
(* Command by command. *)

\* The letters of the commands are all different.
LEMMA CommandIs ==
  ASSUME NEW line
  PROVE  /\ IsCommand(line, {"b", "B"}) =>
              processStdin(line) = sendBroadcast(line) /\ WellFormed(line)
         /\ IsCommand(line, {"l", "L"}) =>
              processStdin(line) = sendHandleList /\ WellFormed(line)
         /\ IsCommand(line, {"m", "M"}) =>
              /\ processStdin(line) = sendUnicast(line)
              /\ WellFormed(line) <=> HasHandle(Rest(line, 3), 1)
         /\ IsCommand(line, {"c", "C"}) =>
              /\ processStdin(line) = sendMulticast(line)
              /\ WellFormed(line) <=>
                   LET args     == Rest(line, 3)
                       numOfDst == Atoi(NthWord(args, 1))
                   IN /\ Words(args) # {}
                      /\ Len(NthWord(args, 1)) <= COUNT_LEN_MAX
                      /\ numOfDst \in HANDLES_MIN .. HANDLES_MAX
                      /\ \A n \in 1 .. numOfDst : HasHandle(args, n + 1)
         /\ \/ IsCommand(line, {"b", "B"}) \/ IsCommand(line, {"m", "M"})
            \/ IsCommand(line, {"c", "C"}) \/ IsCommand(line, {"l", "L"})
            \/ processStdin(line) = <<>> /\ ~WellFormed(line)
<1> DEFINE is(letters) == Len(line) >= 2 /\ line[1] = "%" /\ line[2] \in letters
           b == is({"b", "B"})
           m == is({"m", "M"})
           c == is({"c", "C"})
           l == is({"l", "L"})
<1>1. /\ b => ~m /\ ~c /\ ~l
      /\ m => ~b /\ ~c /\ ~l
      /\ c => ~b /\ ~m /\ ~l
      /\ l => ~b /\ ~m /\ ~c
      /\ is({"b", "B", "l", "L"}) <=> b \/ l
  OBVIOUS
<1>2. /\ IsCommand(line, {"b", "B"}) <=> b
      /\ IsCommand(line, {"m", "M"}) <=> m
      /\ IsCommand(line, {"c", "C"}) <=> c
      /\ IsCommand(line, {"l", "L"}) <=> l
      /\ IsCommand(line, {"b", "B", "l", "L"}) <=> b \/ l
  BY <1>1 DEF IsCommand
<1> HIDE DEF b, m, c, l
<1>3. WellFormed(line) <=>
        LET args     == Rest(line, 3)
            numOfDst == Atoi(NthWord(args, 1))
        IN \/ b \/ l
           \/ m /\ HasHandle(args, 1)
           \/ /\ c
              /\ Words(args) # {}
              /\ Len(NthWord(args, 1)) <= COUNT_LEN_MAX
              /\ numOfDst \in HANDLES_MIN .. HANDLES_MAX
              /\ \A n \in 1 .. numOfDst : HasHandle(args, n + 1)
  BY <1>2, Zenon DEF WellFormed
<1>4. processStdin(line) = CASE b -> sendBroadcast(line)
                             [] m -> sendUnicast(line)
                             [] c -> sendMulticast(line)
                             [] l -> sendHandleList
                             [] OTHER -> <<>>
  BY <1>2 DEF processStdin
<1>5. b => processStdin(line) = sendBroadcast(line) /\ WellFormed(line)
  BY <1>1, <1>3, <1>4
<1>6. l => processStdin(line) = sendHandleList /\ WellFormed(line)
  BY <1>1, <1>3, <1>4
<1>7. m => /\ processStdin(line) = sendUnicast(line)
           /\ WellFormed(line) <=> HasHandle(Rest(line, 3), 1)
  BY <1>1, <1>3, <1>4
<1>8. c => /\ processStdin(line) = sendMulticast(line)
           /\ WellFormed(line) <=>
                LET args     == Rest(line, 3)
                    numOfDst == Atoi(NthWord(args, 1))
                IN /\ Words(args) # {}
                   /\ Len(NthWord(args, 1)) <= COUNT_LEN_MAX
                   /\ numOfDst \in HANDLES_MIN .. HANDLES_MAX
                   /\ \A n \in 1 .. numOfDst : HasHandle(args, n + 1)
  BY <1>1, <1>3, <1>4
<1>9. b \/ m \/ c \/ l \/ (processStdin(line) = <<>> /\ ~WellFormed(line))
  BY <1>3, <1>4
<1> QED BY <1>2, <1>5, <1>6, <1>7, <1>8, <1>9, Zenon

\* A command is two characters of ink, and then its arguments.
LEMMA CommandInk ==
  ASSUME NEW T, NEW line \in Seq(T), NEW letters,
         letters \in {{"b", "B"}, {"m", "M"}, {"c", "C"}, {"l", "L"}}, IsCommand(line, letters)
  PROVE  /\ Len(line) >= 2 /\ ~isspace(line[1]) /\ ~isspace(line[2])
         /\ SubSeq(line, 1, 2) \in Seq(T)
         /\ LET a == Rest(line, 3)
            IN /\ a \in Seq(T) /\ Len(a) = Len(line) - 2 /\ Rest(a, 1) = a
               /\ Reached(a, 1, 0)
               /\ 3 \in 3 .. Len(line) + 1
<1>1. Len(line) >= 2 /\ ~isspace(line[1]) /\ ~isspace(line[2])
  BY DEF IsCommand, isspace
<1>2. SubSeq(line, 1, 2) \in Seq(T)
  BY <1>1
<1> DEFINE a == Rest(line, 3)
<1>3. a \in Seq(T) /\ Len(a) = Len(line) - 2
  BY <1>1, ArgsAre
<1> HIDE DEF a
<1>4. Rest(a, 1) = a /\ Reached(a, 1, 0)
  BY <1>3, SubSeqFull, ReachedFirst DEF Rest
<1>5. 3 \in 3 .. Len(line) + 1
  BY <1>1
<1> QED BY <1>1, <1>2, <1>3, <1>4, <1>5 DEF a

\* The pieces of one text differ in their text only.
LEMMA BroadcastFields ==
  ASSUME NEW src, NEW x, NEW y
  PROVE  LET r == BroadcastPacket(src, x)
             s == BroadcastPacket(src, y)
         IN s.text = y /\ s.flag = BROADCAST_FLAG /\ s = [r EXCEPT !.text = s.text]
BY DEF BroadcastPacket

LEMMA MessageFields ==
  ASSUME NEW flag, NEW src, NEW dsts, NEW x, NEW y
  PROVE  LET r == MessagePacket(flag, src, dsts, x)
             s == MessagePacket(flag, src, dsts, y)
         IN /\ s.text = y /\ s.flag = flag /\ s.dsts = dsts
            /\ s = [r EXCEPT !.text = s.text]
BY DEF MessagePacket

\* %b: all of the arguments is text.
LEMMA BroadcastSays ==
  ASSUME NEW T, NEW line \in Seq(T), IsCommand(line, {"b", "B"})
  PROVE  sendBroadcast(line) # <<>> /\ Accounted(line, sendBroadcast(line))
<1> DEFINE a      == Rest(line, 3)
           text   == TextOf(line, 3)
           pieces == Chunks(text)
           pdus   == sendBroadcast(line)
           start  == SubSeq(line, 1, 2)
<1>1. /\ Len(line) >= 2 /\ ~isspace(line[1]) /\ ~isspace(line[2]) /\ start \in Seq(T)
      /\ a \in Seq(T) /\ Rest(a, 1) = a /\ 3 \in 3 .. Len(line) + 1
  BY CommandInk
<1>2. <<>> \in Seq(T) /\ Ink(a) = Concat(<<>>, Ink(a))
  <2>1. Ink(a) \in Seq(T)
    BY <1>1, InkConcat
  <2> QED BY <2>1, ConcatNone
<1>3. Ink(a) = Concat(<<>>, Ink(Rest(a, 3 - 2)))
  BY <1>1, <1>2
<1> DEFINE head == <<>>
<1>4. text \in Seq(T)
  <2>1. head \in Seq(T) /\ Ink(a) = Concat(head, Ink(Rest(a, 3 - 2)))
    BY <1>2, <1>3
  <2> HIDE DEF head
  <2> QED BY <1>1, <2>1, TextIs
<1>5. Carries(pdus, text, BROADCAST_FLAG)
  <2>1. pieces \in Seq(Seq(T)) /\ Len(pieces) \in Nat \ {0}
    BY <1>4, ChunksSay
  <2>2. pdus = [i \in DOMAIN pieces |-> BroadcastPacket(myHandle, pieces[i])]
    BY DEF sendBroadcast, TextOf
  <2> HIDE DEF pieces, pdus
  <2>3. DOMAIN pieces = 1 .. Len(pieces)
    BY <2>1
  <2>4. DOMAIN pdus = DOMAIN pieces /\ Len(pdus) = Len(pieces)
    BY <2>1, <2>2, <2>3
  <2>5. ASSUME NEW i \in DOMAIN pieces
        PROVE  /\ pdus[i].text = pieces[i] /\ pdus[i].flag = BROADCAST_FLAG
               /\ pdus[i] = [pdus[1] EXCEPT !.text = pdus[i].text]
    <3>1. 1 \in DOMAIN pieces
      BY <2>1, <2>3
    <3>2. /\ pdus[1] = BroadcastPacket(myHandle, pieces[1])
          /\ pdus[i] = BroadcastPacket(myHandle, pieces[i])
      BY <2>2, <3>1
    <3> QED BY <3>2, BroadcastFields
  <2> QED BY <2>4, <2>5 DEF Carries, pieces
<1>6. HeadInk(line, BROADCAST_FLAG) = Concat(start, <<>>)
  <2>1. Named(line, BROADCAST_FLAG) = <<>> /\ BROADCAST_FLAG # MULTICAST_FLAG
    BY DEF Named, BROADCAST_FLAG, UNICAST_FLAG, MULTICAST_FLAG
  <2>2. HeadInk(line, BROADCAST_FLAG) = Concat(Concat(start, <<>>), <<>>)
    BY <2>1, FlattenNone DEF HeadInk, Concat
  <2> HIDE DEF start
  <2>3. Concat(start, <<>>) = start
    BY <1>1, ConcatNone
  <2> QED BY <2>2, <2>3
<1>7. /\ head \in Seq(T) /\ Ink(a) = Concat(head, Ink(Rest(a, 3 - 2)))
      /\ HeadInk(line, BROADCAST_FLAG) = Concat(start, head)
  BY <1>2, <1>3, <1>6
<1> HIDE DEF head, pdus, text
<1> QED BY <1>1, <1>5, <1>7, PiecesAccounted DEF pdus, text

\* The PDUs with destinations, for a text.
Messages(text, flag, dsts) ==
  [i \in DOMAIN Chunks(text) |-> MessagePacket(flag, myHandle, dsts, Chunks(text)[i])]

\* The PDUs with destinations are alike but for their text.
LEMMA MessagesCarry ==
  ASSUME NEW T, NEW text \in Seq(T), NEW flag, NEW dsts
  PROVE  /\ Carries(Messages(text, flag, dsts), text, flag)
         /\ Messages(text, flag, dsts)[1].dsts = dsts
<1> DEFINE pieces == Chunks(text)
           pdus   == Messages(text, flag, dsts)
<1>1. pieces \in Seq(Seq(T)) /\ Len(pieces) \in Nat \ {0}
  BY ChunksSay
<1>2. pdus = [i \in DOMAIN pieces |-> MessagePacket(flag, myHandle, dsts, pieces[i])]
  BY DEF Messages
<1> HIDE DEF pieces, pdus
<1>3. DOMAIN pieces = 1 .. Len(pieces)
  BY <1>1
<1>4. DOMAIN pdus = DOMAIN pieces /\ Len(pdus) = Len(pieces) /\ 1 \in DOMAIN pieces
  BY <1>1, <1>2, <1>3
<1>5. \A j \in DOMAIN pieces : pdus[j] = MessagePacket(flag, myHandle, dsts, pieces[j])
  BY <1>2
<1>6. ASSUME NEW i \in DOMAIN pieces
      PROVE  /\ pdus[i].text = pieces[i] /\ pdus[i].flag = flag
             /\ pdus[i] = [pdus[1] EXCEPT !.text = pdus[i].text]
  <2>1. /\ pdus[1] = MessagePacket(flag, myHandle, dsts, pieces[1])
        /\ pdus[i] = MessagePacket(flag, myHandle, dsts, pieces[i])
    BY <1>4, <1>5
  <2> QED BY <2>1, MessageFields
<1>7. pdus[1].dsts = dsts
  BY <1>4, <1>5, MessageFields
<1> QED BY <1>4, <1>6, <1>7 DEF Carries, pieces, pdus

\* So they account for a line that names these destinations.
LEMMA MessagesAccounted ==
  ASSUME NEW T, NEW line \in Seq(T), Len(line) >= 2, ~isspace(line[1]), ~isspace(line[2]),
         NEW q \in 3 .. Len(line) + 1, NEW head \in Seq(T),
         Ink(Rest(line, 3)) = Concat(head, Ink(Rest(Rest(line, 3), q - 2))),
         NEW flag, NEW dsts, dsts = Named(line, flag),
         HeadInk(line, flag) = Concat(SubSeq(line, 1, 2), head)
  PROVE  /\ Messages(TextOf(line, q), flag, dsts) # <<>>
         /\ Accounted(line, Messages(TextOf(line, q), flag, dsts))
<1> DEFINE text == TextOf(line, q)
           pdus == Messages(text, flag, dsts)
<1>1. text \in Seq(T)
  BY TextIs
<1> HIDE DEF text
<1>2. Carries(pdus, text, flag) /\ pdus[1].dsts = dsts
  BY <1>1, MessagesCarry
<1> HIDE DEF pdus
<1> QED BY <1>2, PiecesAccounted DEF text, pdus

\* %m: the first word is the handle, and the rest is text.
LEMMA UnicastSays ==
  ASSUME NEW T, NEW line \in Seq(T), IsCommand(line, {"m", "M"})
  PROVE  /\ sendUnicast(line) # <<>> <=> HasHandle(Rest(line, 3), 1)
         /\ sendUnicast(line) # <<>> => Accounted(line, sendUnicast(line))
<1> DEFINE a      == Rest(line, 3)
           words  == DstWords(line, 3, 1)
           q      == words[1].end
           dst    == words[1].dst
           pdus   == sendUnicast(line)
           start  == SubSeq(line, 1, 2)
           named  == Handles(a, 0, 1)
           head   == FlattenSeq(named)
<1>1. /\ Len(line) >= 2 /\ ~isspace(line[1]) /\ ~isspace(line[2]) /\ start \in Seq(T)
      /\ a \in Seq(T) /\ Rest(a, 1) = a /\ Reached(a, 1, 0) /\ 3 \in 3 .. Len(line) + 1
  BY CommandInk
<1>2. /\ q \in 3 .. Len(line) + 1
      /\ dst # <<>> <=> HasHandle(a, 1)
      /\ dst # <<>> => /\ named \in Seq(Seq(T))
                       /\ dst = NthWord(a, 1)
                       /\ Ink(a) = Concat(head, Ink(Rest(a, q - 2)))
  <2>1. Reached(a, 3 - 2, 0) /\ 3 - 2 = 1 /\ 0 \in Nat /\ 1 \in Nat /\ 0 + 1 = 1
    BY <1>1
  <2>2. /\ words[1].end \in 3 .. Len(line) + 1
        /\ \A i \in 1 .. 1 : words[i].dst # <<>> <=> HasHandle(a, 0 + i)
        /\ (\A i \in 1 .. 1 : words[i].dst # <<>>) =>
             /\ named \in Seq(Seq(T))
             /\ \A i \in 1 .. 1 : words[i].dst = NthWord(a, 0 + i)
             /\ Ink(Rest(a, 3 - 2)) = Concat(FlattenSeq(named), Ink(Rest(a, words[1].end - 2)))
    <3> DEFINE from == 3
               n    == 1
               skip == 0
    <3>1. from \in 3 .. Len(line) + 1 /\ Reached(a, from - 2, skip) /\ n \in Nat /\ skip \in Nat
      BY <1>1, <2>1
    <3> HIDE DEF from, n, skip
    <3>2. DstsFound(T, line, from, skip, n)
      BY <1>1, <3>1, DstsRead
    <3> QED BY <3>2 DEF DstsFound, from, n, skip
  <2> HIDE DEF words, named, a
  <2>3. 1 \in 1 .. 1 /\ \A i \in 1 .. 1 : i = 1 /\ 0 + i = 1
    OBVIOUS
  <2> QED BY <1>1, <2>1, <2>2, <2>3
<1>3. pdus = IF dst = <<>> THEN <<>>
             ELSE Messages(TextOf(line, q), UNICAST_FLAG, <<dst>>)
  BY DEF sendUnicast, TextOf, Messages
<1> HIDE DEF pdus, q, dst
<1>4. CASE dst = <<>>
  BY <1>2, <1>3, <1>4 DEF pdus
<1>5. CASE dst # <<>>
  <2>1. head \in Seq(T) /\ named = <<dst>>
    <3>1. named \in Seq(Seq(T))
      BY <1>2, <1>5
    <3>2. named = <<NthWord(a, 1)>>
      <4> HIDE DEF a
      <4>1. named = [i \in 1 .. 1 |-> NthWord(a, 0 + i)]
        BY DEF Handles
      <4>2. \A i \in 1 .. 1 : i = 1 /\ 0 + i = 1
        OBVIOUS
      <4>3. named = [i \in 1 .. 1 |-> NthWord(a, 1)]
        BY <4>1, <4>2
      <4> HIDE DEF named
      <4> QED BY <4>3
    <3>3. FlattenSeq(named) \in Seq(T)
      <4>1. <<>> \in Seq(T)
        OBVIOUS
      <4> QED BY <3>1, <4>1, FlattenAppend
    <3> QED BY <1>2, <1>5, <3>2, <3>3
  <2> HIDE DEF named
  <2>2. /\ Ink(a) = Concat(head, Ink(Rest(a, q - 2)))
    BY <1>2, <1>5
  <2> HIDE DEF head
  <2>3. Named(line, UNICAST_FLAG) = <<dst>> /\ UNICAST_FLAG # MULTICAST_FLAG
    BY <1>2, <1>5 DEF Named, BROADCAST_FLAG, UNICAST_FLAG, MULTICAST_FLAG
  <2>4. HeadInk(line, UNICAST_FLAG) = Concat(start, head)
    <3>1. HeadInk(line, UNICAST_FLAG) = Concat(Concat(start, <<>>), head)
      BY <2>1, <2>3 DEF HeadInk, Concat, head
    <3> HIDE DEF start
    <3>2. Concat(start, <<>>) = start
      BY <1>1, ConcatNone
    <3> QED BY <3>1, <3>2
  <2>5. pdus = Messages(TextOf(line, q), UNICAST_FLAG, <<dst>>)
    BY <1>3, <1>5
  <2> DEFINE dsts == <<dst>>
  <2> HIDE DEF dsts
  <2>6. pdus # <<>> /\ Accounted(line, pdus)
    BY <1>1, <1>2, <2>1, <2>2, <2>3, <2>4, <2>5, MessagesAccounted DEF dsts
  <2> QED BY <1>2, <1>5, <2>6 DEF pdus
<1> QED BY <1>4, <1>5 DEF pdus

\* The handles behind a word are numbered from the second word on.
LEMMA NamedIs ==
  ASSUME NEW a, NEW n \in Nat
  PROVE  Handles(a, 1, n) = [i \in 1 .. n |-> NthWord(a, i + 1)]
<1>1. \A i \in 1 .. n : 1 + i = i + 1
  OBVIOUS
<1> QED BY <1>1 DEF Handles

\* %c: the first word is the number of handles, which follow it.
LEMMA MulticastSays ==
  ASSUME NEW T, NEW line \in Seq(T), IsCommand(line, {"c", "C"})
  PROVE  LET a        == Rest(line, 3)
             numOfDst == Atoi(NthWord(a, 1))
             pdus     == sendMulticast(line)
         IN /\ pdus # <<>> <=>
                 /\ Words(a) # {}
                 /\ Len(NthWord(a, 1)) <= COUNT_LEN_MAX
                 /\ numOfDst \in HANDLES_MIN .. HANDLES_MAX
                 /\ \A n \in 1 .. numOfDst : HasHandle(a, n + 1)
            /\ pdus # <<>> => Accounted(line, pdus)
<1> DEFINE a        == Rest(line, 3)
           from     == SkipSpace(line, 3)
           behind   == WordEnd(line, from)
           number   == Word(line, from, COUNT_LEN_MAX)
           numOfDst == Atoi(number)
           words    == DstWords(line, behind, numOfDst)
           dsts     == [i \in 1 .. numOfDst |-> words[i].dst]
           q        == words[numOfDst].end
           pdus     == sendMulticast(line)
           start    == SubSeq(line, 1, 2)
           named    == Handles(a, 1, numOfDst)
           head     == Concat(number, FlattenSeq(named))
<1>1. /\ Len(line) >= 2 /\ ~isspace(line[1]) /\ ~isspace(line[2]) /\ start \in Seq(T)
      /\ a \in Seq(T) /\ Rest(a, 1) = a /\ Reached(a, 1, 0) /\ 3 \in 3 .. Len(line) + 1
  BY CommandInk
<1>2. /\ behind \in 3 .. Len(line) + 1
      /\ Reached(a, behind - 2, 1)
      /\ number # <<>> <=> Words(a) # {} /\ Len(NthWord(a, 1)) <= COUNT_LEN_MAX
      /\ number # <<>> => /\ number = NthWord(a, 1)
                          /\ number \in Seq(T)
                          /\ Ink(a) = Concat(number, Ink(Rest(a, behind - 2)))
  <2>1. COUNT_LEN_MAX \in Nat
    BY CommandLineAssumption
  <2> DEFINE p == 3
             k == 0
  <2>2. p \in 3 .. Len(line) + 1 /\ Reached(a, p - 2, k) /\ k \in Nat /\ p - 2 = 1 /\ k + 1 = 1
    BY <1>1
  <2>3. SkipSpace(line, p) = from
    OBVIOUS
  <2> HIDE DEF p, k
  <2>4. LET f    == SkipSpace(line, p)
            e    == WordEnd(line, f)
            word == Word(line, f, COUNT_LEN_MAX)
        IN /\ e \in 3 .. Len(line) + 1
           /\ Reached(a, e - 2, k + 1)
           /\ word # <<>> <=> /\ k + 1 <= Cardinality(Words(a))
                              /\ Len(NthWord(a, k + 1)) <= COUNT_LEN_MAX
           /\ word # <<>> => /\ word = NthWord(a, k + 1)
                             /\ word \in Seq(T)
                             /\ Ink(Rest(a, p - 2)) = Concat(word, Ink(Rest(a, e - 2)))
    BY <1>1, <2>1, <2>2, WordRead
  <2>5. 1 <= Cardinality(Words(a)) <=> Words(a) # {}
    <3>1. IsFiniteSet(Words(a)) /\ Cardinality(Words(a)) \in Nat
      BY <1>1, WordsFinite
    <3>2. Cardinality(Words(a)) = 0 <=> Words(a) = {}
      BY <3>1, FS_EmptySet
    <3> QED BY <3>1, <3>2
  <2> HIDE DEF a, from
  <2> QED BY <1>1, <2>2, <2>3, <2>4, <2>5
<1>3. pdus = IF numOfDst \notin HANDLES_MIN .. HANDLES_MAX \/ <<>> \in ToSet(dsts) THEN <<>>
             ELSE Messages(TextOf(line, q), MULTICAST_FLAG, dsts)
  BY DEF sendMulticast, TextOf, Messages
<1> HIDE DEF pdus, number, behind
<1> DEFINE meant == /\ Words(a) # {}
                    /\ Len(NthWord(a, 1)) <= COUNT_LEN_MAX
                    /\ Atoi(NthWord(a, 1)) \in HANDLES_MIN .. HANDLES_MAX
                    /\ \A n \in 1 .. Atoi(NthWord(a, 1)) : HasHandle(a, n + 1)
<1>4. CASE numOfDst \notin HANDLES_MIN .. HANDLES_MAX
  <2>1. pdus = <<>>
    BY <1>3, <1>4
  <2>2. ~meant
    BY <1>2, <1>4, Zenon
  <2> QED BY <2>1, <2>2 DEF pdus
<1>5. CASE numOfDst \in HANDLES_MIN .. HANDLES_MAX
  <2>1. number # <<>>
    <3>1. 0 \notin HANDLES_MIN .. HANDLES_MAX
      BY DEF HANDLES_MIN, HANDLES_MAX
    <3> QED BY <1>5, <3>1, NoDigits
  <2>2. /\ number = NthWord(a, 1) /\ number \in Seq(T) /\ numOfDst \in Nat
        /\ Ink(a) = Concat(number, Ink(Rest(a, behind - 2)))
    BY <1>2, <1>5, <2>1 DEF HANDLES_MIN, HANDLES_MAX
  <2>3. meant <=> \A n \in 1 .. numOfDst : HasHandle(a, n + 1)
    BY <1>2, <1>5, <2>1, <2>2, Zenon
  <2> HIDE DEF meant, numOfDst
  <2>4. /\ q \in 3 .. Len(line) + 1
        /\ \A i \in 1 .. numOfDst : words[i].dst # <<>> <=> HasHandle(a, i + 1)
        /\ (\A i \in 1 .. numOfDst : words[i].dst # <<>>) =>
             /\ named \in Seq(Seq(T))
             /\ \A i \in 1 .. numOfDst : words[i].dst = NthWord(a, i + 1)
             /\ Ink(Rest(a, behind - 2)) = Concat(FlattenSeq(named), Ink(Rest(a, q - 2)))
    <3> DEFINE skip == 1
    <3>1. skip \in Nat /\ Reached(a, behind - 2, skip)
      BY <1>2
    <3> HIDE DEF skip
    <3>2. DstsFound(T, line, behind, skip, numOfDst)
      BY <1>1, <1>2, <2>2, <3>1, DstsRead
    <3>3. \A i \in 1 .. numOfDst : skip + i = i + 1
      BY <2>2 DEF skip
    <3>4. named = Handles(a, skip, numOfDst)
      BY DEF skip
    <3> HIDE DEF a, words, named
    <3> QED BY <3>2, <3>3, <3>4 DEF DstsFound, a, words
  <2> HIDE DEF words
  <2>5. <<>> \in ToSet(dsts) <=> \E i \in 1 .. numOfDst : words[i].dst = <<>>
    BY DEF ToSet
  <2>6. CASE <<>> \in ToSet(dsts)
    <3>1. pdus = <<>> /\ ~meant
      <4>1. pdus = <<>>
        BY <1>3, <2>6 DEF words, numOfDst
      <4>2. ~meant
        BY <2>3, <2>4, <2>5, <2>6
      <4> QED BY <4>1, <4>2
    <3> QED BY <3>1 DEF pdus, meant
  <2>7. CASE ~(<<>> \in ToSet(dsts))
    <3>1. \A i \in 1 .. numOfDst : words[i].dst # <<>>
      BY <2>5, <2>7
    <3>2. meant
      BY <2>3, <2>4, <3>1
    <3>3. /\ named \in Seq(Seq(T))
          /\ \A i \in 1 .. numOfDst : words[i].dst = NthWord(a, i + 1)
          /\ Ink(Rest(a, behind - 2)) = Concat(FlattenSeq(named), Ink(Rest(a, q - 2)))
      BY <2>4, <3>1
    <3>4. Named(line, MULTICAST_FLAG) = [n \in 1 .. numOfDst |-> NthWord(a, n + 1)]
      BY <2>2 DEF Named, numOfDst, BROADCAST_FLAG, UNICAST_FLAG, MULTICAST_FLAG
    <3>5. dsts = Named(line, MULTICAST_FLAG) /\ named = Named(line, MULTICAST_FLAG)
      <4>1. dsts = [n \in 1 .. numOfDst |-> NthWord(a, n + 1)]
        BY <3>3
      <4>2. named = [n \in 1 .. numOfDst |-> NthWord(a, n + 1)]
        BY <2>2, NamedIs
      <4> QED BY <3>4, <4>1, <4>2
    <3> HIDE DEF named, dsts, q
    <3>6. FlattenSeq(named) \in Seq(T)
      <4>1. <<>> \in Seq(T)
        OBVIOUS
      <4> QED BY <3>3, <4>1, FlattenAppend
    <3> DEFINE flat == FlattenSeq(named)
               tail == Ink(Rest(a, q - 2))
    <3>7. tail \in Seq(T)
      <4>1. q - 2 \in 1 .. Len(a) + 1
        BY <1>1, <2>4, ArgsAre
      <4>2. Rest(a, q - 2) \in Seq(T)
        BY <1>1, <4>1, RestSplits
      <4> QED BY <4>2, InkConcat
    <3>8. head \in Seq(T) /\ Ink(a) = Concat(head, tail)
      <4> HIDE DEF flat, tail, a
      <4>1. /\ head = Concat(number, flat) /\ flat \in Seq(T)
            /\ Ink(a) = Concat(number, Concat(flat, tail))
        BY <2>2, <3>3, <3>6 DEF flat, tail
      <4> HIDE DEF head
      <4> QED BY <2>2, <3>7, <4>1, ConcatTyped, ConcatAssoc
    <3>9. HeadInk(line, MULTICAST_FLAG) = Concat(start, head)
      <4>1. HeadInk(line, MULTICAST_FLAG) = Concat(Concat(start, number), flat)
        BY <2>2, <3>5 DEF HeadInk, Concat
      <4> HIDE DEF start, flat
      <4>2. Concat(Concat(start, number), flat) = Concat(start, Concat(number, flat))
        BY <1>1, <2>2, <3>6, ConcatAssoc DEF flat
      <4> QED BY <4>1, <4>2 DEF flat
    <3>10. pdus = Messages(TextOf(line, q), MULTICAST_FLAG, dsts)
      BY <1>3, <1>5, <2>7 DEF words, numOfDst, dsts, q
    <3> HIDE DEF head
    <3>11. pdus # <<>> /\ Accounted(line, pdus)
      BY <1>1, <2>4, <3>5, <3>8, <3>9, <3>10, MessagesAccounted DEF q
    <3> QED BY <3>2, <3>11 DEF pdus, meant
  <2> QED BY <2>6, <2>7
<1> QED BY <1>4, <1>5

\* Whatever the characters of a line, processStdin sends it as it was meant, or
\* refuses it for a reason (cclient.c:109-346).
THEOREM EveryLine ==
  ASSUME NEW T
  PROVE  \A line \in Seq(T) : SaysWhatWasTyped(line)
<1> SUFFICES ASSUME NEW line \in Seq(T)
             PROVE  SaysWhatWasTyped(line)
  OBVIOUS
<1>1. CASE IsCommand(line, {"b", "B"})
  BY <1>1, CommandIs, BroadcastSays DEF SaysWhatWasTyped
<1>2. CASE IsCommand(line, {"m", "M"})
  BY <1>2, CommandIs, UnicastSays DEF SaysWhatWasTyped
<1>3. CASE IsCommand(line, {"c", "C"})
  BY <1>3, CommandIs, MulticastSays, Zenon DEF SaysWhatWasTyped
<1>4. CASE IsCommand(line, {"l", "L"})
  <2>1. sendHandleList # <<>>
    BY DEF sendHandleList
  <2> QED BY <1>4, <2>1, CommandIs DEF SaysWhatWasTyped
<1>5. CASE processStdin(line) = <<>> /\ ~WellFormed(line)
  BY <1>5 DEF SaysWhatWasTyped
<1> QED BY <1>1, <1>2, <1>3, <1>4, <1>5, CommandIs

------------------------------------------------------------------------------
(* The theorems. *)

\* The inductive invariant holds, whatever is typed, in whatever pieces it
\* arrives and whatever a read() takes (readFromStdin, cclient.c:482-496).
THEOREM Invariance == Spec => []IInv
<1>1. IInv /\ [Next]_vars => IInv'
  <2> SUFFICES ASSUME IInv, [Next]_vars PROVE IInv'
    OBVIOUS
  <2>1. CASE Arrive
    BY <2>1, ArriveKeeps
  <2>2. CASE Close
    BY <2>2, OthersKeep
  <2>3. CASE Client
    BY <2>3, RefillKeeps, GetcharKeeps, OthersKeep DEF Client
  <2>4. CASE UNCHANGED vars
    BY <2>4 DEF vars, IInv, TypeOK, AllThere, NothingLeft
  <2> QED BY <2>1, <2>2, <2>3, <2>4 DEF Next
<1> QED BY <1>1, InitHolds, PTL DEF Spec

\* The variables have their types: buffer is never full between two calls of
\* getchar(), and neither it nor a line ever holds a newline.
THEOREM TypeCorrect == Spec => []TypeOK
<1>1. IInv => TypeOK
  BY DEF IInv
<1> QED BY <1>1, Invariance, PTL

\* Every character that has arrived is in a line, in buffer, in the buffer of
\* stdin or in the kernel, once and in its place, and the client ends with
\* nothing left but an unfinished line (cclient.c:482-496).
THEOREM NoCharacterLost == Spec => []CharsAccounted
<1>1. IInv => CharsAccounted
  BY AllThereIs DEF IInv, NothingLeft
<1> QED BY <1>1, Invariance, PTL

\* Every line that is read is sent as it was meant, or refused for a reason
\* (cclient.c:109-346), whatever the lengths of its words and of its text.
THEOREM LinesSentRight == Spec => []LinesSent
<1>1. TypeOK => LinesSent
  <2> SUFFICES ASSUME TypeOK, NEW i \in DOMAIN lines
               PROVE  SaysWhatWasTyped(lines[i])
    BY DEF LinesSent
  <2> DEFINE T == Chars \ {NL}
  <2> HIDE DEF T
  <2>1. lines \in Seq(Seq(T))
    BY DEF TypeOK, T
  <2>2. i \in 1 .. Len(lines)
    BY <2>1
  <2>3. lines[i] \in Seq(T)
    BY <2>1, <2>2, ElementOfSeq
  <2> QED BY <2>3, EveryLine
<1> QED BY <1>1, TypeCorrect, PTL
==============================================================================
