--------------------------- MODULE PduStreamProofs ---------------------------
(***************************************************************************)
(* The type invariant of PduStream, and that its receiver keeps step with  *)
(* its sender, for all PDUs, all lengths and all pieces they arrive in.    *)
(***************************************************************************)
EXTENDS PduStream, ScanLemmas, SequenceTheorems, TLAPS

------------------------------------------------------------------------------
(* Bytes on their way. *)

\* Names for what the lemmas relate, which the provers leave alone.
ByteString(s) == s \in Seq(Bytes)

Strings(a, b, c, d) == ByteString(a) /\ ByteString(b) /\ ByteString(c) /\ ByteString(d)

\* Appending strings of bytes two by two or in a row is the same.
LEMMA Regroup ==
  \A a, b, c, d : Strings(a, b, c, d) => (a \o b) \o (c \o d) = (a \o (b \o c)) \o d
<1> SUFFICES ASSUME NEW a, NEW b, NEW c, NEW d, Strings(a, b, c, d)
             PROVE  (a \o b) \o (c \o d) = (a \o (b \o c)) \o d
  BY Zenon
<1>1. a \in Seq(Bytes) /\ b \in Seq(Bytes) /\ c \in Seq(Bytes) /\ d \in Seq(Bytes)
  BY DEF Strings, ByteString
<1>2. (a \o b) \o (c \o d) = ((a \o b) \o c) \o d
  <2>1. a \o b \in Seq(Bytes)
    BY <1>1, ConcatProperties
  <2> QED BY <1>1, <2>1, ConcatAssociative
<1>3. (a \o b) \o c = a \o (b \o c)
  BY <1>1, ConcatAssociative
<1> QED BY <1>2, <1>3

\* A string that is not empty is its first byte and the rest.
LEMMA FirstAndRest ==
  ASSUME NEW s \in Seq(Bytes), s # <<>>
  PROVE  /\ Head(s) \in Bytes /\ Tail(s) \in Seq(Bytes)
         /\ s = <<Head(s)>> \o Tail(s)
<1>1. /\ Head(s) \in Bytes /\ Tail(s) \in Seq(Bytes) /\ Len(Tail(s)) = Len(s) - 1
      /\ \A i \in 1 .. Len(Tail(s)) : Tail(s)[i] = s[i + 1]
  BY HeadTailProperties
<1>2. Len(s) \in Nat \ {0} /\ Head(s) = s[1]
  OBVIOUS
<1> DEFINE t == <<Head(s)>> \o Tail(s)
<1>3. t \in Seq(Bytes) /\ Len(t) = Len(s) /\ t[1] = Head(s)
  BY <1>1, <1>2
<1>4. \A i \in 1 .. Len(s) : i # 1 => t[i] = Tail(s)[i - 1] /\ i - 1 \in 1 .. Len(Tail(s))
  BY <1>1, <1>2
<1>5. \A i \in 1 .. Len(s) : t[i] = s[i]
  BY <1>1, <1>2, <1>3, <1>4
<1> HIDE DEF t
<1>6. t = s
  BY <1>3, <1>5, SeqEqual
<1> QED BY <1>1, <1>6 DEF t

\* A byte that moves on to the next place stays where it is in the stream.
LEMMA MoveOne ==
  ASSUME NEW a \in Seq(Bytes), NEW b \in Seq(Bytes), NEW c \in Seq(Bytes), b # <<>>
  PROVE  (Append(a, Head(b)) \o Tail(b)) \o c = (a \o b) \o c
<1>1. Head(b) \in Bytes /\ Tail(b) \in Seq(Bytes) /\ b = <<Head(b)>> \o Tail(b)
  BY FirstAndRest
<1>2. Append(a, Head(b)) = a \o <<Head(b)>> /\ <<Head(b)>> \in Seq(Bytes)
  BY <1>1, AppendIsConcat
<1>3. (a \o <<Head(b)>>) \o Tail(b) = a \o (<<Head(b)>> \o Tail(b))
  BY <1>1, <1>2, ConcatAssociative
<1> QED BY <1>1, <1>2, <1>3

\* A byte that moves from the front of c to the end of b leaves the whole as it is.
LEMMA MoveNext ==
  ASSUME NEW a \in Seq(Bytes), NEW b \in Seq(Bytes), NEW c \in Seq(Bytes), c # <<>>
  PROVE  (a \o Append(b, Head(c))) \o Tail(c) = (a \o b) \o c
<1>1. Head(c) \in Bytes /\ Tail(c) \in Seq(Bytes) /\ c = <<Head(c)>> \o Tail(c)
  BY FirstAndRest
<1>2. Append(b, Head(c)) = b \o <<Head(c)>> /\ <<Head(c)>> \in Seq(Bytes)
  BY <1>1, AppendIsConcat
<1>3. (a \o b) \o (<<Head(c)>> \o Tail(c)) = (a \o (b \o <<Head(c)>>)) \o Tail(c)
  <2>1. Strings(a, b, <<Head(c)>>, Tail(c))
    BY <1>1, <1>2 DEF ByteString, Strings
  <2> QED BY <2>1, Regroup
<1> QED BY <1>1, <1>2, <1>3

Join(a, b, c) == (a \o b) \o c

Rejoined(a, b, c, d) == Join(a, b, c \o d) = Join(a, b \o c, d)

\* The same, for the strings a connection is made of.
LEMMA Rejoin ==
  \A a, b, c, d : Strings(a, b, c, d) => Rejoined(a, b, c, d)
BY Regroup DEF Join, Rejoined

\* Bytes that are lost are the last ones under way.
LEMMA SplitAt ==
  ASSUME NEW b \in Seq(Bytes), NEW n \in 0 .. Len(b)
  PROVE  /\ ByteString(SubSeq(b, 1, n)) /\ ByteString(SubSeq(b, n + 1, Len(b)))
         /\ b = SubSeq(b, 1, n) \o SubSeq(b, n + 1, Len(b))
<1>1. Len(b) \in Nat /\ \A i \in 1 .. Len(b) : b[i] \in Bytes
  OBVIOUS
<1>2. ByteString(SubSeq(b, 1, n)) /\ ByteString(SubSeq(b, n + 1, Len(b)))
  BY <1>1, SubSeqProperties DEF ByteString
<1>3. SubSeq(b, 1, n) \o SubSeq(b, n + 1, Len(b)) = SubSeq(b, 1, Len(b))
  <2>1. /\ 1 \in 1 .. Len(b) + 1 /\ n \in 1 - 1 .. Len(b)
        /\ Len(b) \in n .. Len(b)
    BY <1>1
  <2> QED BY <2>1, ConcatAdjacentSubSeq
<1>4. b = SubSeq(b, 1, Len(b))
  BY SubSeqFull
<1> QED BY <1>2, <1>3, <1>4

------------------------------------------------------------------------------
(* The header. *)

\* A length that fits the two bytes is read back as it was written.
LEMMA HeaderReadBack ==
  ASSUME NEW n \in Nat, n < Base * Base
  PROVE  /\ Htons(n) \in Seq(Bytes) /\ Len(Htons(n)) = 2
         /\ Ntohs(Htons(n)) = n
<1>1. Base \in Nat /\ Base > 0
  BY PacketBytesAssumption DEF HANDLE_FINISH_FLAG
<1>2. n = Base * (n \div Base) + (n % Base) /\ n % Base \in 0 .. Base - 1 /\ n \div Base \in Nat
  BY <1>1
<1>3. n \div Base < Base
  BY <1>1
<1>4. (n \div Base) % Base = n \div Base
  BY <1>1, <1>2, <1>3
<1> QED BY <1>1, <1>2, <1>4 DEF Htons, Ntohs, Byte, Bytes

------------------------------------------------------------------------------
(* What is built is what is parsed. *)

\* The flags are bytes, and every number the builders write into one.
LEMMA ByteFacts ==
  /\ Base \in Nat /\ Base > 13
  /\ \A n \in 0 .. 13 : n \in Bytes
  /\ HANDLE_NAME_MAX \in 1 .. Base - 1
BY PacketBytesAssumption DEF HANDLE_FINISH_FLAG, Bytes

\* A byte alone.
LEMMA OneByte ==
  ASSUME NEW b \in Bytes
  PROVE  <<b>> \in Seq(Bytes) /\ Len(<<b>>) = 1 /\ <<b>>[1] = b
OBVIOUS

\* The bytes of a handle, and of the field it is packed into.
LEMMA HandleIs ==
  ASSUME NEW handle \in Handles
  PROVE  /\ handle \in Seq(Bytes)
         /\ Len(handle) \in 1 .. HANDLE_NAME_MAX /\ Len(handle) \in Nat \ {0}
         /\ Len(handle) \in Bytes
         /\ Byte(Len(handle)) = Len(handle)
         /\ HandleField(handle) = Concat(<<Len(handle)>>, handle)
<1>1. handle \in Seq(Bytes \ {NUL}) /\ Len(handle) \in 1 .. HANDLE_NAME_MAX
  BY DEF Handles, LegalLength
<1>2. handle \in Seq(Bytes)
  BY <1>1
<1>3. Len(handle) \in Nat \ {0} /\ Len(handle) \in Bytes /\ Byte(Len(handle)) = Len(handle)
  BY <1>1, ByteFacts DEF Bytes, Byte
<1>4. HandleField(handle) = Concat(<<Len(handle)>>, handle)
  BY <1>3, Zenon DEF HandleField, Concat
<1> QED BY <1>1, <1>2, <1>3, <1>4

\* Its field is a byte longer.
LEMMA HandleFieldIs ==
  ASSUME NEW handle \in Handles
  PROVE  HandleField(handle) \in Seq(Bytes) /\ Len(HandleField(handle)) = Len(handle) + 1
<1> DEFINE len == <<Len(handle)>>
<1>1. handle \in Seq(Bytes) /\ len \in Seq(Bytes) /\ Len(len) = 1 /\ Len(handle) \in Nat
  <2>1. handle \in Seq(Bytes) /\ Len(handle) \in Bytes /\ Len(handle) \in Nat
    BY HandleIs
  <2> QED BY <2>1, OneByte
<1> HIDE DEF len
<1>2. Concat(len, handle) \in Seq(Bytes) /\ Len(Concat(len, handle)) = Len(len) + Len(handle)
  BY <1>1, ConcatTyped, ConcatLength
<1>3. HandleField(handle) = Concat(len, handle)
  BY HandleIs DEF len
<1> QED BY <1>1, <1>2, <1>3

\* getHandleAt finds the handle packed at its offset, and the offset behind it.
LEMMA HandleFound ==
  ASSUME NEW handle \in Handles, NEW pdu \in Seq(Bytes), NEW offset \in Nat,
         Lies(pdu, offset, HandleField(handle)),
         offset + (Len(handle) + 1) <= Len(pdu)
  PROVE  GetHandleAt(pdu, offset) = [handle |-> handle, next |-> offset + (Len(handle) + 1)]
<1> DEFINE len == Len(handle)
           one == <<Len(handle)>>
<1>1. handle \in Seq(Bytes) /\ one \in Seq(Bytes) /\ Len(one) = 1 /\ len \in Nat \ {0}
      /\ one[1] = len
  <2>1. handle \in Seq(Bytes) /\ Len(handle) \in Bytes /\ len \in Nat \ {0}
    BY HandleIs
  <2> QED BY <2>1, OneByte
<1>2. Lies(pdu, offset, one) /\ Lies(pdu, offset + 1, handle)
  <2>1. Lies(pdu, offset, Concat(one, handle))
    BY HandleIs
  <2> HIDE DEF one
  <2> QED BY <1>1, <2>1, LiesApart
<1>3. pdu[offset + 1] = len
  <2>1. 1 \in 1 .. Len(one)
    BY <1>1
  <2> QED BY <1>1, <1>2, <2>1 DEF Lies
<1>4. \A k \in 1 .. len : pdu[offset + 1 + k] = handle[k]
  BY <1>2 DEF Lies
<1> HIDE DEF len, one
<1>5. SubSeq(pdu, offset + 2, offset + 1 + len) = handle
  <2> DEFINE found == SubSeq(pdu, offset + 2, offset + 1 + len)
  <2>1. /\ offset + 2 \in 1 .. Len(pdu) + 1 /\ offset + 1 + len \in offset + 2 - 1 .. Len(pdu)
    BY <1>1 DEF len
  <2>2. /\ \A i \in offset + 2 .. offset + 1 + len : pdu[i] \in Bytes
    BY <1>1, <2>1
  <2>3. /\ found \in Seq(Bytes) /\ Len(found) = len
        /\ \A k \in 1 .. len : found[k] = pdu[offset + 1 + k]
    BY <1>1, <2>1, <2>2, SubSeqProperties
  <2> HIDE DEF found
  <2>4. found = handle
    BY <1>1, <1>4, <2>3, SeqEqual DEF len
  <2> QED BY <2>4 DEF found
<1>6. offset + 1 + len = offset + (len + 1)
  BY <1>1
<1> QED BY <1>3, <1>5, <1>6 DEF GetHandleAt, ByteAt, len

\* A text is printed from its first byte to the NUL behind it.
LEMMA TextFound ==
  ASSUME NEW text \in Texts, NEW pdu \in Seq(Bytes), NEW offset \in Nat,
         Lies(pdu, offset, text), Lies(pdu, offset + Len(text), <<NUL>>),
         Len(pdu) = offset + Len(text) + 1
  PROVE  StringAt(pdu, offset) = text
<1> DEFINE len  == Len(text)
           ends == {i \in offset .. Len(pdu) - 1 : ByteAt(pdu, i) = NUL}
<1>1. text \in Seq(Bytes \ {NUL}) /\ text \in Seq(Bytes) /\ len \in Nat
      /\ \A k \in 1 .. len : text[k] # NUL
  BY DEF Texts
<1>2. \A k \in 1 .. len : pdu[offset + k] = text[k]
  BY DEF Lies
<1>3. pdu[offset + len + 1] = NUL
  <2>1. 1 \in 1 .. Len(<<NUL>>) /\ <<NUL>>[1] = NUL
    OBVIOUS
  <2> QED BY <2>1 DEF Lies
<1> HIDE DEF len
<1>4. offset + len \in ends /\ \A i \in ends : i >= offset + len
  <2>1. offset + len \in offset .. Len(pdu) - 1
    BY <1>1 DEF len
  <2>2. ASSUME NEW i \in offset .. Len(pdu) - 1, ByteAt(pdu, i) = NUL, i < offset + len
        PROVE  FALSE
    <3>1. i + 1 - offset \in 1 .. len /\ offset + (i + 1 - offset) = i + 1
      BY <1>1, <2>2
    <3>2. pdu[i + 1] # NUL
      BY <1>1, <1>2, <3>1
    <3> QED BY <2>2, <3>2 DEF ByteAt
  <2>3. \A i \in ends : ~(i < offset + len)
    BY <2>2
  <2> QED BY <1>1, <1>3, <2>1, <2>3 DEF ByteAt
<1>5. Min(ends) = offset + len
  <2>1. ends \in SUBSET Nat /\ ends # {}
    BY <1>4
  <2>2. Min(ends) \in ends /\ \A x \in ends : Min(ends) <= x
    BY <2>1, MinInSet
  <2> HIDE DEF ends
  <2>3. Min(ends) <= offset + len /\ Min(ends) >= offset + len /\ Min(ends) \in Nat
    BY <1>4, <2>1, <2>2
  <2> QED BY <1>1, <2>3
<1>6. SubSeq(pdu, offset + 1, offset + len) = text
  <2> DEFINE found == SubSeq(pdu, offset + 1, offset + len)
  <2>1. offset + 1 \in 1 .. Len(pdu) + 1 /\ offset + len \in offset + 1 - 1 .. Len(pdu)
    BY <1>1 DEF len
  <2>2. \A i \in offset + 1 .. offset + len : pdu[i] \in Bytes
    BY <1>1, <2>1
  <2>3. /\ found \in Seq(Bytes) /\ Len(found) = len
        /\ \A k \in 1 .. len : found[k] = pdu[offset + k]
    BY <1>1, <2>1, <2>2, SubSeqProperties
  <2> HIDE DEF found
  <2>4. found = text
    BY <1>1, <1>2, <2>3, SeqEqual DEF len
  <2> QED BY <2>4 DEF found
<1> HIDE DEF ends
<1>7. StringAt(pdu, offset) = SubSeq(pdu, offset + 1, Min(ends))
  BY Zenon DEF StringAt, ends
<1> QED BY <1>5, <1>6, <1>7

\* The fields of the destinations, as messagePacket writes them.
DstFields(dsts) == [i \in DOMAIN dsts |-> HandleField(dsts[i])]

\* f holds the offsets that a loop of getHandleAt meets.
Offsets(f, pdu, first, n) ==
  f = [i \in 0 .. n |-> IF i = 0 THEN first ELSE GetHandleAt(pdu, f[i - 1]).next]

\* The recursive function of the offsets exists: each one follows the one before.
LEMMA OffsetsAt ==
  ASSUME NEW f, NEW pdu, NEW first, NEW n, Offsets(f, pdu, first, n), NEW i \in 0 .. n
  PROVE  f[i] = IF i = 0 THEN first ELSE GetHandleAt(pdu, f[i - 1]).next
<1>1. ASSUME NEW g,
             f = [j \in 0 .. n |-> IF j = 0 THEN first ELSE GetHandleAt(pdu, g[j - 1]).next]
      PROVE  f[i] = IF i = 0 THEN first ELSE GetHandleAt(pdu, g[i - 1]).next
  BY <1>1
<1> QED BY <1>1 DEF Offsets

\* Such offsets are the ones of DstOffsets.
LEMMA OffsetsAre ==
  ASSUME NEW pdu, NEW first, NEW n \in Nat, NEW g, g[0] = first,
         \A i \in 1 .. n : GetHandleAt(pdu, g[i - 1]).next = g[i]
  PROVE  \A i \in 0 .. n : DstOffsets(pdu, first, n)[i] = g[i]
<1> DEFINE f == CHOOSE h : Offsets(h, pdu, first, n)
<1>1. \E h : Offsets(h, pdu, first, n)
  <2> DEFINE h    == [i \in 0 .. n |-> g[i]]
             r(i) == IF i = 0 THEN first ELSE GetHandleAt(pdu, h[i - 1]).next
  <2>1. ASSUME NEW i \in 0 .. n
        PROVE  g[i] = r(i)
    <3>1. i # 0 => i \in 1 .. n /\ i - 1 \in 0 .. n
      OBVIOUS
    <3>2. i # 0 => h[i - 1] = g[i - 1]
      BY <3>1
    <3> HIDE DEF h
    <3> QED BY <3>1, <3>2
  <2>2. [i \in 0 .. n |-> g[i]] = [i \in 0 .. n |-> r(i)]
    <3> HIDE DEF r
    <3> QED BY <2>1, Zenon
  <2>3. Offsets(h, pdu, first, n)
    BY <2>2, Zenon DEF Offsets
  <2> QED BY <2>3
<1>2. Offsets(f, pdu, first, n)
  BY <1>1
<1>3. DstOffsets(pdu, first, n) = f
  BY Zenon DEF DstOffsets, Offsets
<1> HIDE DEF f
<1> DEFINE S == {i \in Nat : i <= n => f[i] = g[i]}
<1>4. 0 \in S
  <2>1. 0 \in 0 .. n
    OBVIOUS
  <2> QED BY <1>2, <2>1, OffsetsAt
<1>5. ASSUME NEW i \in S
      PROVE  i + 1 \in S
  <2>1. SUFFICES ASSUME i + 1 <= n
                 PROVE  f[i + 1] = g[i + 1]
    OBVIOUS
  <2>2. i + 1 \in 0 .. n /\ i + 1 # 0 /\ i + 1 - 1 = i /\ i + 1 \in 1 .. n /\ f[i] = g[i]
    BY <2>1
  <2>3. f[i + 1] = GetHandleAt(pdu, f[i + 1 - 1]).next
    BY <1>2, <2>2, OffsetsAt
  <2> QED BY <2>2, <2>3
<1> HIDE DEF S
<1>6. S = Nat
  <2>1. S \in SUBSET Nat
    BY DEF S
  <2> QED BY <1>4, <1>5, <2>1, CountingUp
<1> QED BY <1>3, <1>6 DEF S

\* flagUnicastRecv steps over them to the same offset.
Skips(f, pdu, first, n) ==
  f = [i \in 0 .. n |-> IF i = 0 THEN first ELSE f[i - 1] + 1 + ByteAt(pdu, f[i - 1])]

LEMMA SameSteps ==
  ASSUME NEW pdu, NEW first, NEW n
  PROVE  TextOffset(pdu, first, n) = DstOffsets(pdu, first, n)[n]
<1>1. ASSUME NEW f PROVE Skips(f, pdu, first, n) <=> Offsets(f, pdu, first, n)
  <2>1. \A offset : GetHandleAt(pdu, offset).next = offset + 1 + ByteAt(pdu, offset)
    BY DEF GetHandleAt
  <2>2. ASSUME NEW i \in 0 .. n
        PROVE  (IF i = 0 THEN first ELSE f[i - 1] + 1 + ByteAt(pdu, f[i - 1]))
                 = (IF i = 0 THEN first ELSE GetHandleAt(pdu, f[i - 1]).next)
    BY <2>1, Zenon
  <2>3. [i \in 0 .. n |-> IF i = 0 THEN first ELSE f[i - 1] + 1 + ByteAt(pdu, f[i - 1])]
          = [i \in 0 .. n |-> IF i = 0 THEN first ELSE GetHandleAt(pdu, f[i - 1]).next]
    BY <2>2, Zenon
  <2> QED BY <2>3, Zenon DEF Skips, Offsets
<1>2. (CHOOSE f : Skips(f, pdu, first, n)) = (CHOOSE f : Offsets(f, pdu, first, n))
  BY <1>1, Zenon
<1>3. TextOffset(pdu, first, n) = (CHOOSE f : Skips(f, pdu, first, n))[n]
  BY Zenon DEF TextOffset, Skips
<1>4. DstOffsets(pdu, first, n) = (CHOOSE f : Offsets(f, pdu, first, n))
  BY Zenon DEF DstOffsets, Offsets
<1> QED BY <1>2, <1>3, <1>4, Zenon

\* The destinations are read back, and the text is looked for behind them.
DstsReadBack(pdu, first, dsts) ==
  LET offset == DstOffsets(pdu, first, Len(dsts))
  IN /\ [i \in 1 .. Len(dsts) |-> GetHandleAt(pdu, offset[i - 1]).handle] = dsts
     /\ offset[0] = first
     /\ offset[Len(dsts)] = first + Len(FlattenSeq(DstFields(dsts)))

\* The loop of getHandleAt finds every destination, from the first to the last.
LEMMA DstsFound ==
  ASSUME NEW dsts \in Seq(Handles), NEW pdu \in Seq(Bytes), NEW first \in Nat,
         Lies(pdu, first, FlattenSeq(DstFields(dsts))),
         first + Len(FlattenSeq(DstFields(dsts))) <= Len(pdu)
  PROVE  DstsReadBack(pdu, first, dsts)
<1> DEFINE n      == Len(dsts)
           fields == DstFields(dsts)
           all    == FlattenSeq(fields)
<1>1. n \in Nat /\ \A i \in 1 .. n : dsts[i] \in Handles
  OBVIOUS
<1>2. /\ fields \in Seq(Seq(Bytes)) /\ Len(fields) = n
      /\ \A i \in 1 .. n : fields[i] = HandleField(dsts[i])
  <2>1. \A i \in 1 .. n : HandleField(dsts[i]) \in Seq(Bytes)
    BY <1>1, HandleFieldIs
  <2>2. fields = [i \in 1 .. n |-> HandleField(dsts[i])]
    BY DEF DstFields
  <2> HIDE DEF fields, n
  <2> QED BY <1>1, <2>1, <2>2
<1> HIDE DEF fields, n
<1>3. PICK before : Laid(before, fields)
  BY <1>2, FlattenLaid
<1> HIDE DEF all
<1>4. /\ before \in [0 .. n -> Nat] /\ before[0] = 0 /\ before[n] = Len(all)
      /\ \A i \in 1 .. n : /\ before[i] = before[i - 1] + Len(fields[i])
                           /\ Lies(all, before[i - 1], fields[i])
  BY <1>2, <1>3 DEF Laid, all
<1>5. Lies(pdu, first, all) /\ first + Len(all) <= Len(pdu) /\ Len(all) \in Nat
  <2>1. n \in 0 .. n
    BY <1>1
  <2> QED BY <1>4, <2>1 DEF all, fields
<1> DEFINE g == [i \in 0 .. n |-> first + before[i]]
<1>6. \A i \in 0 .. n : g[i] = first + before[i] /\ before[i] \in Nat
  BY <1>4
<1> HIDE DEF g
\* Every field lies where its turn comes.
<1>7. ASSUME NEW i \in 1 .. n
      PROVE  GetHandleAt(pdu, g[i - 1]) = [handle |-> dsts[i], next |-> g[i]]
  <2> DEFINE dst == dsts[i]
             field == fields[i]
             at == g[i - 1]
  <2>1. /\ dst \in Handles /\ i - 1 \in 0 .. n /\ i \in 0 .. n
        /\ field = HandleField(dst) /\ Len(field) = Len(dst) + 1 /\ Len(dst) \in Nat
    BY <1>1, <1>2, HandleFieldIs, HandleIs
  <2>2. /\ at = first + before[i - 1] /\ before[i - 1] \in Nat /\ at \in Nat
        /\ g[i] = first + before[i] /\ before[i] \in Nat
        /\ before[i] = before[i - 1] + Len(field)
        /\ Lies(all, before[i - 1], field)
    <3>1. /\ at = first + before[i - 1] /\ before[i - 1] \in Nat
          /\ g[i] = first + before[i] /\ before[i] \in Nat
      BY <1>6, <2>1
    <3>2. before[i] = before[i - 1] + Len(field) /\ Lies(all, before[i - 1], field)
      BY <1>4
    <3> HIDE DEF field, at
    <3> QED BY <3>1, <3>2
  <2>3. before[i] <= Len(all)
    <3>1. \A k \in 1 .. n : before[k] >= before[k - 1]
      <4>1. ASSUME NEW k \in 1 .. n PROVE before[k] >= before[k - 1]
        <5>1. k - 1 \in 0 .. n
          BY <1>1
        <5>2. before[k - 1] \in Nat /\ Len(fields[k]) \in Nat
          <6>1. dsts[k] \in Handles /\ fields[k] = HandleField(dsts[k])
            BY <1>1, <1>2
          <6>2. HandleField(dsts[k]) \in Seq(Bytes)
            BY <6>1, HandleFieldIs
          <6>3. Len(HandleField(dsts[k])) \in Nat
            BY <6>2
          <6> QED BY <1>4, <5>1, <6>1, <6>3
        <5> QED BY <1>4, <5>2
      <4> QED BY <4>1
    <3> QED BY <1>1, <1>4, <2>1, <3>1, RisesToEnd
  <2> HIDE DEF dst, field, at
  <2>4. Lies(pdu, at, field)
    <3> SUFFICES ASSUME NEW k \in 1 .. Len(field)
                 PROVE  pdu[at + k] = field[k]
      BY DEF Lies
    <3>1. all[before[i - 1] + k] = field[k]
      BY <2>2 DEF Lies
    <3>2. before[i - 1] + k \in 1 .. Len(all) /\ first + (before[i - 1] + k) = at + k
      <4>1. Len(field) \in Nat /\ k \in 1 .. Len(field)
        BY <2>1
      <4>2. /\ before[i - 1] \in Nat /\ before[i - 1] + Len(field) <= Len(all)
            /\ at = first + before[i - 1] /\ Len(all) \in Nat
        BY <1>5, <2>2, <2>3
      <4> QED BY <4>1, <4>2
    <3> QED BY <1>5, <3>1, <3>2 DEF Lies
  <2>5. at + (Len(dst) + 1) <= Len(pdu) /\ at + (Len(dst) + 1) = g[i]
    <3>1. Len(pdu) \in Nat
      OBVIOUS
    <3> QED BY <1>5, <2>1, <2>2, <2>3, <3>1
  <2>6. Lies(pdu, at, HandleField(dst))
    BY <2>1, <2>4
  <2>7. GetHandleAt(pdu, at) = [handle |-> dst, next |-> at + (Len(dst) + 1)]
    BY <2>1, <2>2, <2>5, <2>6, HandleFound
  <2>8. GetHandleAt(pdu, at) = [handle |-> dst, next |-> g[i]]
    BY <2>5, <2>7
  <2> QED BY <2>8 DEF at, dst
<1> DEFINE offset == DstOffsets(pdu, first, n)
<1>8. \A i \in 0 .. n : offset[i] = g[i]
  <2>1. g[0] = first
    <3>1. 0 \in 0 .. n
      BY <1>1
    <3> QED BY <1>4, <1>6, <3>1
  <2>2. \A i \in 1 .. n : GetHandleAt(pdu, g[i - 1]).next = g[i]
    <3>1. ASSUME NEW i \in 1 .. n
          PROVE  GetHandleAt(pdu, g[i - 1]).next = g[i]
      <4> DEFINE found == GetHandleAt(pdu, g[i - 1])
      <4>1. found = [handle |-> dsts[i], next |-> g[i]]
        BY <1>7
      <4> HIDE DEF found
      <4>2. found.next = g[i]
        BY <4>1
      <4> QED BY <4>2 DEF found
    <3> QED BY <3>1
  <2> QED BY <1>1, <2>1, <2>2, OffsetsAre
<1> HIDE DEF offset
<1>9. \A i \in 1 .. n : GetHandleAt(pdu, offset[i - 1]).handle = dsts[i]
  <2>1. \A i \in 1 .. n : i - 1 \in 0 .. n
    BY <1>1
  <2>2. \A i \in 1 .. n : offset[i - 1] = g[i - 1]
    BY <1>8, <2>1
  <2>3. \A i \in 1 .. n : GetHandleAt(pdu, g[i - 1]).handle = dsts[i]
    <3>1. ASSUME NEW i \in 1 .. n
          PROVE  GetHandleAt(pdu, g[i - 1]).handle = dsts[i]
      <4> DEFINE found == GetHandleAt(pdu, g[i - 1])
      <4>1. found = [handle |-> dsts[i], next |-> g[i]]
        BY <1>7
      <4> HIDE DEF found
      <4>2. found.handle = dsts[i]
        BY <4>1
      <4> QED BY <4>2 DEF found
    <3> QED BY <3>1
  <2> QED BY <2>2, <2>3
<1>10. [i \in 1 .. n |-> GetHandleAt(pdu, offset[i - 1]).handle] = dsts
  <2>1. dsts = [i \in 1 .. n |-> dsts[i]]
    BY DEF n
  <2>2. [i \in 1 .. n |-> GetHandleAt(pdu, offset[i - 1]).handle] = [i \in 1 .. n |-> dsts[i]]
    BY <1>9, Zenon
  <2> QED BY <2>1, <2>2
<1>11. offset[0] = first /\ offset[n] = first + Len(all)
  <2>1. 0 \in 0 .. n /\ n \in 0 .. n
    BY <1>1
  <2>2. offset[0] = first
    <3>1. offset[0] = first + before[0]
      BY <1>6, <1>8, <2>1
    <3> QED BY <1>4, <3>1
  <2>3. offset[n] = first + Len(all)
    BY <1>4, <1>6, <1>8, <2>1
  <2> QED BY <2>2, <2>3
<1> QED BY <1>10, <1>11, Zenon DEF DstsReadBack, n, offset, all, fields

\* A PDU of two parts: where each of them lies in it.
Parts(pdu, a, b) ==
  /\ Concat(a, b) \in Seq(Bytes)
  /\ Len(Concat(a, b)) = Len(a) + Len(b)
  /\ Lies(pdu, 0, Concat(a, b)) => Lies(pdu, 0, a) /\ Lies(pdu, Len(a), b)

\* The second part of a PDU lies behind the first.
LEMMA PartsLie ==
  \A pdu : \A a, b \in Seq(Bytes) : Parts(pdu, a, b)
<1> SUFFICES ASSUME NEW pdu, NEW a \in Seq(Bytes), NEW b \in Seq(Bytes)
             PROVE  Parts(pdu, a, b)
  OBVIOUS
<1>1. Concat(a, b) \in Seq(Bytes) /\ Len(Concat(a, b)) = Len(a) + Len(b)
  BY ConcatTyped, ConcatLength
<1>2. ASSUME Lies(pdu, 0, Concat(a, b))
      PROVE  Lies(pdu, 0, a) /\ Lies(pdu, Len(a), b)
  <2>1. Lies(pdu, 0, a) /\ Lies(pdu, 0 + Len(a), b)
    BY <1>2, LiesApart
  <2>2. 0 + Len(a) = Len(a)
    OBVIOUS
  <2> QED BY <2>1, <2>2
<1> QED BY <1>1, <1>2 DEF Parts

\* What is parsed is what was built.
ReadBack(pdu) ==
  /\ Encode(pdu) \in Seq(Bytes)
  /\ Len(Encode(pdu)) \in Nat \ {0}
  /\ Decode(Encode(pdu)) = pdu

\* No flag is another one.
LEMMA Flags ==
  /\ INIT_CONNECT_FLAG = 1 /\ GOOD_CONNECT_FLAG = 2 /\ BAD_CONNECT_FLAG = 3
  /\ BROADCAST_FLAG = 4 /\ UNICAST_FLAG = 5 /\ MULTICAST_FLAG = 6
  /\ HANDLE_ERR_FLAG = 7 /\ HANDLE_LIST_FLAG = 10 /\ HANDLE_LIST_RESP_FLAG = 11
  /\ HANDLE_ITEM_FLAG = 12 /\ HANDLE_FINISH_FLAG = 13
BY DEF INIT_CONNECT_FLAG, GOOD_CONNECT_FLAG, BAD_CONNECT_FLAG, BROADCAST_FLAG,
       UNICAST_FLAG, MULTICAST_FLAG, HANDLE_ERR_FLAG, HANDLE_LIST_FLAG,
       HANDLE_LIST_RESP_FLAG, HANDLE_ITEM_FLAG, HANDLE_FINISH_FLAG

\* handleOnlyPacket, read by flagConnect, flagNotFoundRecv and flagListBegin.
LEMMA HandleOnlyReadBack ==
  ASSUME NEW flag \in {INIT_CONNECT_FLAG, HANDLE_ERR_FLAG, HANDLE_ITEM_FLAG},
         NEW handle \in Handles
  PROVE  ReadBack([flag |-> flag, handle |-> handle])
<1> DEFINE len   == Len(handle)
           one   == <<flag>>
           field == HandleField(handle)
           pdu   == Concat(one, field)
           rec   == [flag |-> flag, handle |-> handle]
<1>1. /\ handle \in Seq(Bytes) /\ len \in Nat \ {0} /\ len \in 1 .. HANDLE_NAME_MAX
      /\ Byte(len) = len /\ len \in Bytes
  BY HandleIs
<1>2. one \in Seq(Bytes) /\ Len(one) = 1 /\ one[1] = flag
  <2>1. flag \in Bytes
    BY ByteFacts, Flags
  <2> HIDE DEF one
  <2> QED BY <2>1, OneByte DEF one
<1>3. field \in Seq(Bytes) /\ Len(field) = len + 1
  BY HandleFieldIs
<1>4. Encode(rec) = pdu
  <2>1. Encode(rec) = HandleOnlyBytes(flag, handle)
    <3>1. rec.flag = flag /\ rec.handle = handle
      OBVIOUS
    <3> HIDE DEF rec
    <3> QED BY <3>1, Flags DEF Encode
  <2>2. HandleOnlyBytes(flag, handle) = <<flag, len>> \o SubSeq(handle, 1, len)
    BY <1>1 DEF HandleOnlyBytes
  <2>3. SubSeq(handle, 1, len) = handle
    BY <1>1, SubSeqFull
  <2> DEFINE size == <<len>>
  <2>4. size \in Seq(Bytes) /\ <<flag, len>> = one \o size
    BY <1>1, OneByte
  <2> HIDE DEF size, one, len
  <2>5. (one \o size) \o handle = one \o (size \o handle)
    BY <1>1, <1>2, <2>4, ConcatAssociative
  <2>6. field = size \o handle
    BY HandleIs DEF Concat, size, len
  <2> HIDE DEF field
  <2>7. Encode(rec) = one \o field
    BY <2>1, <2>2, <2>3, <2>4, <2>5, <2>6
  <2> QED BY <2>7 DEF Concat
<1> HIDE DEF one, field, len
<1>5. Parts(pdu, one, field)
  BY <1>2, <1>3, PartsLie
<1>6. pdu \in Seq(Bytes) /\ Len(pdu) = 1 + (len + 1) /\ Lies(pdu, 0, pdu)
  <2>1. pdu \in Seq(Bytes) /\ Len(pdu) = Len(one) + Len(field)
    BY <1>5 DEF Parts
  <2> HIDE DEF pdu
  <2> QED BY <1>2, <1>3, <2>1, LiesSelf
<1>7. Lies(pdu, 0, one) /\ Lies(pdu, 1, field)
  BY <1>2, <1>5, <1>6 DEF Parts
<1> HIDE DEF pdu
<1>8. GetFlag(pdu) = flag
  <2>1. pdu[0 + 1] = flag
    <3>1. 1 \in 1 .. Len(one)
      BY <1>2
    <3> QED BY <1>2, <1>7, <3>1 DEF Lies
  <2> QED BY <2>1 DEF GetFlag, ByteAt
<1>9. GetHandleAt(pdu, 1) = [handle |-> handle, next |-> 1 + (len + 1)]
  <2>1. Lies(pdu, 1, HandleField(handle)) /\ 1 + (Len(handle) + 1) <= Len(pdu)
    BY <1>1, <1>6, <1>7 DEF field, len
  <2> QED BY <1>6, <2>1, HandleFound DEF len
<1>10. Decode(pdu) = rec
  <2> DEFINE found == GetHandleAt(pdu, 1)
  <2>1. found = [handle |-> handle, next |-> 1 + (len + 1)]
    BY <1>9
  <2> HIDE DEF found
  <2>2. found.handle = handle
    BY <2>1
  <2>3. ParseHandleOnly(pdu) = rec
    BY <1>8, <2>2 DEF ParseHandleOnly, HandleOnlyPacket, found
  <2> HIDE DEF rec
  <2> QED BY <1>8, <2>3, Flags DEF Decode
<1> QED
  <2>1. Len(pdu) \in Nat \ {0}
    BY <1>1, <1>6
  <2> HIDE DEF rec
  <2>2. ReadBack(rec)
    BY <1>4, <1>6, <1>10, <2>1 DEF ReadBack
  <2> QED BY <2>2 DEF rec

\* chatHeaderPacket: the flag is all there is.
LEMMA HeaderOnlyReadBack ==
  ASSUME NEW flag \in {GOOD_CONNECT_FLAG, BAD_CONNECT_FLAG, HANDLE_LIST_FLAG,
                       HANDLE_FINISH_FLAG}
  PROVE  ReadBack([flag |-> flag])
<1> DEFINE rec == [flag |-> flag]
           pdu == <<flag>>
<1>1. Encode(rec) = pdu
  <2>1. rec.flag = flag
    OBVIOUS
  <2> HIDE DEF rec
  <2> QED BY <2>1, Flags DEF Encode
<1>2. flag \in Bytes
  BY ByteFacts, Flags
<1>3. pdu \in Seq(Bytes) /\ Len(pdu) = 1 /\ pdu[1] = flag
  BY <1>2, OneByte
<1> HIDE DEF pdu
<1>4. GetFlag(pdu) = flag
  BY <1>3 DEF GetFlag, ByteAt
<1>5. Decode(pdu) = rec
  BY <1>4, Flags DEF Decode, ChatHeaderPacket
<1> HIDE DEF rec
<1>6. ReadBack(rec)
  BY <1>1, <1>3, <1>5 DEF ReadBack
<1> QED BY <1>6 DEF rec

\* broadcastPacket, read by flagBroadcastRecv.
LEMMA BroadcastReadBack ==
  ASSUME NEW src \in Handles, NEW text \in Texts
  PROVE  ReadBack([flag |-> BROADCAST_FLAG, src |-> src, text |-> text])
<1> DEFINE len   == Len(src)
           one   == <<BROADCAST_FLAG>>
           field == HandleField(src)
           front == Concat(one, field)
           shown == Concat(front, text)
           last  == <<NUL>>
           pdu   == Concat(shown, last)
           rec   == [flag |-> BROADCAST_FLAG, src |-> src, text |-> text]
<1>1. /\ src \in Seq(Bytes) /\ len \in Nat \ {0} /\ len \in 1 .. HANDLE_NAME_MAX
      /\ text \in Seq(Bytes) /\ Len(text) \in Nat /\ Len(text) + 1 <= TEXT_LEN_MAX
  <2>1. text \in Seq(Bytes \ {NUL}) /\ Len(text) + 1 <= TEXT_LEN_MAX
    BY DEF Texts
  <2>2. text \in Seq(Bytes) /\ Len(text) \in Nat
    BY <2>1
  <2> QED BY <2>1, <2>2, HandleIs
<1>2. /\ one \in Seq(Bytes) /\ Len(one) = 1 /\ one[1] = BROADCAST_FLAG
      /\ last \in Seq(Bytes) /\ Len(last) = 1
  <2>1. BROADCAST_FLAG \in Bytes /\ NUL \in Bytes
    BY ByteFacts, Flags DEF NUL
  <2> QED BY <2>1, OneByte
<1>3. field \in Seq(Bytes) /\ Len(field) = len + 1
  BY HandleFieldIs
<1>4. Encode(rec) = pdu
  <2>1. Encode(rec) = BroadcastBytes(src, text)
    <3>1. rec.flag = BROADCAST_FLAG /\ rec.src = src /\ rec.text = text
      OBVIOUS
    <3> HIDE DEF rec
    <3> QED BY <3>1, Flags DEF Encode
  <2>2. BroadcastBytes(src, text)
          = <<BROADCAST_FLAG>> \o HandleField(src) \o text \o <<NUL>>
    BY <1>1, Zenon DEF BroadcastBytes, LegalLength, len
  <2> QED BY <2>1, <2>2, Zenon DEF Concat
<1> HIDE DEF one, field, last, len
<1>5. Parts(pdu, one, field) /\ front \in Seq(Bytes) /\ Len(front) = 1 + (len + 1)
  <2>1. Parts(pdu, one, field)
    BY <1>2, <1>3, PartsLie
  <2> QED BY <1>2, <1>3, <2>1 DEF Parts
<1> HIDE DEF front
<1>6. /\ Parts(pdu, front, text) /\ shown \in Seq(Bytes)
      /\ Len(shown) = 1 + (len + 1) + Len(text)
  <2>1. Parts(pdu, front, text)
    BY <1>1, <1>5, PartsLie
  <2> QED BY <1>5, <2>1 DEF Parts
<1> HIDE DEF shown
<1>7. /\ Parts(pdu, shown, last) /\ pdu \in Seq(Bytes)
      /\ Len(pdu) = 1 + (len + 1) + Len(text) + 1 /\ Lies(pdu, 0, pdu)
  <2>1. Parts(pdu, shown, last)
    BY <1>2, <1>6, PartsLie
  <2>2. pdu \in Seq(Bytes) /\ Len(pdu) = 1 + (len + 1) + Len(text) + 1
    BY <1>2, <1>6, <2>1 DEF Parts
  <2> HIDE DEF pdu
  <2> QED BY <2>1, <2>2, LiesSelf
<1>8. /\ Lies(pdu, 0, one) /\ Lies(pdu, 1, field)
      /\ Lies(pdu, 1 + (len + 1), text)
      /\ Lies(pdu, 1 + (len + 1) + Len(text), last)
  <2>1. Lies(pdu, 0, shown) /\ Lies(pdu, 1 + (len + 1) + Len(text), last)
    BY <1>6, <1>7 DEF Parts
  <2>2. Lies(pdu, 0, front) /\ Lies(pdu, 1 + (len + 1), text)
    BY <1>5, <1>6, <2>1 DEF Parts, shown
  <2>3. Lies(pdu, 0, one) /\ Lies(pdu, 1, field)
    BY <1>2, <1>5, <2>2 DEF Parts, front
  <2> QED BY <2>1, <2>2, <2>3
<1> HIDE DEF pdu
<1>9. GetFlag(pdu) = BROADCAST_FLAG
  <2>1. pdu[0 + 1] = BROADCAST_FLAG
    <3>1. 1 \in 1 .. Len(one)
      BY <1>2
    <3> QED BY <1>2, <1>8, <3>1 DEF Lies
  <2> QED BY <2>1 DEF GetFlag, ByteAt
<1>10. GetHandleAt(pdu, 1) = [handle |-> src, next |-> 1 + (len + 1)]
  <2>1. Lies(pdu, 1, HandleField(src)) /\ 1 + (Len(src) + 1) <= Len(pdu)
    BY <1>1, <1>7, <1>8 DEF field, len
  <2> QED BY <1>7, <2>1, HandleFound DEF len
<1>11. StringAt(pdu, 1 + (len + 1)) = text
  <2> DEFINE behind == 1 + (len + 1)
  <2>1. /\ behind \in Nat /\ Lies(pdu, behind, text) /\ Len(pdu) = behind + Len(text) + 1
        /\ Lies(pdu, behind + Len(text), <<NUL>>)
    BY <1>1, <1>7, <1>8 DEF last
  <2> HIDE DEF behind
  <2>2. StringAt(pdu, behind) = text
    BY <1>7, <2>1, TextFound
  <2> QED BY <2>2 DEF behind
<1>12. Decode(pdu) = rec
  <2> DEFINE found == GetHandleAt(pdu, 1)
  <2>1. found = [handle |-> src, next |-> 1 + (len + 1)]
    BY <1>10
  <2> HIDE DEF found
  <2>2. found.handle = src /\ found.next = 1 + (len + 1)
    BY <2>1
  <2>3. ParseBroadcast(pdu) = BroadcastPacket(found.handle, StringAt(pdu, found.next))
    BY DEF ParseBroadcast, found
  <2>4. ParseBroadcast(pdu) = rec
    BY <1>11, <2>2, <2>3, Zenon DEF BroadcastPacket
  <2> HIDE DEF rec
  <2> QED BY <1>9, <2>4, Flags DEF Decode
<1> QED
  <2>1. Len(pdu) \in Nat \ {0}
    BY <1>1, <1>7
  <2> HIDE DEF rec
  <2>2. ReadBack(rec)
    BY <1>4, <1>7, <1>12, <2>1 DEF ReadBack
  <2> QED BY <2>2 DEF rec

\* messagePacket, read by flagUnicast or flagMulticast and by flagUnicastRecv.
LEMMA MessageReadBack ==
  ASSUME NEW flag \in {UNICAST_FLAG, MULTICAST_FLAG}, NEW src \in Handles,
         NEW dsts \in Seq(Handles), Len(dsts) \in 1 .. 9,
         flag = UNICAST_FLAG => Len(dsts) = 1, NEW text \in Texts
  PROVE  ReadBack([flag |-> flag, src |-> src, dsts |-> dsts, text |-> text])
<1> DEFINE len    == Len(src)
           num    == Len(dsts)
           one    == <<flag>>
           field  == HandleField(src)
           count  == <<num>>
           fields == FlattenSeq(DstFields(dsts))
           last   == <<NUL>>
           front  == Concat(one, field)
           head   == Concat(front, count)
           names  == Concat(head, fields)
           shown  == Concat(names, text)
           pdu    == Concat(shown, last)
           rec    == [flag |-> flag, src |-> src, dsts |-> dsts, text |-> text]
<1>1. /\ src \in Seq(Bytes) /\ len \in Nat \ {0} /\ len \in 1 .. HANDLE_NAME_MAX
      /\ text \in Seq(Bytes) /\ Len(text) \in Nat /\ Len(text) + 1 <= TEXT_LEN_MAX
      /\ num \in Nat /\ num \in 1 .. 9 /\ \A i \in 1 .. num : dsts[i] \in Handles
  <2>1. text \in Seq(Bytes \ {NUL}) /\ Len(text) + 1 <= TEXT_LEN_MAX
    BY DEF Texts
  <2>2. text \in Seq(Bytes) /\ Len(text) \in Nat
    BY <2>1
  <2>3. num \in Nat /\ num \in 1 .. 9 /\ \A i \in 1 .. num : dsts[i] \in Handles
    OBVIOUS
  <2>4. src \in Seq(Bytes) /\ len \in Nat \ {0} /\ len \in 1 .. HANDLE_NAME_MAX
    BY HandleIs
  <2> QED BY <2>1, <2>2, <2>3, <2>4
<1> HIDE DEF num
<1>2. /\ one \in Seq(Bytes) /\ Len(one) = 1 /\ one[1] = flag
      /\ last \in Seq(Bytes) /\ Len(last) = 1
      /\ count \in Seq(Bytes) /\ Len(count) = 1 /\ count[1] = num
  <2>1. flag \in Bytes /\ NUL \in Bytes /\ num \in Bytes
    BY <1>1, ByteFacts, Flags DEF NUL
  <2> QED BY <2>1, OneByte
<1>3. /\ field \in Seq(Bytes) /\ Len(field) = len + 1
      /\ fields \in Seq(Bytes) /\ Len(fields) \in Nat
  <2> DEFINE each == DstFields(dsts)
  <2>1. \A i \in 1 .. num : HandleField(dsts[i]) \in Seq(Bytes)
    BY <1>1, HandleFieldIs
  <2>2. each = [i \in 1 .. num |-> HandleField(dsts[i])]
    BY DEF DstFields, num
  <2> HIDE DEF each
  <2>3. each \in Seq(Seq(Bytes))
    BY <1>1, <2>1, <2>2
  <2>4. FlattenSeq(each) \in Seq(Bytes)
    <3>1. <<>> \in Seq(Bytes)
      OBVIOUS
    <3> QED BY <2>3, <3>1, FlattenAppend
  <2>5. fields \in Seq(Bytes)
    BY <2>4 DEF each
  <2> HIDE DEF fields
  <2> QED BY <2>5, HandleFieldIs
<1>4. Encode(rec) = pdu
  <2>1. Encode(rec) = MessageBytes(flag, src, dsts, text)
    <3>1. rec.flag = flag /\ rec.src = src /\ rec.dsts = dsts /\ rec.text = text
      OBVIOUS
    <3> HIDE DEF rec
    <3> QED BY <3>1, Flags DEF Encode
  <2>2. \A i \in DOMAIN dsts : LegalLength(dsts[i])
    <3>1. \A i \in 1 .. num : LegalLength(dsts[i])
      BY <1>1, HandleIs DEF LegalLength
    <3> QED BY <3>1 DEF num
  <2>3. Len(dsts) \in 1 .. 9 /\ LegalLength(src)
    BY <1>1 DEF num, LegalLength
  <2>4. MessageBytes(flag, src, dsts, text)
          = <<flag>> \o HandleField(src) \o <<Len(dsts)>>
              \o FlattenSeq([i \in DOMAIN dsts |-> HandleField(dsts[i])])
              \o text \o <<NUL>>
    BY <1>1, <2>2, <2>3, Zenon DEF MessageBytes
  <2> QED BY <2>1, <2>4, Zenon DEF Concat, DstFields, num
<1> HIDE DEF one, field, count, fields, last, len
<1>5. Parts(pdu, one, field) /\ front \in Seq(Bytes) /\ Len(front) = 1 + (len + 1)
  <2>1. Parts(pdu, one, field)
    BY <1>2, <1>3, PartsLie
  <2> QED BY <1>2, <1>3, <2>1 DEF Parts
<1> HIDE DEF front
<1>6. Parts(pdu, front, count) /\ head \in Seq(Bytes) /\ Len(head) = 1 + (len + 1) + 1
  <2>1. Parts(pdu, front, count)
    BY <1>2, <1>5, PartsLie
  <2> QED BY <1>2, <1>5, <2>1 DEF Parts
<1> HIDE DEF head
<1> DEFINE first  == 1 + (len + 1) + 1
           behind == first + Len(fields)
<1>7. Parts(pdu, head, fields) /\ names \in Seq(Bytes) /\ Len(names) = behind
  <2>1. Parts(pdu, head, fields)
    BY <1>3, <1>6, PartsLie
  <2> QED BY <1>3, <1>6, <2>1 DEF Parts
<1> HIDE DEF names
<1>8. Parts(pdu, names, text) /\ shown \in Seq(Bytes) /\ Len(shown) = behind + Len(text)
  <2>1. Parts(pdu, names, text)
    BY <1>1, <1>7, PartsLie
  <2> QED BY <1>1, <1>7, <2>1 DEF Parts
<1> HIDE DEF shown
<1>9. /\ Parts(pdu, shown, last) /\ pdu \in Seq(Bytes)
      /\ Len(pdu) = behind + Len(text) + 1 /\ Lies(pdu, 0, pdu)
  <2>1. Parts(pdu, shown, last)
    BY <1>2, <1>8, PartsLie
  <2>2. pdu \in Seq(Bytes) /\ Len(pdu) = behind + Len(text) + 1
    BY <1>2, <1>8, <2>1 DEF Parts
  <2> HIDE DEF pdu
  <2> QED BY <2>1, <2>2, LiesSelf
<1>10. first \in Nat /\ behind \in Nat
  BY <1>1, <1>3
<1>11. /\ Lies(pdu, 0, one) /\ Lies(pdu, 1, field) /\ Lies(pdu, 1 + (len + 1), count)
       /\ Lies(pdu, first, fields) /\ Lies(pdu, behind, text)
       /\ Lies(pdu, behind + Len(text), last)
  <2> HIDE DEF behind, first
  <2>1. Lies(pdu, 0, shown) /\ Lies(pdu, behind + Len(text), last)
    BY <1>8, <1>9 DEF Parts
  <2>2. Lies(pdu, 0, names) /\ Lies(pdu, behind, text)
    BY <1>7, <1>8, <2>1 DEF Parts, shown
  <2>3. Lies(pdu, 0, head) /\ Lies(pdu, first, fields)
    <3>1. Len(head) = first
      BY <1>6 DEF first
    <3> QED BY <1>7, <2>2, <3>1 DEF Parts, names
  <2>4. Lies(pdu, 0, front) /\ Lies(pdu, 1 + (len + 1), count)
    BY <1>5, <1>6, <2>3 DEF Parts, head
  <2>5. Lies(pdu, 0, one) /\ Lies(pdu, 1, field)
    BY <1>2, <1>5, <2>4 DEF Parts, front
  <2> QED BY <2>1, <2>2, <2>3, <2>4, <2>5
<1> HIDE DEF pdu
<1>12. GetFlag(pdu) = flag
  <2>1. pdu[0 + 1] = flag
    <3>1. 1 \in 1 .. Len(one)
      BY <1>2
    <3> QED BY <1>2, <1>11, <3>1 DEF Lies
  <2> QED BY <2>1 DEF GetFlag, ByteAt
<1>13. GetHandleAt(pdu, 1) = [handle |-> src, next |-> 1 + (len + 1)]
  <2>1. Lies(pdu, 1, HandleField(src)) /\ 1 + (Len(src) + 1) <= Len(pdu)
    BY <1>1, <1>3, <1>9, <1>11 DEF field, len
  <2> QED BY <1>9, <2>1, HandleFound DEF len
<1>14. ByteAt(pdu, 1 + (len + 1)) = num
  <2>1. 1 \in 1 .. Len(count)
    BY <1>2
  <2>2. pdu[1 + (len + 1) + 1] = num
    BY <1>2, <1>11, <2>1 DEF Lies
  <2> QED BY <2>2 DEF ByteAt
<1>15. DstsReadBack(pdu, first, dsts)
  <2>1. Len(pdu) >= first + Len(fields)
    BY <1>1, <1>3, <1>9, <1>10
  <2>2. Lies(pdu, first, FlattenSeq(DstFields(dsts)))
        /\ first + Len(FlattenSeq(DstFields(dsts))) <= Len(pdu)
    BY <1>11, <2>1 DEF fields
  <2> HIDE DEF first
  <2> QED BY <1>9, <1>10, <2>2, DstsFound
<1>16. StringAt(pdu, behind) = text
  <2>1. Lies(pdu, behind + Len(text), <<NUL>>)
    BY <1>11 DEF last
  <2> HIDE DEF behind
  <2> QED BY <1>9, <1>10, <1>11, <2>1, TextFound
<1>17. Decode(pdu) = rec
  <2> DEFINE found  == GetHandleAt(pdu, 1)
             offset == DstOffsets(pdu, first, num)
             named  == [i \in 1 .. num |-> GetHandleAt(pdu, offset[i - 1]).handle]
  <2>1. found = [handle |-> src, next |-> 1 + (len + 1)]
    BY <1>13
  <2> HIDE DEF found
  <2>2. found.handle = src /\ found.next = 1 + (len + 1)
    BY <2>1
  <2>3. named = dsts /\ offset[num] = behind
    BY <1>15, Zenon DEF DstsReadBack, num, fields
  <2>4. /\ found.handle = src /\ ByteAt(pdu, found.next) = num
        /\ found.next + 1 = first
    BY <1>14, <2>2
  <2>5. MulticastDsts(pdu) = named
    <3>1. MulticastDsts(pdu) =
            LET num1    == ByteAt(pdu, found.next)
                offset1 == DstOffsets(pdu, found.next + 1, num1)
            IN [i \in 1 .. num1 |-> GetHandleAt(pdu, offset1[i - 1]).handle]
      BY Zenon DEF MulticastDsts, found
    <3> HIDE DEF first
    <3> QED BY <2>4, <3>1, Zenon
  <2>6. MessageText(pdu) = StringAt(pdu, offset[num])
    <3>1. MessageText(pdu) =
            StringAt(pdu, TextOffset(pdu, found.next + 1, ByteAt(pdu, found.next)))
      BY Zenon DEF MessageText, found
    <3>2. TextOffset(pdu, first, num) = offset[num]
      BY SameSteps, Zenon
    <3> HIDE DEF first, offset
    <3> QED BY <2>4, <3>1, <3>2, Zenon
  \* flagUnicast looks where the first destination of a multicast would be.
  <2>7. UnicastDst(pdu) = dsts[1]
    <3>1. named[1] = GetHandleAt(pdu, offset[0]).handle
      <4>1. 1 \in 1 .. num /\ 1 - 1 = 0
        BY <1>1
      <4> QED BY <4>1
    <3>2. offset[0] = first
      BY <1>15, Zenon DEF DstsReadBack, num
    <3>3. UnicastDst(pdu) = GetHandleAt(pdu, first).handle
      <4>1. UnicastDst(pdu) = GetHandleAt(pdu, found.next + 1).handle
        BY Zenon DEF UnicastDst, found
      <4> QED BY <2>4, <4>1, Zenon
    <3> HIDE DEF named, offset, first
    <3> QED BY <2>3, <3>1, <3>2, <3>3, Zenon
  <2>8. (IF flag = UNICAST_FLAG THEN <<UnicastDst(pdu)>> ELSE MulticastDsts(pdu)) = dsts
    <3>1. ASSUME flag = UNICAST_FLAG PROVE <<UnicastDst(pdu)>> = dsts
      <4>1. Len(dsts) = 1 /\ dsts[1] = UnicastDst(pdu)
        BY <2>7, <3>1
      <4>2. \A dst : dst = dsts[1] => <<dst>> = dsts
        BY <4>1
      <4> QED BY <4>1, <4>2, Zenon
    <3> HIDE DEF named
    <3> QED BY <2>3, <2>5, <3>1, Zenon
  <2> HIDE DEF named, offset, behind
  <2>9. ParseMessage(pdu) = MessagePacket(flag, src, dsts, text)
    <3>1. ParseMessage(pdu) =
            MessagePacket(GetFlag(pdu), found.handle,
              IF GetFlag(pdu) = UNICAST_FLAG THEN <<UnicastDst(pdu)>>
                                             ELSE MulticastDsts(pdu), MessageText(pdu))
      BY Zenon DEF ParseMessage, found
    <3> QED BY <1>12, <1>16, <2>3, <2>4, <2>6, <2>8, <3>1, Zenon
  <2>10. ParseMessage(pdu) = rec
    BY <2>9, Zenon DEF MessagePacket
  <2> HIDE DEF rec
  <2> QED BY <1>12, <2>10, Flags DEF Decode
<1> QED
  <2>1. Len(pdu) \in Nat \ {0}
    BY <1>1, <1>9, <1>10
  <2> HIDE DEF rec
  <2>2. ReadBack(rec)
    BY <1>4, <1>9, <1>17, <2>1 DEF ReadBack
  <2> QED BY <2>2 DEF rec

\* A number taken apart into its last byte and the rest.
LEMMA LastByte ==
  ASSUME NEW n \in Nat
  PROVE  /\ n \div Base \in Nat /\ Byte(n) \in Bytes
         /\ n = (n \div Base) * Base + Byte(n)
<1>1. Base \in Nat /\ Base > 0
  BY ByteFacts
<1>2. n = Base * (n \div Base) + (n % Base) /\ n % Base \in 0 .. Base - 1 /\ n \div Base \in Nat
  BY <1>1
<1> QED BY <1>1, <1>2 DEF Byte, Bytes

\* The rest has a byte less.
LEMMA RestBelow ==
  ASSUME NEW n \in Nat, NEW m \in Nat, n < m * Base
  PROVE  n \div Base < m
<1> DEFINE q == n \div Base
<1>1. Base \in Nat /\ Base > 0
  BY ByteFacts
<1>2. q \in Nat /\ n >= q * Base
  BY <1>1, LastByte DEF Bytes
<1> HIDE DEF q
<1>3. ASSUME q >= m
      PROVE  FALSE
  <2>1. PICK more \in Nat : q = m + more
    <3>1. q - m \in Nat /\ q = m + (q - m)
      BY <1>2, <1>3
    <3> QED BY <3>1
  <2>2. q * Base = m * Base + more * Base
    BY <1>1, <1>2, <2>1
  <2>3. more * Base \in Nat /\ m * Base \in Nat
    BY <1>1, <2>1
  <2> QED BY <1>2, <2>2, <2>3
<1> QED BY <1>2, <1>3 DEF q

\* A number of one byte is written as it is.
LEMMA OneByteNumber ==
  ASSUME NEW n \in Nat, n < Base
  PROVE  Byte(n) = n
BY ByteFacts DEF Byte

\* listCountPacket and its htonl, read by the ntohl of flagListBegin.
LEMMA CountReadBack ==
  ASSUME NEW count \in 0 .. Base * Base * Base * Base - 1
  PROVE  ReadBack([flag |-> HANDLE_LIST_RESP_FLAG, count |-> count])
<1> DEFINE b3  == count \div Base
           b2  == b3 \div Base
           b1  == b2 \div Base
           c1  == Byte(b1)
           c2  == Byte(b2)
           c3  == Byte(b3)
           c4  == Byte(count)
           pdu == <<HANDLE_LIST_RESP_FLAG, c1, c2, c3, c4>>
           rec == [flag |-> HANDLE_LIST_RESP_FLAG, count |-> count]
<1>1. /\ Base \in Nat /\ Base * Base \in Nat /\ Base * Base * Base \in Nat
      /\ Base * Base * Base * Base \in Nat
  BY ByteFacts
<1>2. count \in Nat /\ count < Base * Base * Base * Base
  BY <1>1
<1>3. Encode(rec) = pdu
  <2>1. Encode(rec) = ListCountBytes(count)
    <3>1. rec.flag = HANDLE_LIST_RESP_FLAG /\ rec.count = count
      OBVIOUS
    <3> HIDE DEF rec
    <3> QED BY <3>1, Flags DEF Encode
  <2>2. ListCountBytes(count) = pdu
    BY Zenon DEF ListCountBytes
  <2> QED BY <2>1, <2>2
<1>4. b3 \in Nat /\ c4 \in Bytes /\ count = b3 * Base + c4 /\ b3 < Base * Base * Base
  BY <1>1, <1>2, LastByte, RestBelow
<1> HIDE DEF b3
<1>5. b2 \in Nat /\ c3 \in Bytes /\ b3 = b2 * Base + c3 /\ b2 < Base * Base
  BY <1>1, <1>4, LastByte, RestBelow
<1> HIDE DEF b2
<1>6. b1 \in Nat /\ c2 \in Bytes /\ b2 = b1 * Base + c2 /\ b1 < Base
  BY <1>1, <1>5, LastByte, RestBelow
<1> HIDE DEF b1
<1>7. c1 = b1 /\ c1 \in Bytes
  BY <1>6, LastByte, OneByteNumber
<1>8. HANDLE_LIST_RESP_FLAG \in Bytes
  BY ByteFacts, Flags
<1> HIDE DEF c1, c2, c3, c4
<1>9. pdu \in Seq(Bytes) /\ Len(pdu) = 5 /\ Len(pdu) \in Nat \ {0}
  BY <1>4, <1>5, <1>6, <1>7, <1>8
<1>10. GetFlag(pdu) = HANDLE_LIST_RESP_FLAG
  BY DEF GetFlag, ByteAt
<1>11. ParseListCount(pdu) = rec
  <2>1. ParseListCount(pdu) = ListCountPacket(((c1 * Base + c2) * Base + c3) * Base + c4)
    BY DEF ParseListCount, ByteAt
  <2>2. ((c1 * Base + c2) * Base + c3) * Base + c4 = count
    BY <1>4, <1>5, <1>6, <1>7, Zenon
  <2> QED BY <2>1, <2>2, Zenon DEF ListCountPacket
<1> HIDE DEF pdu, rec
<1>12. Decode(pdu) = rec
  BY <1>10, <1>11, Flags DEF Decode
<1>13. ReadBack(rec)
  BY <1>3, <1>9, <1>12 DEF ReadBack
<1> QED BY <1>13 DEF rec

\* chatPacket.c, and the handlers that take a PDU apart: whatever the builders
\* accept, the handles, texts and numbers in it are what comes out.
THEOREM PacketsReadBack ==
  ASSUME NEW pdu \in BuildablePdus
  PROVE  Decode(Encode(pdu)) = pdu /\ Encode(pdu) \in Seq(Bytes) /\ Len(Encode(pdu)) > 0
<1>1. ReadBack(pdu)
  <2>1. CASE pdu \in [flag : {INIT_CONNECT_FLAG, HANDLE_ERR_FLAG, HANDLE_ITEM_FLAG},
                      handle : Handles]
    <3>1. pdu = [flag |-> pdu.flag, handle |-> pdu.handle]
      BY <2>1
    <3>2. /\ pdu.flag \in {INIT_CONNECT_FLAG, HANDLE_ERR_FLAG, HANDLE_ITEM_FLAG}
          /\ pdu.handle \in Handles
      BY <2>1
    <3>3. ReadBack([flag |-> pdu.flag, handle |-> pdu.handle])
      BY <3>2, HandleOnlyReadBack
    <3> QED BY <3>1, <3>3, Zenon
  <2>2. CASE pdu \in [flag : {GOOD_CONNECT_FLAG, BAD_CONNECT_FLAG, HANDLE_LIST_FLAG,
                              HANDLE_FINISH_FLAG}]
    <3>1. pdu = [flag |-> pdu.flag]
      BY <2>2
    <3>2. pdu.flag \in {GOOD_CONNECT_FLAG, BAD_CONNECT_FLAG, HANDLE_LIST_FLAG,
                        HANDLE_FINISH_FLAG}
      BY <2>2
    <3>3. ReadBack([flag |-> pdu.flag])
      BY <3>2, HeaderOnlyReadBack
    <3> QED BY <3>1, <3>3, Zenon
  <2>3. CASE pdu \in [flag : {BROADCAST_FLAG}, src : Handles, text : Texts]
    <3>1. pdu = [flag |-> BROADCAST_FLAG, src |-> pdu.src, text |-> pdu.text]
      BY <2>3
    <3>2. pdu.src \in Handles /\ pdu.text \in Texts
      BY <2>3
    <3>3. ReadBack([flag |-> BROADCAST_FLAG, src |-> pdu.src, text |-> pdu.text])
      BY <3>2, BroadcastReadBack
    <3> QED BY <3>1, <3>3, Zenon
  <2>4. CASE \/ pdu \in [flag : {UNICAST_FLAG}, src : Handles,
                         dsts : {dsts \in Seq(Handles) : Len(dsts) = 1}, text : Texts]
             \/ pdu \in [flag : {MULTICAST_FLAG}, src : Handles,
                         dsts : {dsts \in Seq(Handles) : Len(dsts) \in 1 .. 9},
                         text : Texts]
    <3>1. pdu = [flag |-> pdu.flag, src |-> pdu.src, dsts |-> pdu.dsts, text |-> pdu.text]
      BY <2>4
    <3>2. /\ pdu.flag \in {UNICAST_FLAG, MULTICAST_FLAG}
          /\ pdu.src \in Handles /\ pdu.text \in Texts /\ pdu.dsts \in Seq(Handles)
      BY <2>4
    <3>3. /\ Len(pdu.dsts) \in 1 .. 9
          /\ pdu.flag = UNICAST_FLAG => Len(pdu.dsts) = 1
      BY <2>4, Flags
    <3>4. ReadBack([flag |-> pdu.flag, src |-> pdu.src, dsts |-> pdu.dsts,
                    text |-> pdu.text])
      BY <3>2, <3>3, MessageReadBack
    <3> QED BY <3>1, <3>4, Zenon
  <2>5. CASE pdu \in [flag : {HANDLE_LIST_RESP_FLAG},
                      count : 0 .. Base * Base * Base * Base - 1]
    <3>1. pdu = [flag |-> HANDLE_LIST_RESP_FLAG, count |-> pdu.count]
      BY <2>5
    <3>2. pdu.count \in 0 .. Base * Base * Base * Base - 1
      BY <2>5
    <3>3. ReadBack([flag |-> HANDLE_LIST_RESP_FLAG, count |-> pdu.count])
      BY <3>2, CountReadBack
    <3> QED BY <3>1, <3>3, Zenon
  <2> QED BY <2>1, <2>2, <2>3, <2>4, <2>5, Zenon DEF BuildablePdus
<1> DEFINE len == Len(Encode(pdu))
<1>2. len \in Nat \ {0} /\ Encode(pdu) \in Seq(Bytes) /\ Decode(Encode(pdu)) = pdu
  BY <1>1 DEF ReadBack
<1> HIDE DEF len
<1>3. len > 0
  BY <1>2
<1> QED BY <1>2, <1>3, Zenon DEF len

------------------------------------------------------------------------------
(* What is built. *)

\* The data of a PDU fits the buffer, and its length the header.
LEMMA DataIs ==
  ASSUME NEW pdu \in Pdus
  PROVE  /\ Data[pdu] \in Seq(Bytes)
         /\ Len(Data[pdu]) \in 1 .. bufferSize
         /\ Len(Data[pdu]) + 2 \in Nat
         /\ Len(Data[pdu]) + 2 < Base * Base
<1>1. /\ Data[pdu] \in Seq(Bytes) /\ Len(Data[pdu]) \in 1 .. bufferSize
      /\ bufferSize \in Nat /\ bufferSize + 2 < Base * Base
  <2>1. pdu \in BuildablePdus /\ Len(Encode(pdu)) <= bufferSize
        /\ bufferSize \in Nat /\ bufferSize + 2 < Base * Base
    BY PduStreamAssumption DEF PDU_HEADER_LEN
  <2>2. Encode(pdu) \in Seq(Bytes) /\ Len(Encode(pdu)) > 0
    BY <2>1, PacketsReadBack
  <2>3. Data[pdu] = Encode(pdu)
    BY Zenon DEF Data
  <2> DEFINE data == Encode(pdu)
  <2> HIDE DEF data
  <2>4. data \in Seq(Bytes) /\ Len(data) > 0 /\ Len(data) <= bufferSize
    BY <2>1, <2>2, Zenon DEF data
  <2>5. Len(data) \in 1 .. bufferSize
    BY <2>1, <2>4
  <2> QED BY <2>1, <2>3, <2>4, <2>5, Zenon DEF data
<1>2. Base * Base \in Nat
  BY PacketBytesAssumption
<1> QED BY <1>1, <1>2

\* A frame is the header, then the data.
LEMMA FrameIs ==
  ASSUME NEW pdu \in Pdus
  PROVE  /\ Frame(Data[pdu]) \in Seq(Bytes)
         /\ Len(Frame(Data[pdu])) = Len(Data[pdu]) + 2
         /\ \A k \in 1 .. 2 : Frame(Data[pdu])[k] = Htons(Len(Data[pdu]) + 2)[k]
         /\ \A k \in 1 .. Len(Data[pdu]) : Frame(Data[pdu])[k + 2] = Data[pdu][k]
<1> DEFINE data == Data[pdu]
           header == Htons(Len(data) + 2)
<1>1. data \in Seq(Bytes) /\ Len(data) \in Nat
  BY DataIs
<1>2. header \in Seq(Bytes) /\ Len(header) = 2
  BY DataIs, HeaderReadBack
<1>3. Frame(data) = header \o data
  BY DEF Frame, PDU_HEADER_LEN
<1> HIDE DEF data, header
<1>4. /\ header \o data \in Seq(Bytes)
      /\ Len(header \o data) = Len(data) + 2
      /\ \A k \in 1 .. 2 : (header \o data)[k] = header[k]
      /\ \A k \in 1 .. Len(data) : (header \o data)[k + 2] = data[k]
  <2>1. /\ header \o data \in Seq(Bytes)
        /\ Len(header \o data) = Len(header) + Len(data)
        /\ \A i \in 1 .. Len(header) + Len(data) :
             (header \o data)[i] = IF i <= Len(header) THEN header[i]
                                                       ELSE data[i - Len(header)]
    BY <1>1, <1>2, ConcatProperties
  <2>2. \A k \in 1 .. Len(data) :
          k + 2 \in 1 .. 2 + Len(data) /\ ~(k + 2 <= 2) /\ (k + 2) - 2 = k
    BY <1>1
  <2> QED BY <1>1, <1>2, <2>1, <2>2
<1> QED BY <1>3, <1>4 DEF data, header

\* The length in the header of a frame is the one of its data.
LEMMA FrameLength ==
  ASSUME NEW pdu \in Pdus, NEW header, header[1] = Frame(Data[pdu])[1],
         header[2] = Frame(Data[pdu])[2]
  PROVE  DataLen(header) = Len(Data[pdu])
<1>1. Len(Data[pdu]) \in Nat
  BY DataIs
<1>2. Ntohs(Htons(Len(Data[pdu]) + 2)) = Len(Data[pdu]) + 2
  BY DataIs, HeaderReadBack
<1>3. Ntohs(header) = Ntohs(Htons(Len(Data[pdu]) + 2))
  BY FrameIs DEF Ntohs
<1> QED BY <1>1, <1>2, <1>3 DEF DataLen, PDU_HEADER_LEN

------------------------------------------------------------------------------
(* The type invariant. *)

\* A byte is a number.
LEMMA BytesAre == Bytes \subseteq Nat
BY PacketBytesAssumption DEF Bytes, HANDLE_FINISH_FLAG

\* Every step keeps the types.
LEMMA NextType ==
  ASSUME TypeOK, [Next]_vars
  PROVE  TypeOK'
<1> USE DEF TypeOK
<1>1. ASSUME NEW pdu \in Pdus, SendPDU(pdu)
      PROVE  TypeOK'
  <2>1. Frame(Data[pdu]) \in Seq(Bytes)
    BY FrameIs
  <2>2. Append(built, pdu) \in Seq(Pdus) /\ Len(Append(built, pdu)) = Len(built) + 1
    OBVIOUS
  <2> QED BY <1>1, <2>1, <2>2, PduStreamAssumption DEF SendPDU
<1>2. CASE Copy
  <2>1. Head(unsent) \in Bytes /\ Tail(unsent) \in Seq(Bytes)
    BY <1>2, HeadTailProperties DEF Copy
  <2> QED BY <1>2, <2>1, PduStreamAssumption DEF Copy
<1>3. CASE SenderEnds
  BY <1>3 DEF SenderEnds
<1>4. CASE Reset
  <2> PICK n \in 0 .. Len(wire) - 1 :
        /\ wire' = SubSeq(wire, 1, n)
        /\ unsent' = SubSeq(wire, n + 1, Len(wire)) \o unsent
    BY <1>4 DEF Reset
  <2>1. Len(wire) \in Nat /\ \A i \in 1 .. Len(wire) : wire[i] \in Bytes
    OBVIOUS
  <2>2. SubSeq(wire, 1, n) \in Seq(Bytes) /\ Len(SubSeq(wire, 1, n)) = n
    BY <2>1, SubSeqProperties
  <2>3. SubSeq(wire, n + 1, Len(wire)) \in Seq(Bytes)
    BY <2>1, SubSeqProperties
  <2> QED BY <1>4, <2>1, <2>2, <2>3, PduStreamAssumption DEF Reset
<1>5. CASE PollReturns
  BY <1>5 DEF PollReturns
<1>6. CASE RecvByte
  <2>1. Head(wire) \in Bytes /\ Tail(wire) \in Seq(Bytes) /\ Len(Tail(wire)) = Len(wire) - 1
    BY <1>6, HeadTailProperties DEF RecvByte
  <2> QED BY <1>6, <2>1, PduStreamAssumption DEF RecvByte
<1>7. CASE HeaderEof
  BY <1>7 DEF HeaderEof
<1>8. CASE HeaderReceived
  <2>1. /\ phase' \in {"exited", "closed", "payload"}
        /\ data_len' \in 0 .. bufferSize
    BY <1>8 DEF HeaderReceived
  <2>2. got' = <<>> /\ UNCHANGED <<built, unsent, sender, wire, received>>
    BY <1>8 DEF HeaderReceived
  <2> QED BY <2>1, <2>2
<1>9. CASE PayloadReceived
  <2>1. Append(received, got) \in Seq(Seq(Bytes))
    BY AppendProperties
  <2>2. received' \in Seq(Seq(Bytes)) /\ got' = <<>> /\ phase' \in {"closed", "poll"}
    BY <1>9, <2>1 DEF PayloadReceived
  <2> QED BY <1>9, <2>2 DEF PayloadReceived
<1>10. CASE UNCHANGED vars
  BY <1>10 DEF vars
<1> QED BY <1>1, <1>2, <1>3, <1>4, <1>5, <1>6, <1>7, <1>8, <1>9, <1>10 DEF Next, Receiver

\* Every byte, queue and length of a connection is well-typed: what recvPDU takes
\* for the length of a payload fits its buffer, or it goes no further
\* (pdu.c:40-58).
THEOREM TypeCorrect == Spec => []TypeOK
<1>1. Init => TypeOK
  BY PduStreamAssumption DEF Init, TypeOK
<1> QED BY <1>1, NextType, PTL DEF Spec

------------------------------------------------------------------------------
(* The receiver in step.  Every byte of every frame has a position, counted *)
(* from the first one built; end[i] is where the i-th frame ends.            *)

Layout(end) ==
  /\ end \in [0 .. Len(built) -> Nat]
  /\ end[0] = 0
  /\ \A i \in 1 .. Len(built) : end[i] = end[i - 1] + Len(Data[built[i]]) + 2
  /\ \A i, j \in 0 .. Len(built) : i <= j => end[i] <= end[j]

\* What has been built and is not consumed.
Flow == (got \o wire) \o unsent

\* The stream, as the strings it is joined from.
LEMMA FlowJoins ==
  /\ Flow = Join(got, wire, unsent)
  /\ Flow' = Join(got', wire', unsent')
BY DEF Flow, Join

\* How far the receiver has consumed.
Consumed(end) == end[Len(built)] - Len(Flow)

\* The bytes that are left are those built, each at its place.
Carried(end) ==
  /\ Consumed(end) >= 0
  /\ \A i \in 1 .. Len(built) : \A k \in 1 .. Len(Data[built[i]]) + 2 :
       end[i - 1] + k > Consumed(end) =>
         Flow[end[i - 1] + k - Consumed(end)] = Frame(Data[built[i]])[k]

\* Where the receiver is between and inside frames.
InPhase(end) ==
  \/ phase = "poll" /\ got = <<>> /\ Consumed(end) = end[Len(received)]
  \/ phase = "header" /\ Len(got) <= 2 /\ Consumed(end) = end[Len(received)]
  \/ /\ phase = "payload"
     /\ Len(received) < Len(built)
     /\ Consumed(end) = end[Len(received)] + 2
     /\ data_len = Len(Data[built[Len(received) + 1]])
     /\ Len(got) <= data_len

ReceivedWhole ==
  /\ Len(received) <= Len(built)
  /\ \A i \in DOMAIN received : received[i] = Data[built[i]]

InSync == ReceivedWhole /\ \E end : Layout(end) /\ Carried(end) /\ InPhase(end)

\* The sender has ended, and nothing of what it sent is left to be received.
GivenUp == sender = "ended" /\ wire = <<>> /\ got = <<>> /\ InStep

IInv == TypeOK /\ (InSync \/ GivenUp)

\* Where the bytes of the stream are.
LEMMA FlowIs ==
  ASSUME TypeOK
  PROVE  /\ Flow \in Seq(Bytes)
         /\ Len(Flow) = Len(got) + Len(wire) + Len(unsent)
         /\ \A k \in 1 .. Len(got) : Flow[k] = got[k]
         /\ Len(got) \in Nat /\ Len(wire) \in Nat /\ Len(unsent) \in Nat
         /\ Len(built) \in Nat /\ Len(received) \in Nat
<1>1. got \in Seq(Bytes) /\ wire \in Seq(Bytes) /\ unsent \in Seq(Bytes)
      /\ built \in Seq(Pdus) /\ received \in Seq(Seq(Bytes))
  BY DEF TypeOK
<1>2. /\ got \o wire \in Seq(Bytes) /\ Len(got \o wire) = Len(got) + Len(wire)
      /\ \A k \in 1 .. Len(got) : (got \o wire)[k] = got[k]
  BY <1>1, ConcatProperties
<1> DEFINE front == got \o wire
<1> HIDE DEF front
<1>3. /\ front \o unsent \in Seq(Bytes) /\ Len(front \o unsent) = Len(front) + Len(unsent)
      /\ \A k \in 1 .. Len(front) : (front \o unsent)[k] = front[k]
  BY <1>1, <1>2, ConcatProperties DEF front
<1>4. Flow = front \o unsent
  BY DEF Flow, front
<1> QED BY <1>1, <1>2, <1>3, <1>4 DEF front

\* Where a frame lies depends on what was built and what is left, not on where
\* that is.
LEMMA Unmoved ==
  ASSUME Flow' = Flow, built' = built, NEW end
  PROVE  /\ Layout(end)' <=> Layout(end)
         /\ Consumed(end)' = Consumed(end)
         /\ Carried(end)' <=> Carried(end)
<1>1. Consumed(end)' = Consumed(end)
  BY DEF Consumed
<1>2. Layout(end)' <=> Layout(end)
  BY DEF Layout
<1>3. Carried(end)' <=> Carried(end)
  BY <1>1 DEF Carried
<1> QED BY <1>1, <1>2, <1>3

\* As long as the sender runs, or something is left, the receiver is in step.
LEMMA StillInSync ==
  ASSUME IInv, sender = "runs" \/ wire # <<>> \/ got # <<>>
  PROVE  InSync
BY DEF IInv, GivenUp

\* Whoever is in step in what follows is so in the smaller statement too.
LEMMA SyncIsInStep ==
  ASSUME InSync
  PROVE  InStep
BY DEF InSync, ReceivedWhole, InPhase, InStep

\* A step that builds and consumes nothing keeps the receiver in step.
LEMMA PhaseKept ==
  ASSUME InSync, Flow' = Flow, built' = built, received' = received,
         \A end : Layout(end) /\ InPhase(end) => InPhase(end)'
  PROVE  InSync'
<1> PICK end : Layout(end) /\ Carried(end) /\ InPhase(end)
  BY DEF InSync
<1>1. Layout(end)' /\ Carried(end)' /\ InPhase(end)'
  BY Unmoved
<1>2. ReceivedWhole'
  BY DEF InSync, ReceivedWhole
<1> QED BY <1>1, <1>2 DEF InSync

\* sendPDU puts a whole frame at the end of the stream.
LEMMA SendInSync ==
  ASSUME IInv, NEW pdu \in Pdus, SendPDU(pdu)
  PROVE  InSync'
<1> DEFINE n == Len(built)
           data == Data[pdu]
           frame == Frame(data)
<1>1. InSync /\ TypeOK
  BY StillInSync DEF SendPDU, IInv
<1> PICK end : Layout(end) /\ Carried(end) /\ InPhase(end)
  BY <1>1 DEF InSync
<1>2. /\ built' = Append(built, pdu) /\ unsent' = frame /\ unsent = <<>>
      /\ UNCHANGED <<wire, phase, data_len, got, received>>
  BY DEF SendPDU
<1>3. /\ frame \in Seq(Bytes) /\ Len(frame) = Len(data) + 2 /\ Len(data) \in Nat
      /\ n \in Nat /\ Len(Flow) \in Nat /\ Flow \in Seq(Bytes)
  BY <1>1, FrameIs, DataIs, FlowIs
<1>4. Flow' = Flow \o frame
  <2>1. got \o wire \in Seq(Bytes)
    BY <1>1, ConcatProperties DEF TypeOK
  <2>2. (got \o wire) \o <<>> = got \o wire
    BY <2>1, ConcatEmptySeq
  <2> QED BY <1>2, <2>2 DEF Flow
<1>5. /\ Len(built') = n + 1 /\ built'[n + 1] = pdu
      /\ \A i \in 1 .. n : built'[i] = built[i]
  BY <1>1, <1>2, AppendProperties DEF TypeOK
<1> PICK end1 : end1 = [i \in 0 .. n + 1 |-> IF i <= n THEN end[i] ELSE end[n] + Len(data) + 2]
  OBVIOUS
<1>6. /\ end \in [0 .. n -> Nat] /\ end[0] = 0
      /\ \A i \in 1 .. n : end[i] = end[i - 1] + Len(Data[built[i]]) + 2
      /\ \A i, j \in 0 .. n : i <= j => end[i] <= end[j]
  BY DEF Layout
<1>7. /\ end1 \in [0 .. n + 1 -> Nat]
      /\ \A i \in 0 .. n : end1[i] = end[i]
      /\ end1[n + 1] = end[n] + Len(data) + 2
  <2>1. \A i \in 0 .. n : end[i] \in Nat
    BY <1>6
  <2>2. n \in 0 .. n /\ n + 1 \in 0 .. n + 1 /\ ~(n + 1 <= n)
    BY <1>3
  <2> QED BY <1>3, <2>1, <2>2
<1> HIDE DEF n, frame, data
<1>8. Layout(end1)'
  <2>1. ASSUME NEW i \in 1 .. n + 1
        PROVE  end1[i] = end1[i - 1] + Len(Data[built'[i]]) + 2
    <3>1. CASE i <= n
      <4>1. i \in 1 .. n /\ i - 1 \in 0 .. n /\ i \in 0 .. n
        BY <1>3, <3>1
      <4> QED BY <1>5, <1>6, <1>7, <4>1
    <3>2. CASE i = n + 1
      <4>1. i - 1 = n /\ n \in 0 .. n
        BY <1>3, <3>2
      <4> QED BY <1>5, <1>7, <3>2, <4>1 DEF data
    <3> QED BY <1>3, <3>1, <3>2
  <2>2. ASSUME NEW i \in 0 .. n + 1, NEW j \in 0 .. n + 1, i <= j
        PROVE  end1[i] <= end1[j]
    <3>1. CASE j <= n
      BY <1>3, <1>6, <1>7, <2>2, <3>1
    <3>2. CASE j = n + 1
      <4>1. CASE i = n + 1
        BY <1>7, <3>2, <4>1
      <4>2. CASE i <= n
        <5>1. i \in 0 .. n /\ n \in 0 .. n /\ end[i] \in Nat /\ end[n] \in Nat
          BY <1>3, <1>6, <4>2
        <5>2. end[i] <= end[n]
          BY <1>3, <1>6, <4>2, <5>1
        <5> QED BY <1>3, <1>7, <3>2, <5>1, <5>2
      <4> QED BY <1>3, <4>1, <4>2
    <3> QED BY <1>3, <3>1, <3>2
  <2>3. end1[0] = 0
    BY <1>3, <1>6, <1>7
  <2> QED BY <1>5, <1>7, <2>1, <2>2, <2>3 DEF Layout
<1>9. /\ Len(Flow') = Len(Flow) + Len(frame)
      /\ \A i \in 1 .. Len(Flow) : Flow'[i] = Flow[i]
      /\ \A k \in 1 .. Len(frame) : Flow'[Len(Flow) + k] = frame[k]
  <2>1. /\ Len(Flow \o frame) = Len(Flow) + Len(frame)
        /\ \A i \in 1 .. Len(Flow) + Len(frame) :
             (Flow \o frame)[i] = IF i <= Len(Flow) THEN Flow[i] ELSE frame[i - Len(Flow)]
    BY <1>3, ConcatProperties
  <2>2. \A k \in 1 .. Len(frame) : /\ Len(Flow) + k \in 1 .. Len(Flow) + Len(frame)
                                   /\ ~(Len(Flow) + k <= Len(Flow))
                                   /\ (Len(Flow) + k) - Len(Flow) = k
    BY <1>3
  <2>3. Len(frame) \in Nat /\ Len(Flow) \in Nat
    BY <1>3
  <2>4. \A i \in 1 .. Len(Flow) : i \in 1 .. Len(Flow) + Len(frame) /\ i <= Len(Flow)
    BY <2>3
  <2> QED BY <1>4, <2>1, <2>2, <2>4
<1>10. Consumed(end1)' = Consumed(end) /\ Consumed(end) \in Nat
  <2>1. Consumed(end1)' = end1[n + 1] - Len(Flow')
    BY <1>5 DEF Consumed
  <2>2. Consumed(end) = end[n] - Len(Flow) /\ Consumed(end) >= 0
    BY DEF Consumed, Carried, n
  <2>3. end[n] \in Nat
    BY <1>3, <1>6
  <2> QED BY <1>3, <1>7, <1>9, <2>1, <2>2, <2>3
<1>11. Carried(end1)'
  <2> SUFFICES ASSUME NEW i \in 1 .. n + 1, NEW k \in 1 .. Len(Data[built'[i]]) + 2,
                      end1[i - 1] + k > Consumed(end)
               PROVE  Flow'[end1[i - 1] + k - Consumed(end)] = Frame(Data[built'[i]])[k]
    BY <1>5, <1>10 DEF Carried
  <2>1. CASE i <= n
    <3>1. i \in 1 .. n /\ i - 1 \in 0 .. n /\ i \in 0 .. n /\ n \in 0 .. n
      BY <1>3, <2>1
    <3>2. built'[i] = built[i] /\ end1[i - 1] = end[i - 1]
      BY <1>5, <1>7, <3>1
    <3>3. Flow[end[i - 1] + k - Consumed(end)] = Frame(Data[built[i]])[k]
      BY <3>1, <3>2 DEF Carried, n
    <3>4. end[i - 1] + k - Consumed(end) \in 1 .. Len(Flow)
      <4>1. end[i - 1] \in Nat /\ end[i] \in Nat /\ end[n] \in Nat
            /\ end[i] <= end[n] /\ end[i] = end[i - 1] + Len(Data[built[i]]) + 2
        <5>1. end[i - 1] \in Nat /\ end[i] \in Nat /\ end[n] \in Nat
          BY <1>6, <3>1
        <5>2. end[i] <= end[n]
          BY <1>6, <2>1, <3>1
        <5>3. end[i] = end[i - 1] + Len(Data[built[i]]) + 2
          BY <1>6, <3>1
        <5> QED BY <5>1, <5>2, <5>3
      <4>2. built[i] \in Pdus
        BY <1>1, <3>1 DEF TypeOK, n
      <4>3. Len(Data[built[i]]) \in Nat
        BY <4>2, DataIs
      <4>4. end[i - 1] + k <= end[n]
        BY <3>2, <4>1, <4>3
      <4>5. end[n] = Consumed(end) + Len(Flow)
        BY <1>3, <4>1 DEF Consumed, n
      <4>6. k \in Nat
        BY <3>2, <4>3
      <4>7. end[i - 1] + k > Consumed(end)
        BY <3>2
      <4>8. Consumed(end) \in Nat /\ Len(Flow) \in Nat
        BY <1>3, <1>10
      <4>9. end[i - 1] \in Nat
        BY <4>1
      <4> HIDE <4>1
      <4> QED BY <4>4, <4>5, <4>6, <4>7, <4>8, <4>9
    <3> QED BY <1>9, <3>2, <3>3, <3>4
  <2>2. CASE i = n + 1
    <3>1. i - 1 = n /\ n \in 0 .. n
      BY <1>3, <2>2
    <3>2. built'[i] = pdu /\ end1[i - 1] = end[n] /\ end[n] \in Nat
      BY <1>5, <1>6, <1>7, <2>2, <3>1
    <3>3. end[n] = Consumed(end) + Len(Flow)
      BY <1>3, <3>2 DEF Consumed, n
    <3>4. k \in 1 .. Len(frame)
      BY <1>3, <3>2 DEF data
    <3>5. end1[i - 1] + k - Consumed(end) = Len(Flow) + k
      BY <1>3, <1>10, <3>2, <3>3, <3>4
    <3> QED BY <1>9, <3>2, <3>4, <3>5 DEF frame, data
  <2> QED BY <1>3, <2>1, <2>2
<1>12. Len(received) \in 0 .. n
  BY <1>1, <1>3, FlowIs DEF InSync, ReceivedWhole, n
<1>13. InPhase(end1)'
  <2>1. end1[Len(received)] = end[Len(received)]
    BY <1>7, <1>12
  <2>2. Len(received) < n => Len(received) + 1 \in 1 .. n /\ Len(received) < n + 1
    BY <1>3, <1>12
  <2>3. Len(received) < n => built'[Len(received) + 1] = built[Len(received) + 1]
    BY <1>5, <2>2
  <2> QED BY <1>2, <1>5, <1>10, <2>1, <2>2, <2>3 DEF InPhase, n
<1>14. ReceivedWhole'
  <2>1. DOMAIN received = 1 .. Len(received)
    BY <1>1 DEF TypeOK
  <2>2. \A i \in DOMAIN received : i \in 1 .. n
    BY <1>3, <1>12, <2>1
  <2>3. \A i \in DOMAIN received : received[i] = Data[built[i]]
    BY <1>1 DEF InSync, ReceivedWhole
  <2>4. received' = received
    BY <1>2
  <2> QED BY <1>3, <1>5, <1>12, <2>2, <2>3, <2>4 DEF ReceivedWhole
<1> QED BY <1>8, <1>11, <1>13, <1>14 DEF InSync

\* A byte that moves, and a sender that ends, change nothing.
LEMMA MovesInSync ==
  ASSUME IInv, Copy \/ Reset \/ RecvByte
  PROVE  InSync'
<1>1. InSync
  BY StillInSync DEF Copy, Reset, RecvByte, IInv, TypeOK
<1>2. /\ got \in Seq(Bytes) /\ wire \in Seq(Bytes) /\ unsent \in Seq(Bytes)
      /\ built' = built /\ received' = received
  BY DEF IInv, TypeOK, Copy, Reset, RecvByte
<1>3. CASE Copy
  <2>1. Flow' = Flow
    <3>1. unsent # <<>> /\ got' = got
          /\ wire' = Append(wire, Head(unsent)) /\ unsent' = Tail(unsent)
      BY <1>3 DEF Copy
    <3>2. (got \o Append(wire, Head(unsent))) \o Tail(unsent) = (got \o wire) \o unsent
      BY <1>2, <3>1, MoveNext
    <3> QED BY <3>1, <3>2 DEF Flow
  <2> QED BY <1>1, <1>2, <1>3, <2>1, PhaseKept DEF Copy, InPhase, Consumed
<1>4. CASE Reset
  <2>1. Flow' = Flow
    <3>1. PICK n \in 0 .. Len(wire) - 1 :
            /\ wire' = SubSeq(wire, 1, n)
            /\ unsent' = SubSeq(wire, n + 1, Len(wire)) \o unsent
      BY <1>4 DEF Reset
    <3>2. PICK lost : lost = SubSeq(wire, n + 1, Len(wire))
      OBVIOUS
    <3>3. ByteString(wire') /\ ByteString(lost) /\ wire = wire' \o lost
      <4>1. n \in 0 .. Len(wire)
        BY <1>2
      <4> QED BY <1>2, <3>1, <3>2, <4>1, SplitAt
    <3>4. Strings(got, wire', lost, unsent)
      BY <1>2, <3>3 DEF ByteString, Strings
    <3>5. unsent' = lost \o unsent /\ got' = got
      BY <1>4, <3>1, <3>2 DEF Reset
    <3>6. Join(got, wire', lost \o unsent) = Join(got, wire' \o lost, unsent)
      <4>1. Rejoined(got, wire', lost, unsent)
        BY <3>4, Rejoin
      <4> QED BY <4>1 DEF Rejoined
    <3>7. Join(got, wire', unsent') = Join(got, wire, unsent)
      BY <3>3, <3>5, <3>6, Zenon
    <3> QED BY <3>5, <3>7, FlowJoins, Zenon
  <2> QED BY <1>1, <1>2, <1>4, <2>1, PhaseKept DEF Reset, InPhase, Consumed
<1>5. CASE RecvByte
  <2>1. Flow' = Flow
    BY <1>2, <1>5, MoveOne DEF RecvByte, Flow
  <2>2. Len(got') = Len(got) + 1 /\ Len(got) \in Nat
    BY <1>2, <1>5, AppendProperties DEF RecvByte
  <2>3. /\ phase \in {"header", "payload"} /\ Len(got) < Wanted
        /\ phase' = phase /\ data_len' = data_len
    BY <1>5 DEF RecvByte
  <2>4. data_len \in Nat
    BY PduStreamAssumption DEF IInv, TypeOK
  <2>5. ASSUME NEW end, InPhase(end)
        PROVE  InPhase(end)'
    <3>1. Consumed(end)' = Consumed(end)
      BY <1>2, <2>1 DEF Consumed
    <3>2. CASE phase = "header"
      BY <1>2, <2>2, <2>3, <2>5, <3>1, <3>2 DEF InPhase, Wanted, PDU_HEADER_LEN
    <3>3. CASE phase = "payload"
      BY <1>2, <2>2, <2>3, <2>4, <2>5, <3>1, <3>3 DEF InPhase, Wanted
    <3> QED BY <2>3, <3>2, <3>3
  <2> QED BY <1>1, <1>2, <2>1, <2>5, PhaseKept
<1> QED BY <1>3, <1>4, <1>5

\* The end of the sender takes nothing back.
LEMMA EndsInSync ==
  ASSUME IInv, SenderEnds
  PROVE  InSync'
<1>1. InSync
  BY StillInSync DEF SenderEnds
<1>2. Flow' = Flow /\ built' = built /\ received' = received
  BY DEF SenderEnds, Flow
<1> QED BY <1>1, <1>2, PhaseKept DEF SenderEnds, InPhase, Consumed

\* pollCall leaves the bytes where they are.
LEMMA PollKeepsSync ==
  ASSUME InSync, PollReturns
  PROVE  InSync'
<1>1. got = <<>> /\ got' = <<>>
  BY DEF InSync, InPhase, PollReturns
<1>2. Flow' = Flow /\ built' = built /\ received' = received
  BY <1>1 DEF PollReturns, Flow
<1> QED BY <1>1, <1>2, PhaseKept DEF PollReturns, InPhase, Consumed

\* A return of pollCall keeps the receiver in step, or finds nothing left.
LEMMA PollInSync ==
  ASSUME IInv, PollReturns
  PROVE  InSync' \/ GivenUp'
<1>1. CASE InSync
  BY <1>1, PollKeepsSync
<1>2. CASE GivenUp
  BY <1>2 DEF GivenUp, InStep, PollReturns
<1> QED BY <1>1, <1>2 DEF IInv

\* After the end of the stream nothing comes.
LEMMA GivesUp ==
  ASSUME IInv, AtEnd, got' = <<>>, UNCHANGED <<built, sender, wire, received>>
  PROVE  GivenUp'
<1>1. InStep
  BY SyncIsInStep DEF IInv, GivenUp
<1> QED BY <1>1 DEF GivenUp, InStep, AtEnd

\* An end of file before a header is the end of the connection.
LEMMA HeaderEofInSync ==
  ASSUME IInv, HeaderEof
  PROVE  GivenUp'
<1>1. AtEnd /\ got' = <<>> /\ UNCHANGED <<built, sender, wire, received>>
  BY DEF HeaderEof, RecvReturns, Wanted, PDU_HEADER_LEN
<1> QED BY <1>1, GivesUp

\* What a layout of the frames says of the bytes consumed and left.
LEMMA SyncFacts ==
  ASSUME IInv, NEW end, Layout(end), Carried(end), InPhase(end), ReceivedWhole
  PROVE  /\ end \in [0 .. Len(built) -> Nat]
         /\ Len(received) \in 0 .. Len(built) /\ Len(built) \in Nat
         /\ Consumed(end) + Len(Flow) = end[Len(built)]
         /\ \A i \in 1 .. Len(built) :
              /\ built[i] \in Pdus
              /\ Len(Data[built[i]]) \in Nat
              /\ end[i] = end[i - 1] + Len(Data[built[i]]) + 2
              /\ end[i] <= end[Len(built)]
<1>1. /\ Len(received) \in Nat /\ Len(built) \in Nat /\ Len(Flow) \in Nat
      /\ built \in Seq(Pdus)
  BY FlowIs DEF IInv, TypeOK
<1>2. \A i \in 1 .. Len(built) : built[i] \in Pdus /\ Len(Data[built[i]]) \in Nat
  BY <1>1, DataIs
<1>3. /\ end \in [0 .. Len(built) -> Nat]
      /\ \A i \in 1 .. Len(built) : end[i] = end[i - 1] + Len(Data[built[i]]) + 2
      /\ \A i, j \in 0 .. Len(built) : i <= j => end[i] <= end[j]
  BY DEF Layout
<1>4. \A i \in 1 .. Len(built) : i \in 0 .. Len(built) /\ Len(built) \in 0 .. Len(built) /\ i <= Len(built)
  BY <1>1
<1>5. end[Len(built)] \in Nat
  BY <1>1, <1>3
<1>6. Consumed(end) + Len(Flow) = end[Len(built)]
  BY <1>1, <1>5 DEF Consumed
<1>7. Len(received) <= Len(built)
  BY DEF ReceivedWhole
<1> QED BY <1>1, <1>2, <1>3, <1>4, <1>6, <1>7

\* The bytes of got are those of the next frame, from offset bytes on.
LEMMA NextBytes ==
  ASSUME IInv, NEW end, Layout(end), Carried(end), InPhase(end), ReceivedWhole,
         NEW offset \in Nat, Consumed(end) = end[Len(received)] + offset,
         Len(received) < Len(built)
  PROVE  \A k \in 1 .. Len(got) :
           k + offset <= Len(Data[built[Len(received) + 1]]) + 2 =>
             got[k] = Frame(Data[built[Len(received) + 1]])[k + offset]
<1> DEFINE r == Len(received)
<1>1. /\ r \in Nat /\ r + 1 \in 1 .. Len(built) /\ end[r] \in Nat
      /\ Len(Data[built[r + 1]]) \in Nat
  BY SyncFacts
<1>2. /\ Len(got) \in Nat /\ \A k \in 1 .. Len(got) : Flow[k] = got[k]
  BY FlowIs DEF IInv
<1> SUFFICES ASSUME NEW k \in 1 .. Len(got), k + offset <= Len(Data[built[r + 1]]) + 2
             PROVE  got[k] = Frame(Data[built[r + 1]])[k + offset]
  OBVIOUS
<1>3. k + offset \in 1 .. Len(Data[built[r + 1]]) + 2
  BY <1>1, <1>2
<1>4. /\ end[r] + (k + offset) > Consumed(end)
      /\ end[r] + (k + offset) - Consumed(end) = k
  BY <1>1, <1>2
<1>5. (r + 1) - 1 = r
  BY <1>1
<1>6. Flow[end[r] + (k + offset) - Consumed(end)] = Frame(Data[built[r + 1]])[k + offset]
  BY <1>1, <1>3, <1>4, <1>5 DEF Carried
<1> QED BY <1>2, <1>4, <1>6

\* While something is left, there is another frame.
LEMMA MoreBuilt ==
  ASSUME IInv, NEW end, Layout(end), Carried(end), InPhase(end), ReceivedWhole,
         Consumed(end) = end[Len(received)], got # <<>>
  PROVE  Len(received) < Len(built)
<1>1. Len(received) \in 0 .. Len(built) /\ Len(built) \in Nat
      /\ end \in [0 .. Len(built) -> Nat]
      /\ Consumed(end) + Len(Flow) = end[Len(built)]
  BY SyncFacts
<1>2. Len(Flow) > 0 /\ Len(Flow) \in Nat
  <2>1. /\ Len(Flow) = Len(got) + Len(wire) + Len(unsent)
        /\ Len(got) \in Nat /\ Len(wire) \in Nat /\ Len(unsent) \in Nat
    BY FlowIs DEF IInv
  <2>2. Len(got) # 0
    BY DEF IInv, TypeOK
  <2> QED BY <2>1, <2>2
<1>3. Len(received) # Len(built)
  <2>1. end[Len(built)] \in Nat
    BY <1>1
  <2> QED BY <1>1, <1>2, <2>1
<1> QED BY <1>1, <1>3

\* The bytes of a recv() that returns leave the flow.
LEMMA Taken ==
  ASSUME IInv, got' = <<>>, UNCHANGED <<built, unsent, wire>>, NEW end,
         Layout(end), Carried(end), InPhase(end), ReceivedWhole
  PROVE  /\ Layout(end)' /\ Carried(end)'
         /\ Consumed(end)' = Consumed(end) + Len(got)
<1>1. /\ got \in Seq(Bytes) /\ wire \in Seq(Bytes) /\ unsent \in Seq(Bytes)
      /\ Len(got) \in Nat /\ Len(built) \in Nat
      /\ Len(Flow) = Len(got) + Len(wire) + Len(unsent)
      /\ Len(wire) \in Nat /\ Len(unsent) \in Nat
  BY FlowIs DEF IInv, TypeOK
<1>0. PICK rest : rest = wire \o unsent
  OBVIOUS
<1>2. Flow' = rest
  BY <1>0, <1>1 DEF Flow
<1>3. rest \in Seq(Bytes) /\ Len(rest) = Len(wire) + Len(unsent) /\ Len(rest) \in Nat
  BY <1>0, <1>1, ConcatProperties
<1>4. Flow = got \o rest
  BY <1>0, <1>1, ConcatAssociative DEF Flow
<1>5. \A k \in 1 .. Len(rest) : (got \o rest)[Len(got) + k] = rest[k]
  <2>1. \A k \in 1 .. Len(got) + Len(rest) :
          (got \o rest)[k] = IF k <= Len(got) THEN got[k] ELSE rest[k - Len(got)]
    BY <1>1, <1>3, ConcatProperties
  <2>2. \A k \in 1 .. Len(rest) : /\ Len(got) + k \in 1 .. Len(got) + Len(rest)
                                  /\ ~(Len(got) + k <= Len(got))
                                  /\ (Len(got) + k) - Len(got) = k
    BY <1>1, <1>3
  <2> QED BY <2>1, <2>2
<1>6. /\ end \in [0 .. Len(built) -> Nat]
      /\ \A i \in 1 .. Len(built) :
           /\ Len(Data[built[i]]) \in Nat
           /\ end[i] = end[i - 1] + Len(Data[built[i]]) + 2
           /\ end[i] <= end[Len(built)]
  BY SyncFacts
<1>7. end[Len(built)] \in Nat
  <2>1. Len(built) \in 0 .. Len(built)
    BY <1>1
  <2> QED BY <1>6, <2>1
<1>8. Consumed(end) = end[Len(built)] - Len(Flow) /\ Consumed(end) >= 0
      /\ Consumed(end)' = end[Len(built)] - Len(rest)
  BY <1>2 DEF Consumed, Carried
<1>9. Consumed(end)' = Consumed(end) + Len(got) /\ Consumed(end) \in Nat
  BY <1>1, <1>3, <1>7, <1>8
<1>10. Layout(end)'
  BY DEF Layout
<1>11. Carried(end)'
  <2> SUFFICES ASSUME NEW i \in 1 .. Len(built), NEW k \in 1 .. Len(Data[built[i]]) + 2,
                      end[i - 1] + k > Consumed(end) + Len(got)
               PROVE  rest[end[i - 1] + k - (Consumed(end) + Len(got))]
                        = Frame(Data[built[i]])[k]
    BY <1>1, <1>2, <1>9 DEF Carried
  <2>1. /\ end[i - 1] \in Nat /\ k \in Nat /\ end[i - 1] + k <= end[Len(built)]
    <3>1. i - 1 \in 0 .. Len(built) /\ i \in 0 .. Len(built)
      BY <1>1
    <3>2. end[i - 1] \in Nat /\ end[i] \in Nat /\ Len(Data[built[i]]) \in Nat
          /\ end[i] = end[i - 1] + Len(Data[built[i]]) + 2 /\ end[i] <= end[Len(built)]
      BY <1>6, <3>1
    <3> QED BY <1>7, <3>2
  <2> DEFINE q == end[i - 1] + k - (Consumed(end) + Len(got))
  <2>2. q \in 1 .. Len(rest) /\ end[i - 1] + k - Consumed(end) = Len(got) + q
    <3>1. end[Len(built)] = Consumed(end) + (Len(got) + Len(rest))
      BY <1>1, <1>3, <1>7, <1>8
    <3>2. Len(rest) \in Nat /\ Len(got) \in Nat /\ Consumed(end) \in Nat
      BY <1>1, <1>3, <1>9
    <3>3. end[i - 1] \in Nat /\ k \in Nat
          /\ end[i - 1] + k <= Consumed(end) + (Len(got) + Len(rest))
      BY <2>1, <3>1
    <3>4. q \in Int /\ q >= 1
      BY <3>2, <3>3
    <3>5. q <= Len(rest)
      BY <3>2, <3>3
    <3>6. end[i - 1] + k - Consumed(end) = Len(got) + q
      BY <3>2, <3>3
    <3> QED BY <3>2, <3>4, <3>5, <3>6
  <2>3. Flow[end[i - 1] + k - Consumed(end)] = Frame(Data[built[i]])[k]
    <3>1. end[i - 1] + k > Consumed(end)
      BY <1>1, <1>9, <2>1
    <3> QED BY <3>1 DEF Carried
  <2> HIDE DEF q
  <2>4. rest[q] = Frame(Data[built[i]])[k]
    BY <1>4, <1>5, <2>2, <2>3
  <2> QED BY <2>4 DEF q
<1> QED BY <1>9, <1>10, <1>11

\* A header of which every byte came announces the data of the next frame.
LEMMA HeaderWhole ==
  ASSUME IInv, InSync, HeaderReceived, Len(got) = 2
  PROVE  InSync' /\ phase' = "payload"
<1>1. TypeOK
  BY DEF IInv
<1> PICK end : Layout(end) /\ Carried(end) /\ InPhase(end)
  BY DEF InSync
<1>2. ReceivedWhole
  BY DEF InSync
<1>3. /\ phase = "header" /\ got # <<>> /\ got' = <<>> /\ RecvReturns
      /\ UNCHANGED <<built, unsent, sender, wire, received>>
  BY DEF HeaderReceived
<1> DEFINE next == built[Len(received) + 1]
<1>4. Consumed(end) = end[Len(received)]
  BY <1>3 DEF InPhase
<1>5. Len(received) < Len(built)
  BY <1>2, <1>3, <1>4, MoreBuilt
<1>6. next \in Pdus /\ Len(Data[next]) \in 1 .. bufferSize /\ Len(received) \in Nat
      /\ Len(Data[next]) \in Nat
  <2>1. Len(received) + 1 \in 1 .. Len(built)
    BY <1>2, <1>5, SyncFacts
  <2> QED BY <1>2, <2>1, SyncFacts, DataIs
<1>7. got[1] = Frame(Data[next])[1] /\ got[2] = Frame(Data[next])[2]
  <2>1. end[Len(received)] \in Nat /\ Consumed(end) = end[Len(received)] + 0
    BY <1>2, <1>4, SyncFacts
  <2>2. \A k \in 1 .. Len(got) :
          k + 0 <= Len(Data[next]) + 2 => got[k] = Frame(Data[next])[k + 0]
    BY <1>2, <1>5, <2>1, NextBytes
  <2>3. /\ 1 \in 1 .. 2 /\ 2 \in 1 .. 2 /\ 1 + 0 = 1 /\ 2 + 0 = 2
        /\ 1 <= Len(Data[next]) + 2 /\ 2 <= Len(Data[next]) + 2
    BY <1>6
  <2> QED BY <2>2, <2>3
<1>8. Headers = {got}
  BY DEF Headers, PDU_HEADER_LEN
<1>9. DataLen(got) = Len(Data[next])
  BY <1>6, <1>7, FrameLength
<1>10. phase' = "payload" /\ data_len' = Len(Data[next])
  <2>1. bufferSize \in Nat
    BY PduStreamAssumption
  <2>2. ~(DataLen(got) > bufferSize) /\ ~(DataLen(got) < 0)
    BY <1>6, <1>9, <2>1
  <2>3. PICK header \in Headers :
          LET len == DataLen(header)
          IN \/ (len > bufferSize \/ len < 0) /\ phase' = "exited" /\ UNCHANGED data_len
             \/ (len < 0 /\ AtEnd) /\ phase' = "closed" /\ UNCHANGED data_len
             \/ len \in 0 .. bufferSize /\ phase' = "payload" /\ data_len' = len
    BY DEF HeaderReceived
  <2> QED BY <1>8, <1>9, <2>2, <2>3
<1>11. Layout(end)' /\ Carried(end)' /\ Consumed(end)' = Consumed(end) + 2
  BY <1>2, <1>3, Taken
<1>12. InPhase(end)'
  <2>1. Len(got') = 0
    BY <1>3
  <2> HIDE DEF next
  <2> QED BY <1>3, <1>4, <1>5, <1>6, <1>10, <1>11, <2>1 DEF InPhase, next
<1>13. ReceivedWhole'
  BY <1>2, <1>3 DEF ReceivedWhole
<1> QED BY <1>10, <1>11, <1>12, <1>13 DEF InSync

\* The header the receiver takes is that of the next frame.
LEMMA HeaderInSync ==
  ASSUME IInv, HeaderReceived
  PROVE  InSync' \/ GivenUp'
<1>1. InSync /\ TypeOK
  BY StillInSync DEF HeaderReceived, IInv
<1>3. /\ phase = "header" /\ got # <<>> /\ got' = <<>> /\ RecvReturns
      /\ UNCHANGED <<built, unsent, sender, wire, received>>
  BY DEF HeaderReceived
<1>4. CASE Len(got) # 2
  <2>1. AtEnd
    BY <1>3, <1>4 DEF RecvReturns, Wanted, PDU_HEADER_LEN
  <2> QED BY <1>3, <2>1, GivesUp
<1>5. CASE Len(got) = 2
  BY <1>1, <1>5, HeaderWhole
<1> QED BY <1>4, <1>5

\* A recv() that returns has got the data of the next frame, or their start.
LEMMA PayloadNext ==
  ASSUME IInv, InSync, PayloadReceived
  PROVE  /\ Len(received) < Len(built) /\ built[Len(received) + 1] \in Pdus
         /\ data_len = Len(Data[built[Len(received) + 1]]) /\ data_len \in Nat \ {0}
         /\ Len(got) \in 0 .. data_len
         /\ \A k \in 1 .. Len(got) : got[k] = Data[built[Len(received) + 1]][k]
         /\ Len(got) = data_len => got = Data[built[Len(received) + 1]] /\ InSync'
<1>1. /\ phase = "payload" /\ got' = <<>> /\ RecvReturns
      /\ UNCHANGED <<built, unsent, sender, wire, data_len>>
      /\ got # <<>> => phase' = "poll" /\ received' = Append(received, got)
  BY DEF PayloadReceived
<1>2. TypeOK /\ got \in Seq(Bytes) /\ received \in Seq(Seq(Bytes)) /\ Len(got) \in Nat
  BY DEF IInv, TypeOK
<1> PICK end : Layout(end) /\ Carried(end) /\ InPhase(end)
  BY DEF InSync
<1> DEFINE r    == Len(received)
           data == Data[built[r + 1]]
<1>3. ReceivedWhole
  BY DEF InSync
<1>4. /\ r < Len(built) /\ Consumed(end) = end[r] + 2
      /\ data_len = Len(data) /\ Len(got) <= data_len
  BY <1>1 DEF InPhase
<1>5. /\ r \in Nat /\ Len(built) \in Nat /\ r + 1 \in 1 .. Len(built)
      /\ built[r + 1] \in Pdus /\ end[r] \in Nat
      /\ end[r + 1] = end[(r + 1) - 1] + Len(data) + 2
  BY <1>3, <1>4, SyncFacts
<1>6. data \in Seq(Bytes) /\ Len(data) \in 1 .. bufferSize /\ Len(data) \in Nat
      /\ \A k \in 1 .. Len(data) : Frame(data)[k + 2] = data[k]
  BY <1>5, DataIs, FrameIs
<1>7. \A k \in 1 .. Len(got) : got[k] = data[k] /\ k \in 1 .. Len(data)
  <2>1. \A k \in 1 .. Len(got) :
          k + 2 <= Len(data) + 2 => got[k] = Frame(data)[k + 2]
    BY <1>3, <1>4, NextBytes
  <2>2. \A k \in 1 .. Len(got) : k \in 1 .. Len(data) /\ k + 2 <= Len(data) + 2
    BY <1>2, <1>4, <1>6
  <2> QED BY <1>6, <2>1, <2>2
<1>8. \A i \in DOMAIN received : received[i] = Data[built[i]]
  BY <1>3 DEF ReceivedWhole
<1> HIDE DEF data
<1>9. ASSUME Len(got) = data_len
      PROVE  got = data /\ InSync'
  <2>1. got = data
    BY <1>2, <1>4, <1>6, <1>7, <1>9, SeqEqual
  <2>2. got # <<>>
    BY <1>4, <1>6, <1>9
  <2>3. /\ received' = Append(received, got) /\ phase' = "poll"
        /\ Len(received') = r + 1 /\ received'[r + 1] = got
        /\ DOMAIN received' = 1 .. r + 1
        /\ \A i \in 1 .. r : received'[i] = received[i]
    <3>1. received' = Append(received, got) /\ phase' = "poll"
      BY <1>1, <2>2
    <3>2. Append(received, got) \in Seq(Seq(Bytes))
      BY <1>2, AppendProperties
    <3> QED BY <1>2, <3>1, <3>2, AppendProperties
  <2>4. ReceivedWhole'
    <3>1. DOMAIN received = 1 .. r
      BY <1>2
    <3>2. \A i \in 1 .. r + 1 : received'[i] = Data[built[i]]
      BY <1>5, <1>8, <2>1, <2>3, <3>1 DEF data
    <3> QED BY <1>1, <1>4, <1>5, <2>3, <3>2 DEF ReceivedWhole
  <2>5. Layout(end)' /\ Carried(end)' /\ Consumed(end)' = Consumed(end) + Len(got)
    BY <1>1, <1>3, Taken
  <2>6. Consumed(end)' = end[r + 1]
    <3>1. (r + 1) - 1 = r
      BY <1>5
    <3> QED BY <1>4, <1>5, <1>6, <1>9, <2>5, <3>1
  <2>7. InPhase(end)'
    BY <1>1, <2>3, <2>6 DEF InPhase
  <2> QED BY <2>1, <2>4, <2>5, <2>7 DEF InSync
<1>10. data_len \in Nat \ {0} /\ Len(got) \in 0 .. data_len
  BY <1>2, <1>4, <1>6
<1> QED BY <1>4, <1>5, <1>7, <1>9, <1>10 DEF data

\* The payload the receiver takes is the data of that frame.
LEMMA PayloadInSync ==
  ASSUME IInv, PayloadReceived
  PROVE  InSync' \/ GivenUp'
<1>1. /\ phase = "payload" /\ got' = <<>> /\ RecvReturns
      /\ UNCHANGED <<built, unsent, sender, wire, data_len>>
      /\ \/ got = <<>> /\ phase' = "closed" /\ received' = received
         \/ got # <<>> /\ phase' = "poll" /\ received' = Append(received, got)
  BY DEF PayloadReceived
<1>2. TypeOK /\ got \in Seq(Bytes) /\ received \in Seq(Seq(Bytes)) /\ Len(got) \in Nat
      /\ built \in Seq(Pdus)
  BY DEF IInv, TypeOK
<1>3. CASE got = <<>> /\ AtEnd
  BY <1>1, <1>3, GivesUp
<1>4. CASE got # <<>> \/ ~AtEnd
  <2>1. InSync
    <3>1. CASE got # <<>>
      BY <3>1, StillInSync
    <3>2. CASE ~AtEnd
      BY <3>2 DEF AtEnd, IInv, GivenUp
    <3> QED BY <1>4, <3>1, <3>2
  <2> DEFINE r    == Len(received)
             data == Data[built[r + 1]]
  <2>2. /\ r < Len(built) /\ built[r + 1] \in Pdus /\ data_len = Len(data)
        /\ data_len \in Nat \ {0} /\ Len(got) \in 0 .. data_len
        /\ \A k \in 1 .. Len(got) : got[k] = data[k]
        /\ Len(got) = data_len => InSync'
    BY <2>1, PayloadNext
  <2>3. CASE Len(got) = data_len
    BY <2>2, <2>3
  <2>4. CASE Len(got) # data_len
    \* recv() returns less, or nothing, only at the end of the stream.
    <3>1. AtEnd /\ got # <<>>
      BY <1>1, <1>4, <2>4 DEF RecvReturns, Wanted
    <3>2. data \in Seq(Bytes) /\ Len(data) \in Nat
      BY <2>2, DataIs
    <3>3. /\ r \in Nat /\ Len(built) \in Nat /\ DOMAIN received = 1 .. r
          /\ \A i \in 1 .. r : received[i] = Data[built[i]]
      BY <1>2, <2>1 DEF InSync, ReceivedWhole
    <3> HIDE DEF data
    <3>4. IsStrictPrefix(got, data)
      <4>1. Len(got) <= Len(data) /\ Len(got) # Len(data)
        BY <2>2, <2>4
      <4>2. \A k \in 1 .. Len(got) : got[k] = data[k] /\ k \in 1 .. Len(data)
        BY <1>2, <2>2, <3>2, <4>1
      <4>3. SubSeq(got, 1, Len(got)) = SubSeq(data, 1, Len(got))
        <5> DEFINE n     == Len(got)
                   front == SubSeq(data, 1, n)
        <5>1. n \in Nat /\ n <= Len(data) /\ \A k \in 1 .. n : k \in 1 .. Len(data)
          BY <1>2, <4>1, <4>2
        <5>2. \A k \in 1 .. n : data[k] \in Bytes
          BY <3>2, <5>1
        <5>3. /\ front \in Seq(Bytes) /\ Len(front) = n
              /\ \A k \in 1 .. n : front[k] = data[k]
          BY <3>2, <5>1, <5>2, SubSeqProperties
        <5> HIDE DEF front
        <5>4. front = got
          BY <1>2, <4>2, <5>3, SeqEqual
        <5>5. SubSeq(got, 1, n) = got
          BY <1>2, SubSeqFull
        <5> QED BY <5>4, <5>5 DEF front
      <4> QED BY <4>1, <4>3 DEF IsStrictPrefix, IsPrefix
    <3>5. /\ received' = Append(received, got) /\ phase' = "poll"
          /\ Len(received') = r + 1 /\ received'[r + 1] = got
          /\ DOMAIN received' = 1 .. r + 1
          /\ \A i \in 1 .. r : received'[i] = received[i]
      <4>1. received' = Append(received, got) /\ phase' = "poll"
        BY <1>1, <3>1
      <4>2. Append(received, got) \in Seq(Seq(Bytes))
        BY <1>2, AppendProperties
      <4> QED BY <1>2, <4>1, <4>2, AppendProperties
    <3>6. InStep'
      <4>1. \A i \in 1 .. r + 1 :
              \/ received'[i] = Data[built[i]]
              \/ i = r + 1 /\ IsStrictPrefix(received'[i], Data[built[i]])
        BY <3>3, <3>4, <3>5 DEF data
      <4>2. sender' = "ended" /\ built' = built
        BY <1>1, <3>1 DEF AtEnd
      <4>3. r + 1 <= Len(built)
        BY <2>2, <3>3
      <4> QED BY <3>5, <4>1, <4>2, <4>3 DEF InStep
    <3> QED BY <1>1, <3>1, <3>6 DEF GivenUp, AtEnd
  <2> QED BY <2>3, <2>4
<1> QED BY <1>3, <1>4

\* The invariant holds at first.
LEMMA InitInv ==
  ASSUME Init
  PROVE  IInv
<1>1. TypeOK
  BY PduStreamAssumption DEF Init, TypeOK
<1>2. Len(built) = 0 /\ Len(received) = 0 /\ Flow = <<>> /\ Len(Flow) = 0
  BY DEF Init, Flow
<1> PICK end : end = [i \in 0 .. 0 |-> 0]
  OBVIOUS
<1>3. end[0] = 0 /\ end \in [0 .. 0 -> Nat] /\ \A i \in 0 .. 0 : end[i] = 0
  OBVIOUS
<1>4. Layout(end)
  <2>1. \A i, j \in 0 .. 0 : end[i] <= end[j]
    BY <1>3
  <2> QED BY <1>2, <1>3, <2>1 DEF Layout
<1>5. Consumed(end) = 0
  BY <1>2, <1>3 DEF Consumed
<1>6. Carried(end) /\ InPhase(end)
  BY <1>2, <1>3, <1>5 DEF Carried, InPhase, Init
<1>7. ReceivedWhole
  BY <1>2 DEF ReceivedWhole, Init
<1> QED BY <1>1, <1>4, <1>6, <1>7 DEF IInv, InSync

\* Every step keeps the invariant.
LEMMA NextInv ==
  ASSUME IInv, [Next]_vars
  PROVE  IInv'
<1>1. TypeOK'
  BY NextType DEF IInv
<1>2. InSync' \/ GivenUp'
  <2>1. CASE \E pdu \in Pdus : SendPDU(pdu)
    BY <2>1, SendInSync
  <2>2. CASE Copy \/ Reset \/ RecvByte
    BY <2>2, MovesInSync
  <2>3. CASE SenderEnds
    BY <2>3, EndsInSync
  <2>4. CASE PollReturns
    BY <2>4, PollInSync
  <2>5. CASE HeaderEof
    BY <2>5, HeaderEofInSync
  <2>6. CASE HeaderReceived
    BY <2>6, HeaderInSync
  <2>7. CASE PayloadReceived
    BY <2>7, PayloadInSync
  <2>8. CASE UNCHANGED vars
    <3>1. CASE InSync
      <4>1. Flow' = Flow
        BY <2>8 DEF vars, Flow
      <4> QED BY <2>8, <3>1, <4>1, PhaseKept DEF vars, InPhase, Consumed
    <3>2. CASE GivenUp
      BY <2>8, <3>2 DEF vars, GivenUp, InStep
    <3> QED BY <3>1, <3>2 DEF IInv
  <2> QED BY <2>1, <2>2, <2>3, <2>4, <2>5, <2>6, <2>7, <2>8 DEF Next, Receiver
<1> QED BY <1>1, <1>2 DEF IInv

\* Until the receiver has met the end of its sender, the bytes of got, wire and
\* unsent are, each at its place, those of the frames built and not received.
THEOREM Invariance == Spec => []IInv
<1> QED BY InitInv, NextInv, PTL DEF Spec

\* However the network cuts and delays the bytes, and wherever the sender ends
\* (pdu.c:13-58): the receiver never takes a text for a header, it gets the PDUs
\* in order and whole, and only the last one of a sender that has ended is short.
THEOREM ReceiverInStep == Spec => []InStep
<1>1. IInv => InStep
  BY SyncIsInStep DEF IInv, GivenUp
<1> QED BY <1>1, Invariance, PTL

------------------------------------------------------------------------------
(* The queue of whole PDUs. *)

Queue == SubSeq(built, Cardinality(WholeReceived) + 1, Leaving)

Delivered == [i \in WholeReceived |-> Decode(received[i])]

\* The numbers of the PDUs of b that r holds in full.
WholeOf(r, b) == {i \in DOMAIN r : Len(r[i]) = Len(Data[b[i]])}

QueueOf(r, b, last) == SubSeq(b, Cardinality(WholeOf(r, b)) + 1, last)

DeliveredOf(r, b) == [i \in WholeOf(r, b) |-> Decode(r[i])]

\* The variables of the channel, as functions of what they depend on.
LEMMA Shadow ==
  /\ Queue = QueueOf(received, built, Leaving)
  /\ Queue' = QueueOf(received', built', Leaving')
  /\ Delivered = DeliveredOf(received, built)
  /\ Delivered' = DeliveredOf(received', built')
BY DEF Queue, QueueOf, Delivered, DeliveredOf, WholeReceived, WholeOf

\* Of whole PDUs the queue holds those behind them, and what they say is what
\* their sender meant.
LEMMA ShadowOfWhole ==
  ASSUME NEW r \in Seq(Seq(Bytes)), NEW b \in Seq(Pdus), Len(r) <= Len(b),
         \A i \in DOMAIN r : r[i] = Data[b[i]]
  PROVE  /\ \A last : QueueOf(r, b, last) = SubSeq(b, Len(r) + 1, last)
         /\ DeliveredOf(r, b) = [i \in 1 .. Len(r) |-> b[i]]
<1>1. Len(r) \in Nat /\ DOMAIN r = 1 .. Len(r) /\ Len(b) \in Nat
  OBVIOUS
<1>2. WholeOf(r, b) = 1 .. Len(r)
  BY <1>1 DEF WholeOf
<1>3. Cardinality(1 .. Len(r)) = Len(r)
  <2>1. \A n \in Nat : Cardinality(1 .. n) = n
    BY FS_Interval
  <2> QED BY <1>1, <2>1, Zenon
<1>4. \A last : QueueOf(r, b, last) = SubSeq(b, Len(r) + 1, last)
  BY <1>2, <1>3, Zenon DEF QueueOf
<1>5. ASSUME NEW i \in 1 .. Len(r)
      PROVE  Decode(r[i]) = b[i]
  <2>1. b[i] \in Pdus /\ r[i] = Data[b[i]]
    BY <1>1
  <2>2. Data[b[i]] = Encode(b[i]) /\ b[i] \in BuildablePdus
    <3>1. Data[b[i]] = Encode(b[i])
      BY <2>1, Zenon DEF Data
    <3>2. b[i] \in BuildablePdus
      BY <2>1, PduStreamAssumption
    <3> QED BY <3>1, <3>2
  <2>3. Decode(Encode(b[i])) = b[i]
    BY <2>2, PacketsReadBack
  <2> QED BY <2>1, <2>2, <2>3, Zenon
<1>6. DeliveredOf(r, b) = [i \in 1 .. Len(r) |-> b[i]]
  BY <1>2, <1>5, Zenon DEF DeliveredOf
<1> QED BY <1>4, <1>6

------------------------------------------------------------------------------
(* What leaves the sender. *)

\* f[i] is the number of bytes of the first i frames.
Ends(f) ==
  f = [i \in 0 .. Len(built) |->
         IF i = 0 THEN 0 ELSE f[i - 1] + Len(Data[built[i]]) + PDU_HEADER_LEN]

\* The recursive function of the ends of frames exists, and is the sum so far.
LEMMA EndsAt ==
  ASSUME NEW f, Ends(f), NEW i \in 0 .. Len(built)
  PROVE  f[i] = IF i = 0 THEN 0 ELSE f[i - 1] + Len(Data[built[i]]) + PDU_HEADER_LEN
<1>1. ASSUME NEW g,
             f = [j \in 0 .. Len(built) |->
                    IF j = 0 THEN 0 ELSE g[j - 1] + Len(Data[built[j]]) + PDU_HEADER_LEN]
      PROVE  f[i] = IF i = 0 THEN 0 ELSE g[i - 1] + Len(Data[built[i]]) + PDU_HEADER_LEN
  BY <1>1
<1> QED BY <1>1 DEF Ends

\* There is one layout.
LEMMA LayoutIs ==
  ASSUME built \in Seq(Pdus), NEW end, Layout(end)
  PROVE  \A i \in 0 .. Len(built) : FrameEnds[i] = end[i]
<1> DEFINE N == Len(built)
           f == CHOOSE g : Ends(g)
<1>1. /\ N \in Nat /\ end \in [0 .. N -> Nat] /\ end[0] = 0
      /\ \A i \in 1 .. N : end[i] = end[i - 1] + Len(Data[built[i]]) + 2
  BY DEF Layout
<1>2. Ends(end)
  <2> DEFINE r(i) == IF i = 0 THEN 0 ELSE end[i - 1] + Len(Data[built[i]]) + PDU_HEADER_LEN
  <2>1. \A i \in 0 .. N : end[i] = r(i)
    <3>1. ASSUME NEW i \in 0 .. N PROVE end[i] = r(i)
      <4>1. i # 0 => i \in 1 .. N
        BY <1>1
      <4> QED BY <1>1, <4>1 DEF PDU_HEADER_LEN
    <3> QED BY <3>1
  <2>2. end = [i \in 0 .. N |-> end[i]]
    BY <1>1
  <2> HIDE DEF r
  <2>3. [i \in 0 .. N |-> end[i]] = [i \in 0 .. N |-> r(i)]
    BY <2>1, Zenon
  <2>4. end = [i \in 0 .. N |-> r(i)]
    BY <2>2, <2>3
  <2> QED BY <2>4, Zenon DEF Ends, r, N
<1>3. Ends(f)
  BY <1>2
<1>4. FrameEnds = f
  BY Zenon DEF FrameEnds, Ends
<1> HIDE DEF f, N
<1> DEFINE S == {i \in Nat : i <= N => f[i] = end[i]}
<1>5. 0 \in S
  <2>1. 0 \in 0 .. N
    BY <1>1
  <2> QED BY <1>1, <1>3, <2>1, EndsAt DEF N
<1>6. ASSUME NEW i \in S
      PROVE  i + 1 \in S
  <2>1. SUFFICES ASSUME i + 1 <= N
                 PROVE  f[i + 1] = end[i + 1]
    OBVIOUS
  <2>2. i + 1 \in 0 .. N /\ i + 1 # 0 /\ i + 1 - 1 = i /\ i + 1 \in 1 .. N /\ f[i] = end[i]
    BY <1>1, <2>1
  <2>3. f[i + 1] = f[i + 1 - 1] + Len(Data[built[i + 1]]) + PDU_HEADER_LEN
    BY <1>3, <2>2, EndsAt DEF N
  <2>4. end[i + 1] = end[i + 1 - 1] + Len(Data[built[i + 1]]) + 2
    BY <1>1, <2>2
  <2> QED BY <2>2, <2>3, <2>4 DEF PDU_HEADER_LEN
<1> HIDE DEF S
<1>7. S = Nat
  <2>1. S \in SUBSET Nat
    BY DEF S
  <2> QED BY <1>5, <1>6, <2>1, CountingUp
<1> QED BY <1>1, <1>4, <1>7 DEF S, N

\* The last frame that leaves whole, if the last bytes do not.
LastWhole(bytes) == Max({n \in 0 .. Len(built) : BytesBehind(n) >= bytes})

\* The last frame that has left whole when so many bytes have not.
LEMMA LastWholeIs ==
  ASSUME built \in Seq(Pdus), NEW end, Layout(end), NEW bytes \in Nat,
         bytes <= end[Len(built)]
  PROVE  /\ LastWhole(bytes) \in 0 .. Len(built)
         /\ end[LastWhole(bytes)] + bytes <= end[Len(built)]
         /\ \A n \in 0 .. Len(built) :
              end[n] + bytes <= end[Len(built)] => n <= LastWhole(bytes)
<1> DEFINE N == Len(built)
           S == {n \in 0 .. N : BytesBehind(n) >= bytes}
           T == {n \in 0 .. N : end[n] + bytes <= end[N]}
<1>1. N \in Nat /\ end \in [0 .. N -> Nat] /\ end[0] = 0
  BY DEF Layout
<1>2. \A n \in 0 .. N : BytesBehind(n) = end[N] - end[n]
  <2>1. \A i \in 0 .. N : FrameEnds[i] = end[i]
    BY LayoutIs
  <2>2. N \in 0 .. N
    BY <1>1
  <2> QED BY <2>1, <2>2 DEF BytesBehind
<1>3. LastWhole(bytes) = Max(S)
  BY Zenon DEF LastWhole
<1> HIDE DEF N, S
<1>4. S = T
  <2>1. ASSUME NEW n \in 0 .. N
        PROVE  BytesBehind(n) >= bytes <=> end[n] + bytes <= end[N]
    <3>1. end[n] \in Nat /\ end[N] \in Nat
      BY <1>1
    <3> QED BY <1>2, <3>1
  <2> QED BY <2>1 DEF S
<1> HIDE DEF T
<1>5. T # {} /\ T \in SUBSET (0 .. N)
  <2>1. 0 \in 0 .. N /\ end[0] + bytes <= end[N]
    BY <1>1 DEF N
  <2>2. 0 \in T
    BY <2>1 DEF T
  <2> QED BY <2>2 DEF T
<1>6. Max(T) \in T /\ \A x \in T : x <= Max(T)
  BY <1>1, <1>5, MaxInSet
<1> DEFINE last == Max(T)
<1> HIDE DEF last
<1>7. last \in T /\ \A x \in T : x <= last
  BY <1>6 DEF last
<1>8. /\ last \in 0 .. N /\ end[last] + bytes <= end[N]
      /\ \A n \in 0 .. N : end[n] + bytes <= end[N] => n <= last
  BY <1>7 DEF T
<1>9. LastWhole(bytes) = last
  BY <1>3, <1>4 DEF last
<1> QED BY <1>8, <1>9 DEF N

\* How many leave depends on what was built and what does not.
LEMMA LeavingWas ==
  Leaving = IF sender = "runs" THEN Len(built) ELSE LastWhole(Len(unsent))
BY Zenon DEF Leaving, LastWhole

\* How many frames leave whole, after a step that builds none.
LEMMA LeavingNext ==
  ASSUME built' = built
  PROVE  Leaving' = IF sender' = "runs" THEN Len(built) ELSE LastWhole(Len(unsent'))
<1>1. FrameEnds' = FrameEnds
  BY Zenon DEF FrameEnds
<1>2. \A n : BytesBehind(n)' = BytesBehind(n)
  BY <1>1, Zenon DEF BytesBehind
<1>3. {n \in 0 .. Len(built') : BytesBehind(n)' >= Len(unsent')}
        = {n \in 0 .. Len(built) : BytesBehind(n) >= Len(unsent')}
  BY <1>2, Zenon
<1> QED BY <1>3, Zenon DEF Leaving, LastWhole

\* Everything received has left, and what is lost never returns.
LEMMA Loss ==
  ASSUME IInv, InSync, NEW u \in Nat, u <= Len(wire) + Len(unsent)
  PROVE  /\ LastWhole(u) \in Nat
         /\ Len(received) <= LastWhole(u) /\ LastWhole(u) <= Len(built)
         /\ \A v \in Nat : v <= u => LastWhole(u) <= LastWhole(v)
<1> PICK end : Layout(end) /\ Carried(end) /\ InPhase(end)
  BY DEF InSync
<1> DEFINE N == Len(built)
           r == Len(received)
           C == Consumed(end)
<1>1. /\ end \in [0 .. N -> Nat] /\ r \in 0 .. N /\ N \in Nat
      /\ C + Len(Flow) = end[N] /\ built \in Seq(Pdus)
  <2>1. ReceivedWhole /\ built \in Seq(Pdus)
    BY DEF InSync, IInv, TypeOK
  <2> QED BY <2>1, SyncFacts
<1>2. /\ Len(Flow) = Len(got) + Len(wire) + Len(unsent) /\ Len(got) \in Nat
      /\ Len(wire) \in Nat /\ Len(unsent) \in Nat
  BY FlowIs DEF IInv
<1>3. C >= end[r] /\ end[r] \in Nat
  <2>1. end[r] \in Nat
    BY <1>1
  <2> QED BY <2>1 DEF InPhase
<1>4. end[N] \in Nat /\ C \in Int
  <2>1. end[N] \in Nat
    <3>1. N \in 0 .. N
      BY <1>1
    <3> QED BY <1>1, <3>1
  <2>2. Len(Flow) \in Nat
    BY <1>2
  <2> QED BY <2>1, <2>2 DEF Consumed
<1> HIDE DEF N, r, C
<1>5. end[r] + u <= end[N]
  BY <1>1, <1>2, <1>3, <1>4
<1>6. u <= end[N]
  BY <1>3, <1>4, <1>5
<1>7. /\ LastWhole(u) \in 0 .. N
      /\ end[LastWhole(u)] + u <= end[N]
      /\ \A n \in 0 .. N : end[n] + u <= end[N] => n <= LastWhole(u)
  BY <1>1, <1>6, LastWholeIs DEF N
<1>8. r <= LastWhole(u)
  BY <1>1, <1>5, <1>7
<1>9. ASSUME NEW v \in Nat, v <= u
      PROVE  LastWhole(u) <= LastWhole(v)
  <2>1. v <= end[N]
    BY <1>4, <1>6, <1>9
  <2>2. \A n \in 0 .. N : end[n] + v <= end[N] => n <= LastWhole(v)
    BY <1>1, <2>1, LastWholeIs DEF N
  <2> DEFINE n == LastWhole(u)
  <2>3. n \in 0 .. N /\ end[n] \in Nat /\ end[n] + u <= end[N]
    BY <1>1, <1>7
  <2> HIDE DEF n
  <2>4. end[n] + v <= end[N]
    BY <1>4, <1>9, <2>3
  <2>5. n <= LastWhole(v)
    BY <2>2, <2>3, <2>4
  <2> QED BY <2>5 DEF n
<1>10. LastWhole(u) \in Nat /\ LastWhole(u) <= N
  BY <1>1, <1>7
<1> QED BY <1>8, <1>9, <1>10 DEF N, r

\* Where the receiver is, and what leaves the sender.
LEMMA LeavingInSync ==
  ASSUME IInv, InSync
  PROVE  /\ Leaving \in Nat /\ Len(received) <= Leaving /\ Leaving <= Len(built)
         /\ phase = "payload" /\ Len(got) = data_len => Len(received) < Leaving
         /\ AtEnd /\ phase \in {"header", "payload"} /\ Len(got) < Wanted =>
              Leaving = Len(received)
<1> PICK end : Layout(end) /\ Carried(end) /\ InPhase(end)
  BY DEF InSync
<1> DEFINE N == Len(built)
           r == Len(received)
           C == Consumed(end)
           u == Len(unsent)
           w == Len(wire)
           g == Len(got)
           last == LastWhole(Len(unsent))
<1>1. /\ end \in [0 .. N -> Nat] /\ r \in 0 .. N /\ N \in Nat
      /\ C + Len(Flow) = end[N] /\ built \in Seq(Pdus)
      /\ \A i \in 1 .. N : /\ Len(Data[built[i]]) \in Nat
                           /\ end[i] = end[i - 1] + Len(Data[built[i]]) + 2
  <2>1. ReceivedWhole /\ built \in Seq(Pdus)
    BY DEF InSync, IInv, TypeOK
  <2> QED BY <2>1, SyncFacts
<1>2. Len(Flow) = g + w + u /\ g \in Nat /\ w \in Nat /\ u \in Nat
  BY FlowIs DEF IInv
<1>3. \A i, j \in 0 .. N : i <= j => end[i] <= end[j]
  BY DEF Layout
<1>4. end[r] \in Nat /\ end[N] \in Nat /\ C >= 0
  <2>1. N \in 0 .. N
    BY <1>1
  <2> QED BY <1>1, <2>1 DEF Carried
<1>5. C \in Nat /\ C + (g + w + u) = end[N]
  <2>1. Len(Flow) \in Nat
    BY <1>2
  <2>2. C \in Int
    BY <1>4, <2>1 DEF Consumed
  <2> HIDE DEF C
  <2> QED BY <1>1, <1>2, <1>4, <2>2
<1>6. /\ phase = "header" => g <= 2 /\ C = end[r]
      /\ phase = "payload" => /\ r < N /\ C = end[r] + 2 /\ g <= data_len
                              /\ data_len = Len(Data[built[r + 1]])
  BY DEF InPhase
<1>7. Leaving = IF sender = "runs" THEN N ELSE last
  BY LeavingWas
<1>8. last \in Nat /\ r <= last /\ last <= N
  BY <1>2, Loss
<1> HIDE DEF C, u, w, g, last, N, r
<1>9. /\ end[last] + u <= end[N]
      /\ \A n \in 0 .. N : end[n] + u <= end[N] => n <= last
  <2>1. u <= end[N]
    BY <1>2, <1>4, <1>5
  <2>2. LastWhole(u) = last
    BY DEF last, u
  <2> QED BY <1>1, <1>2, <2>1, <2>2, LastWholeIs DEF N
<1>10. ASSUME phase = "payload", g = data_len
       PROVE  r < Leaving
  <2>1. r + 1 \in 1 .. N /\ r + 1 \in 0 .. N /\ r + 1 - 1 = r
    BY <1>1, <1>6, <1>10
  <2>2. end[r + 1] = C + g /\ end[r + 1] \in Nat
    <3> DEFINE len == Len(Data[built[r + 1]])
    <3>1. end[r + 1] = end[r] + len + 2 /\ end[r + 1] \in Nat /\ len \in Nat
      BY <1>1, <2>1
    <3>2. C = end[r] + 2 /\ g = len
      BY <1>6, <1>10
    <3> HIDE DEF len
    <3> QED BY <1>4, <3>1, <3>2
  <2>3. end[r + 1] + u <= end[N]
    BY <1>2, <1>5, <2>2
  <2>4. r + 1 <= last
    BY <1>9, <2>1, <2>3
  <2> QED BY <1>1, <1>6, <1>7, <1>8, <1>10, <2>4
<1>11. ASSUME AtEnd, phase \in {"header", "payload"}, g < Wanted
       PROVE  Leaving = r
  <2>1. sender = "ended" /\ w = 0
    BY <1>11 DEF AtEnd, w
  <2>2. Leaving = last
    BY <1>7, <2>1
  <2>3. ASSUME last > r
        PROVE  FALSE
    <3>1. r + 1 \in 1 .. N /\ r + 1 \in 0 .. N /\ r + 1 - 1 = r /\ last \in 0 .. N
          /\ r + 1 <= last
      BY <1>1, <1>8, <2>3
    <3>2. end[r + 1] <= end[last] /\ end[last] \in Nat /\ end[r + 1] \in Nat
      BY <1>1, <1>3, <3>1
    <3>3. end[r + 1] <= C + g
      BY <1>2, <1>4, <1>5, <1>9, <2>1, <3>2
    <3>4. Len(Data[built[r + 1]]) \in Nat /\ end[r + 1] = end[r] + Len(Data[built[r + 1]]) + 2
      BY <1>1, <3>1
    <3>5. CASE phase = "header"
      BY <1>2, <1>4, <1>6, <1>11, <3>3, <3>4, <3>5 DEF Wanted, PDU_HEADER_LEN
    <3>6. CASE phase = "payload"
      BY <1>2, <1>4, <1>6, <1>11, <3>3, <3>4, <3>6 DEF Wanted
    <3> QED BY <1>11, <3>5, <3>6
  <2> QED BY <1>1, <1>8, <2>2, <2>3
<1>12. Leaving \in Nat /\ r <= Leaving /\ Leaving <= N
  BY <1>1, <1>7, <1>8
<1> QED BY <1>10, <1>11, <1>12 DEF N, r, g

------------------------------------------------------------------------------
(* Every step of the bytes is one of the queue, or none. *)

\* Until the receiver has met the end of its sender it is in step; then nothing
\* is queued.
Emptied == InSync \/ Queue = <<>>

Ended == sender = "ended"

Closed == phase \in {"closed", "exited"}

\* What the queue is made of.
LEMMA SameQueue ==
  ASSUME built' = built, received' = received, Leaving' = Leaving
  PROVE  Queue' = Queue /\ Delivered' = Delivered
BY Shadow, Zenon

\* It is the same frames while the sender does not end.
LEMMA SameLeaving ==
  ASSUME built' = built, sender' = sender, sender = "ended" => unsent' = unsent,
         sender \in {"runs", "ended"}
  PROVE  Leaving' = Leaving
<1>1. /\ Leaving = IF sender = "runs" THEN Len(built) ELSE LastWhole(Len(unsent))
      /\ Leaving' = IF sender' = "runs" THEN Len(built) ELSE LastWhole(Len(unsent'))
  BY LeavingWas, LeavingNext
<1> QED BY <1>1

\* The queue, while the receiver is in step.
LEMMA QueueInSync ==
  ASSUME TypeOK, ReceivedWhole
  PROVE  /\ Queue = SubSeq(built, Len(received) + 1, Leaving)
         /\ Delivered = [i \in 1 .. Len(received) |-> built[i]]
<1>1. /\ received \in Seq(Seq(Bytes)) /\ built \in Seq(Pdus) /\ Len(received) <= Len(built)
      /\ \A i \in DOMAIN received : received[i] = Data[built[i]]
  BY DEF TypeOK, ReceivedWhole
<1>2. /\ \A last : QueueOf(received, built, last) = SubSeq(built, Len(received) + 1, last)
      /\ DeliveredOf(received, built) = [i \in 1 .. Len(received) |-> built[i]]
  BY <1>1, ShadowOfWhole
<1> QED BY <1>2, Shadow, Zenon

\* In step, the queue is what was built and is not received yet.
LEMMA QueueInSyncNext ==
  ASSUME TypeOK', ReceivedWhole'
  PROVE  /\ Queue' = SubSeq(built', Len(received') + 1, Leaving')
         /\ Delivered' = [i \in 1 .. Len(received') |-> built'[i]]
<1>1. /\ received' \in Seq(Seq(Bytes)) /\ built' \in Seq(Pdus)
      /\ Len(received') <= Len(built')
      /\ \A i \in DOMAIN received' : received'[i] = Data[built'[i]]
  BY DEF TypeOK, ReceivedWhole
<1> DEFINE r == received'
           b == built'
<1> HIDE DEF r, b
<1>2. /\ r \in Seq(Seq(Bytes)) /\ b \in Seq(Pdus) /\ Len(r) <= Len(b)
      /\ \A i \in DOMAIN r : r[i] = Data[b[i]]
  BY <1>1 DEF r, b
<1>3. /\ \A last : QueueOf(r, b, last) = SubSeq(b, Len(r) + 1, last)
      /\ DeliveredOf(r, b) = [i \in 1 .. Len(r) |-> b[i]]
  BY <1>2, ShadowOfWhole
<1> QED BY <1>3, Shadow, Zenon DEF r, b

\* A PDU given to a sender that runs.
LEMMA SendMaps ==
  ASSUME IInv, TypeOK', NEW pdu \in Pdus, SendPDU(pdu)
  PROVE  PC!Send(pdu) /\ Emptied'
<1>1. InSync /\ InSync' /\ TypeOK
  BY StillInSync, SendInSync DEF SendPDU, IInv
<1>2. ReceivedWhole /\ ReceivedWhole'
  BY <1>1 DEF InSync
<1>3. /\ sender = "runs" /\ sender' = sender /\ phase' = phase /\ received' = received
      /\ built' = Append(built, pdu)
  BY DEF SendPDU
<1>4. /\ Queue = SubSeq(built, Len(received) + 1, Leaving)
      /\ Queue' = SubSeq(built', Len(received') + 1, Leaving')
      /\ Delivered = [i \in 1 .. Len(received) |-> built[i]]
      /\ Delivered' = [i \in 1 .. Len(received') |-> built'[i]]
  BY <1>1, <1>2, QueueInSync, QueueInSyncNext
<1>5. /\ built \in Seq(Pdus) /\ Len(received) \in 0 .. Len(built) /\ Len(built') = Len(built) + 1
      /\ \A i \in 1 .. Len(received) : built'[i] = built[i]
  <2>1. built \in Seq(Pdus) /\ Len(received) \in 0 .. Len(built)
    BY <1>1, <1>2 DEF TypeOK, ReceivedWhole
  <2> QED BY <1>3, <2>1, AppendProperties
<1>6. Leaving = Len(built) /\ Leaving' = Len(built) + 1
  BY <1>3, <1>5 DEF Leaving
<1>7. Queue' = Append(Queue, pdu)
  <2>1. SubSeq(Append(built, pdu), Len(received) + 1, Len(built) + 1)
          = Append(SubSeq(built, Len(received) + 1, Len(built)), pdu)
    BY <1>5, SliceSent
  <2> QED BY <1>3, <1>4, <1>6, <2>1, Zenon
<1>8. Delivered' = Delivered
  BY <1>3, <1>4, <1>5, Zenon
<1>9. PC!Send(pdu)
  <2>1. ~Ended /\ Ended' = Ended /\ Closed' = Closed
    BY <1>3 DEF Ended, Closed
  <2> QED BY <1>7, <1>8, <2>1, Zenon DEF PC!Send, Queue, Delivered, Ended, Closed
<1> QED BY <1>1, <1>9 DEF Emptied

\* A sender that ends leaves the last PDU cut short; a reset takes more.
LEMMA LossMaps ==
  ASSUME IInv, TypeOK', SenderEnds \/ Reset
  PROVE  PC!EndOrLose /\ Emptied'
<1>1. TypeOK /\ wire \in Seq(Bytes) /\ unsent \in Seq(Bytes) /\ built \in Seq(Pdus)
      /\ Len(wire) \in Nat /\ Len(unsent) \in Nat /\ Len(received) \in Nat
  BY DEF IInv, TypeOK
<1>2. InSync /\ InSync'
  <2>1. CASE SenderEnds
    BY <2>1, StillInSync, EndsInSync DEF SenderEnds
  <2>2. CASE Reset
    <3>1. wire # <<>>
      BY <1>1, <2>2 DEF Reset
    <3> QED BY <2>2, <3>1, StillInSync, MovesInSync
  <2> QED BY <2>1, <2>2
<1>3. ReceivedWhole /\ ReceivedWhole'
  BY <1>2 DEF InSync
<1>4. /\ sender' = "ended" /\ built' = built /\ phase' = phase /\ received' = received
  BY DEF SenderEnds, Reset
<1>5. /\ Queue = SubSeq(built, Len(received) + 1, Leaving)
      /\ Queue' = SubSeq(built, Len(received) + 1, Leaving')
      /\ Delivered' = Delivered
  <2>1. /\ Queue' = SubSeq(built', Len(received') + 1, Leaving')
        /\ Delivered' = [i \in 1 .. Len(received') |-> built'[i]]
    BY <1>3, QueueInSyncNext
  <2>2. /\ Queue = SubSeq(built, Len(received) + 1, Leaving)
        /\ Delivered = [i \in 1 .. Len(received) |-> built[i]]
    BY <1>1, <1>3, QueueInSync
  <2> QED BY <1>4, <2>1, <2>2, Zenon
<1>6. Leaving' = LastWhole(Len(unsent'))
  BY <1>4, LeavingNext
<1>7. /\ Len(unsent') \in Nat /\ Len(unsent') <= Len(wire) + Len(unsent)
      /\ Len(unsent) <= Len(unsent')
  <2>1. CASE SenderEnds
    BY <1>1, <2>1 DEF SenderEnds
  <2>2. CASE Reset
    <3> PICK n \in 0 .. Len(wire) - 1 : unsent' = SubSeq(wire, n + 1, Len(wire)) \o unsent
      BY <2>2 DEF Reset
    <3> DEFINE lost == SubSeq(wire, n + 1, Len(wire))
    <3>1. lost \in Seq(Bytes) /\ Len(lost) = Len(wire) - n
      <4>1. /\ n + 1 \in Nat \ {0} /\ n + 1 <= Len(wire) + 1 /\ Len(wire) <= Len(wire)
            /\ Len(wire) + 1 - (n + 1) = Len(wire) - n
        BY <1>1
      <4> QED BY <1>1, <4>1, SliceIs
    <3> HIDE DEF lost
    <3>2. unsent' = Concat(lost, unsent)
      BY DEF Concat, lost
    <3>3. Len(unsent') = Len(wire) - n + Len(unsent)
      BY <1>1, <3>1, <3>2, ConcatLength
    <3> QED BY <1>1, <3>3
  <2> QED BY <2>1, <2>2
<1>8. /\ Leaving' \in Nat /\ Len(received) <= Leaving'
      /\ Leaving \in Nat /\ Leaving' <= Leaving /\ Leaving <= Len(built)
  <2>1. /\ LastWhole(Len(unsent')) \in Nat
        /\ Len(received) <= LastWhole(Len(unsent')) /\ LastWhole(Len(unsent')) <= Len(built)
        /\ LastWhole(Len(unsent')) <= LastWhole(Len(unsent))
    BY <1>1, <1>2, <1>7, Loss
  <2>2. Leaving = IF sender = "runs" THEN Len(built) ELSE LastWhole(Len(unsent))
    BY LeavingWas
  <2>3. Leaving \in Nat /\ Leaving <= Len(built)
    BY <1>2, LeavingInSync
  <2> QED BY <1>6, <2>1, <2>2, <2>3
<1>9. \E n \in 0 .. Len(Queue) : Queue' = SubSeq(Queue, 1, n)
  <2>1. /\ Leaving' - Len(received) \in 0 .. Len(SubSeq(built, Len(received) + 1, Leaving))
        /\ SubSeq(built, Len(received) + 1, Leaving')
             = SubSeq(SubSeq(built, Len(received) + 1, Leaving), 1, Leaving' - Len(received))
    BY <1>1, <1>8, SliceCut
  <2> QED BY <1>5, <2>1, Zenon
<1>10. PC!EndOrLose
  <2>1. Ended' = TRUE /\ Closed' = Closed
    BY <1>4 DEF Ended, Closed
  <2> QED BY <1>5, <1>9, <2>1, Zenon DEF PC!EndOrLose, Queue, Delivered, Ended, Closed
<1> QED BY <1>2, <1>10 DEF Emptied

\* A byte that moves changes nothing the queue is made of.
LEMMA MoveMaps ==
  ASSUME IInv, Emptied, Copy \/ PollReturns \/ RecvByte
  PROVE  Queue' = Queue /\ Delivered' = Delivered /\ Ended' = Ended /\ Closed' = Closed
         /\ Emptied'
<1>1. sender \in {"runs", "ended"} /\ phase \in {"poll", "header", "payload", "closed", "exited"}
  BY DEF IInv, TypeOK
<1>2. /\ built' = built /\ received' = received /\ sender' = sender
      /\ sender = "ended" => unsent' = unsent
      /\ Closed' = Closed
  BY DEF Copy, PollReturns, RecvByte, Closed
<1>3. Queue' = Queue /\ Delivered' = Delivered
  BY <1>1, <1>2, SameLeaving, SameQueue
<1>4. Emptied'
  <2>1. CASE Copy \/ RecvByte
    BY <2>1, MovesInSync DEF Emptied
  <2>2. CASE PollReturns
    <3>1. CASE InSync
      BY <2>2, <3>1, PollKeepsSync DEF Emptied
    <3>2. CASE Queue = <<>>
      BY <1>3, <3>2 DEF Emptied
    <3> QED BY <3>1, <3>2 DEF Emptied
  <2> QED BY <2>1, <2>2
<1>5. Ended' = Ended
  BY <1>2 DEF Ended
<1> QED BY <1>2, <1>3, <1>4, <1>5

\* Behind everything that left whole, nothing is queued.
LEMMA NothingQueued ==
  ASSUME IInv, Emptied, AtEnd, phase \in {"header", "payload"},
         InSync => Len(got) < Wanted
  PROVE  Queue = <<>>
<1>1. CASE InSync
  <2>1. TypeOK /\ ReceivedWhole
    BY <1>1 DEF IInv, InSync
  <2>2. Leaving = Len(received)
    BY <1>1, LeavingInSync
  <2>3. Queue = SubSeq(built, Len(received) + 1, Len(received))
    <3>1. Queue = SubSeq(built, Len(received) + 1, Leaving)
      BY <2>1, QueueInSync
    <3> QED BY <2>2, <3>1, Zenon
  <2>4. Len(received) \in Nat /\ built \in Seq(Pdus) /\ Len(received) <= Len(built)
    BY <2>1 DEF TypeOK, ReceivedWhole
  <2> DEFINE n == Len(received)
             q == SubSeq(built, n + 1, n)
  <2>5. q \in Seq(Pdus) /\ Len(q) = n + 1 - (n + 1)
    <3>1. n + 1 \in Nat \ {0} /\ n + 1 <= n + 1
      BY <2>4
    <3> HIDE DEF n
    <3> QED BY <2>4, <3>1, SliceIs DEF n
  <2> HIDE DEF q
  <2>6. q = <<>>
    BY <2>4, <2>5
  <2> QED BY <2>3, <2>6 DEF q
<1>2. CASE Queue = <<>>
  BY <1>2
<1> QED BY <1>1, <1>2 DEF Emptied

\* The connection is closed, or the receiver ends, at the end of the queue.
LEMMA CloseMaps ==
  ASSUME sender = "ended", Queue = <<>>, UNCHANGED <<built, unsent, sender, received>>
  PROVE  /\ Emptied'
         /\ phase' \in {"closed", "exited"} => PC!Close
         /\ Queue' = Queue /\ Delivered' = Delivered /\ Ended' = Ended
<1>1. Leaving' = Leaving
  BY SameLeaving
<1>2. Queue' = Queue /\ Delivered' = Delivered /\ Ended' = Ended
  BY <1>1, SameQueue DEF Ended
<1>3. ASSUME phase' \in {"closed", "exited"}
      PROVE  PC!Close
  <2>1. Ended /\ Closed' = TRUE
    BY <1>3 DEF Ended, Closed
  <2> QED BY <1>2, <2>1, Zenon DEF PC!Close, Queue, Delivered, Ended, Closed
<1> QED BY <1>2, <1>3 DEF Emptied

\* A header that came whole changes nothing; another one is the end.
LEMMA HeaderMaps ==
  ASSUME IInv, Emptied, HeaderEof \/ HeaderReceived
  PROVE  /\ Emptied'
         /\ \/ PC!Close
            \/ Queue' = Queue /\ Delivered' = Delivered /\ Ended' = Ended /\ Closed' = Closed
<1>1. /\ phase = "header" /\ RecvReturns
      /\ UNCHANGED <<built, unsent, sender, received>>
      /\ phase' \in {"closed", "exited", "payload"}
  BY DEF HeaderEof, HeaderReceived
<1>2. Wanted = 2 /\ sender \in {"runs", "ended"}
  BY <1>1 DEF Wanted, PDU_HEADER_LEN, IInv, TypeOK
<1>3. CASE Len(got) = 2 /\ InSync
  <2>1. got # <<>>
    BY <1>3
  <2>2. HeaderReceived
    BY <2>1 DEF HeaderEof
  <2>3. InSync' /\ phase' = "payload"
    BY <1>3, <2>2, HeaderWhole
  <2>4. Queue' = Queue /\ Delivered' = Delivered
    BY <1>1, <1>2, SameLeaving, SameQueue
  <2>5. Ended' = Ended /\ Closed' = Closed
    BY <1>1, <2>3 DEF Ended, Closed
  <2> QED BY <2>3, <2>4, <2>5 DEF Emptied
<1>4. CASE ~(Len(got) = 2 /\ InSync)
  <2>1. AtEnd
    <3>1. CASE InSync
      BY <1>1, <1>2, <1>4, <3>1 DEF RecvReturns
    <3>2. CASE ~InSync
      BY <3>2 DEF IInv, GivenUp, AtEnd
    <3> QED BY <3>1, <3>2
  <2>2. InSync => Len(got) < Wanted
    <3>1. ASSUME InSync
          PROVE  Len(got) < 2
      <4>1. Len(got) <= 2
        BY <1>1, <3>1 DEF InSync, InPhase
      <4>2. Len(got) \in Nat
        BY DEF IInv, TypeOK
      <4>3. Len(got) # 2
        BY <1>4, <3>1
      <4>4. \A n \in Nat : n <= 2 /\ n # 2 => n < 2
        OBVIOUS
      <4> QED BY <4>1, <4>2, <4>3, <4>4, Zenon
    <3> QED BY <1>2, <3>1
  <2>3. Queue = <<>>
    BY <1>1, <2>1, <2>2, NothingQueued
  <2>4. /\ Emptied'
        /\ phase' \in {"closed", "exited"} => PC!Close
        /\ Queue' = Queue /\ Delivered' = Delivered /\ Ended' = Ended
    BY <1>1, <2>1, <2>3, CloseMaps DEF AtEnd
  <2>5. phase' = "payload" => Closed' = Closed
    BY <1>1 DEF Closed
  <2> QED BY <1>1, <2>4, <2>5
<1> QED BY <1>3, <1>4

\* A payload cut short is none of those that are received whole.
LEMMA ShortIsNone ==
  ASSUME NEW r \in Seq(Seq(Bytes)), NEW g \in Seq(Bytes), NEW b,
         Len(g) # Len(Data[b[Len(r) + 1]])
  PROVE  WholeOf(Append(r, g), b) = WholeOf(r, b)
         /\ \A last : QueueOf(Append(r, g), b, last) = QueueOf(r, b, last)
         /\ DeliveredOf(Append(r, g), b) = DeliveredOf(r, b)
<1> DEFINE s == Append(r, g)
           n == Len(r)
           W == WholeOf(r, b)
<1>1. /\ n \in Nat /\ DOMAIN r = 1 .. n /\ DOMAIN s = 1 .. n + 1 /\ s[n + 1] = g
      /\ \A i \in 1 .. n : s[i] = r[i]
  OBVIOUS
<1> HIDE DEF s
<1>2. WholeOf(s, b) = W
  <2>1. ASSUME NEW i
        PROVE  i \in WholeOf(s, b) <=> i \in W
    <3>1. CASE i \in 1 .. n
      <4>1. i \in DOMAIN r /\ i \in DOMAIN s /\ s[i] = r[i]
        BY <1>1, <3>1
      <4> QED BY <4>1, Zenon DEF WholeOf
    <3>2. CASE i \notin 1 .. n
      <4>1. i \notin W
        BY <1>1, <3>2 DEF WholeOf
      <4>2. i \in WholeOf(s, b) => i = n + 1
        BY <1>1, <3>2 DEF WholeOf
      <4>3. n + 1 \notin WholeOf(s, b)
        BY <1>1 DEF WholeOf
      <4> QED BY <4>1, <4>2, <4>3
    <3> QED BY <3>1, <3>2
  <2> HIDE DEF W
  <2> QED BY <2>1
<1>3. \A i \in W : s[i] = r[i]
  BY <1>1 DEF WholeOf
<1>4. \A last : QueueOf(s, b, last) = QueueOf(r, b, last)
  BY <1>2, Zenon DEF QueueOf
<1>5. [i \in W |-> Decode(s[i])] = [i \in W |-> Decode(r[i])]
  BY <1>3, Zenon
<1>6. DeliveredOf(s, b) = DeliveredOf(r, b)
  BY <1>2, <1>5, Zenon DEF DeliveredOf
<1> QED BY <1>2, <1>4, <1>6 DEF s

\* A payload that came whole is the PDU at the front of the queue.
LEMMA WholeMaps ==
  ASSUME IInv, TypeOK', InSync, PayloadReceived, Len(got) = data_len
  PROVE  PC!Receive /\ Emptied'
<1> DEFINE r == Len(received)
<1>1. /\ r < Len(built) /\ built[r + 1] \in Pdus /\ data_len \in Nat \ {0}
      /\ got = Data[built[r + 1]] /\ InSync'
  BY PayloadNext
<1>2. /\ TypeOK /\ ReceivedWhole /\ ReceivedWhole' /\ r \in Nat
      /\ built \in Seq(Pdus) /\ received \in Seq(Seq(Bytes)) /\ got \in Seq(Bytes)
  BY <1>1 DEF InSync, IInv, TypeOK
<1>3. /\ phase = "payload" /\ phase' = "poll" /\ received' = Append(received, got)
      /\ UNCHANGED <<built, unsent, sender>>
  <2>1. got # <<>>
    BY <1>1
  <2> QED BY <2>1 DEF PayloadReceived
<1>4. Len(received') = r + 1
  BY <1>2, <1>3, AppendProperties
<1>5. /\ Queue = SubSeq(built, r + 1, Leaving)
      /\ Delivered = [i \in 1 .. r |-> built[i]]
  BY <1>2, QueueInSync
<1>6. /\ Queue' = SubSeq(built, r + 1 + 1, Leaving)
      /\ Delivered' = [i \in 1 .. r + 1 |-> built[i]]
  <2>1. /\ Queue' = SubSeq(built', Len(received') + 1, Leaving')
        /\ Delivered' = [i \in 1 .. Len(received') |-> built'[i]]
    BY <1>2, QueueInSyncNext
  <2>2. Leaving' = Leaving
    BY <1>2, <1>3, SameLeaving DEF TypeOK
  <2> HIDE DEF r
  <2> QED BY <1>3, <1>4, <2>1, <2>2, Zenon
<1>7. Leaving \in Nat /\ r < Leaving /\ Leaving <= Len(built)
  BY <1>3, LeavingInSync
<1>8. Queue # <<>> /\ Head(Queue) = built[r + 1] /\ Queue' = Tail(Queue)
  <2>1. /\ SubSeq(built, r + 1, Leaving) # <<>>
        /\ Head(SubSeq(built, r + 1, Leaving)) = built[r + 1]
        /\ SubSeq(built, r + 1 + 1, Leaving) = Tail(SubSeq(built, r + 1, Leaving))
    <3> HIDE DEF r
    <3> QED BY <1>2, <1>7, SliceTaken
  <2> QED BY <1>5, <1>6, <2>1, Zenon
<1>9. Delivered' = Append(Delivered, Head(Queue))
  <2> DEFINE d == [i \in 1 .. r |-> built[i]]
             e == [i \in 1 .. r + 1 |-> built[i]]
  <2>1. \A i \in 1 .. r + 1 : built[i] \in Pdus
    BY <1>1, <1>2
  <2> HIDE DEF r
  <2>2. d \in Seq(Pdus) /\ Len(d) = r /\ \A i \in 1 .. r : d[i] = built[i]
    BY <1>2, <2>1
  <2>3. e \in Seq(Pdus) /\ Len(e) = r + 1 /\ \A i \in 1 .. r + 1 : e[i] = built[i]
    BY <1>2, <2>1
  <2> HIDE DEF d, e
  <2>4. built[r + 1] \in Pdus
    BY <1>1 DEF r
  <2> DEFINE f == Append(d, built[r + 1])
  <2>5. /\ f \in Seq(Pdus) /\ Len(f) = r + 1 /\ f[r + 1] = built[r + 1]
        /\ \A i \in 1 .. r : f[i] = d[i]
    BY <2>2, <2>4, AppendProperties
  <2> HIDE DEF f
  <2>6. \A i \in 1 .. r + 1 : e[i] = f[i]
    BY <1>2, <2>2, <2>3, <2>5
  <2>7. e = f
    BY <2>3, <2>5, <2>6, SeqEqual
  <2> QED BY <1>5, <1>6, <1>8, <2>7 DEF d, e, f
<1>10. PC!Receive
  <2>1. ~Closed /\ Closed' = Closed /\ Ended' = Ended
    BY <1>3 DEF Closed, Ended
  <2> QED BY <1>8, <1>9, <2>1, Zenon DEF PC!Receive, Queue, Delivered, Ended, Closed
<1> QED BY <1>1, <1>10 DEF Emptied

\* One that did not is the end of its sender, and of the queue.
LEMMA PayloadMaps ==
  ASSUME IInv, TypeOK', Emptied, PayloadReceived
  PROVE  /\ Emptied'
         /\ \/ PC!Receive \/ PC!Close
            \/ Queue' = Queue /\ Delivered' = Delivered /\ Ended' = Ended /\ Closed' = Closed
<1>1. /\ phase = "payload" /\ got' = <<>> /\ RecvReturns
      /\ UNCHANGED <<built, unsent, sender, wire, data_len>>
      /\ \/ got = <<>> /\ phase' = "closed" /\ received' = received
         \/ got # <<>> /\ phase' = "poll" /\ received' = Append(received, got)
  BY DEF PayloadReceived
<1>2. CASE InSync /\ Len(got) = data_len
  BY <1>2, WholeMaps
<1>3. CASE ~(InSync /\ Len(got) = data_len)
  <2>1. AtEnd
    <3>1. CASE InSync
      BY <1>1, <1>3, <3>1 DEF RecvReturns, Wanted
    <3>2. CASE ~InSync
      BY <3>2 DEF IInv, GivenUp, AtEnd
    <3> QED BY <3>1, <3>2
  <2>2. InSync => Len(got) < Wanted
    <3>1. ASSUME InSync
          PROVE  Len(got) < data_len
      <4>1. Len(got) \in 0 .. data_len /\ data_len \in Nat
        BY <3>1, PayloadNext
      <4> QED BY <1>3, <3>1, <4>1
    <3> QED BY <1>1, <3>1 DEF Wanted
  <2>3. Queue = <<>>
    BY <1>1, <2>1, <2>2, NothingQueued
  <2>4. CASE got = <<>>
    <3>1. phase' = "closed" /\ received' = received
      BY <1>1, <2>4
    <3> QED BY <1>1, <2>1, <2>3, <3>1, CloseMaps DEF AtEnd
  <2>5. CASE got # <<>>
    <3>1. InSync
      BY <2>5 DEF IInv, GivenUp
    <3>2. /\ phase' = "poll" /\ received' = Append(received, got)
          /\ received \in Seq(Seq(Bytes)) /\ got \in Seq(Bytes) /\ sender \in {"runs", "ended"}
      BY <1>1, <2>5 DEF IInv, TypeOK
    <3>3. Len(got) # Len(Data[built[Len(received) + 1]])
      BY <1>3, <3>1, PayloadNext
    <3>4. Leaving' = Leaving
      BY <1>1, <3>2, SameLeaving
    <3>5. /\ \A last : QueueOf(Append(received, got), built, last)
                         = QueueOf(received, built, last)
          /\ DeliveredOf(Append(received, got), built) = DeliveredOf(received, built)
      BY <3>2, <3>3, ShortIsNone
    <3>6. Queue' = Queue /\ Delivered' = Delivered
      <4>1. built' = built
        BY <1>1
      <4> QED BY <3>2, <3>4, <3>5, <4>1, Shadow, Zenon
    <3>7. Ended' = Ended /\ Closed' = Closed
      BY <1>1, <3>2 DEF Ended, Closed
    <3> QED BY <2>3, <3>6, <3>7 DEF Emptied
  <2> QED BY <2>4, <2>5
<1> QED BY <1>2, <1>3

\* Every step of the bytes is a step of the queue of whole PDUs, or none.
LEMMA StepMaps ==
  ASSUME IInv, TypeOK', Emptied, [Next]_vars
  PROVE  [PC!Next]_(PC!vars) /\ Emptied'
<1>1. ASSUME NEW pdu \in Pdus, SendPDU(pdu)
      PROVE  PC!Next /\ Emptied'
  <2>1. PC!Send(pdu) /\ Emptied'
    BY <1>1, SendMaps
  <2> QED BY <2>1, Zenon DEF PC!Next
<1>2. CASE SenderEnds \/ Reset
  <2>1. PC!EndOrLose /\ Emptied'
    BY <1>2, LossMaps
  <2> QED BY <2>1, Zenon DEF PC!Next
<1>3. ASSUME Queue' = Queue, Delivered' = Delivered, Ended' = Ended, Closed' = Closed
      PROVE  UNCHANGED PC!vars
  BY <1>3, Zenon DEF PC!vars, Queue, Delivered, Ended, Closed
<1>4. CASE Copy \/ PollReturns \/ RecvByte
  BY <1>3, <1>4, MoveMaps
<1>5. CASE HeaderEof \/ HeaderReceived
  <2>1. /\ Emptied'
        /\ \/ PC!Close
           \/ Queue' = Queue /\ Delivered' = Delivered /\ Ended' = Ended /\ Closed' = Closed
    BY <1>5, HeaderMaps
  <2> QED BY <1>3, <2>1, Zenon DEF PC!Next
<1>6. CASE PayloadReceived
  <2>1. /\ Emptied'
        /\ \/ PC!Receive \/ PC!Close
           \/ Queue' = Queue /\ Delivered' = Delivered /\ Ended' = Ended /\ Closed' = Closed
    BY <1>6, PayloadMaps
  <2> QED BY <1>3, <2>1, Zenon DEF PC!Next
<1>7. CASE UNCHANGED vars
  <2>1. UNCHANGED <<built, unsent, sender, wire, phase, data_len, got, received>>
    BY <1>7 DEF vars
  <2>2. Queue' = Queue /\ Delivered' = Delivered
    BY <2>1, SameLeaving, SameQueue DEF IInv, TypeOK
  <2>3. Ended' = Ended /\ Closed' = Closed
    BY <2>1 DEF Ended, Closed
  <2>4. Emptied'
    <3>1. CASE InSync
      <4>1. Flow' = Flow
        BY <2>1 DEF Flow
      <4>2. InSync'
        BY <2>1, <3>1, <4>1, PhaseKept DEF InPhase, Consumed
      <4> QED BY <4>2 DEF Emptied
    <3>2. CASE Queue = <<>>
      BY <2>2, <3>2 DEF Emptied
    <3> QED BY <3>1, <3>2 DEF Emptied
  <2> QED BY <1>3, <2>2, <2>3, <2>4
<1> QED BY <1>1, <1>2, <1>4, <1>5, <1>6, <1>7, Zenon DEF Next, Receiver

\* The first state of a connection is one of the channel.
LEMMA InitMaps ==
  ASSUME Init
  PROVE  PC!Init /\ Emptied
<1>1. IInv /\ received = <<>> /\ built = <<>> /\ sender = "runs" /\ phase = "poll"
  BY InitInv DEF Init
<1>2. TypeOK /\ ReceivedWhole
  BY <1>1 DEF IInv, ReceivedWhole
<1>3. Len(received) = 0 /\ Leaving = 0
  BY <1>1 DEF Leaving
<1>4. Queue = SubSeq(built, 0 + 1, 0) /\ Delivered = [i \in 1 .. 0 |-> built[i]]
  BY <1>2, <1>3, QueueInSync
<1>5. Queue = <<>>
  BY <1>1, <1>4
<1>6. Delivered = <<>>
  BY <1>1, <1>4
<1>7. Ended = FALSE /\ Closed = FALSE
  BY <1>1 DEF Ended, Closed
<1>8. PC!Init
  BY <1>5, <1>6, <1>7, Zenon DEF PC!Init, Queue, Delivered, Ended, Closed
<1> QED BY <1>5, <1>8 DEF Emptied

\* The bytes of a connection are the queue of whole PDUs that Tcp takes them for
\* (pdu.c:13-58): whatever is sent is received as it was meant, in order, and none
\* is lost but the last ones of a sender that has ended.
THEOREM StreamImplementsChannel == Spec => ImplementsPduChannel
<1>1. Init => PC!Init /\ Emptied
  BY InitMaps
<1>2. IInv /\ IInv' /\ Emptied /\ [Next]_vars => [PC!Next]_(PC!vars) /\ Emptied'
  BY StepMaps DEF IInv
<1> QED BY <1>1, <1>2, Invariance, PTL DEF Spec, PC!Spec, ImplementsPduChannel
==============================================================================
