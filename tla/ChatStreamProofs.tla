---------------------------- MODULE ChatStreamProofs ----------------------------
(***************************************************************************)
(* What a client reads is a sequence it can parse, and the pieces of one   *)
(* client's lines reach another in the order in which they were cut, for   *)
(* every number of clients, names, pieces and descriptors and every        *)
(* content of the table.                                                   *)
(*                                                                         *)
(* A handler leaves its sends in job; SendNext moves them one by one into  *)
(* the sockets.  The proof has two halves: SendNext changes nobody's       *)
(* stream (StreamKept), and every other step changes a client's stream at  *)
(* one end only, in one of four ways (ParsesAnswer, ParsesTexts,           *)
(* ParsesList, ParsesTail).                                                *)
(*                                                                         *)
(* The second part is about order.  A piece passes three queues: the       *)
(* sender's line, its socket, and the stream of the receiver.  The proof   *)
(* looks at how the queues of one step come from those of the step before: *)
(* some lose their first or their last PDUs (Part), or the first of one    *)
(* moves to the end of the one before it (Added, AllButFirst).             *)
(***************************************************************************)
EXTENDS ChatTableProofs

------------------------------------------------------------------------------
(* The part of a handler's sends that is for one client. *)

Mine(todo, c) == {i \in DOMAIN todo : todo[i].sock \in Fds /\ conn[todo[i].sock] = c}

PendingOf(todo, c) ==
  [k \in DOMAIN InOrder(Mine(todo, c)) |-> todo[InOrder(Mine(todo, c))[k]].pdu]

LEMMA PendingIs ==
  /\ \A c : Pending(c) = PendingOf(job.todo, c)
  /\ conn' = conn => \A c : Pending(c)' = PendingOf(job'.todo, c)
<1>1. \A c : Pending(c) = PendingOf(job.todo, c)
  BY DEF Pending, PendingOf, Mine
<1>2. ASSUME conn' = conn, NEW c
      PROVE  Pending(c)' = PendingOf(job'.todo, c)
  BY <1>2 DEF Pending, PendingOf, Mine
<1> QED BY <1>1, <1>2

Numbers(f, n, S) ==
  /\ f \in [1 .. n -> S]
  /\ \A k, l \in 1 .. n : k < l => f[k] < f[l]
  /\ \A i \in S : \E k \in 1 .. n : f[k] = i

\* Whatever numbers c's sends in their order gives what is pending.
LEMMA PendingUnique ==
  ASSUME NEW todo \in Seq(Sends), NEW c, NEW n \in Nat, NEW f,
         Numbers(f, n, Mine(todo, c))
  PROVE  PendingOf(todo, c) = [k \in 1 .. n |-> todo[f[k]].pdu]
<1>1. Mine(todo, c) \in SUBSET Nat
  <2>1. DOMAIN todo \in SUBSET Nat
    OBVIOUS
  <2> QED BY <2>1 DEF Mine
<1>2. InOrder(Mine(todo, c)) = f
  BY <1>1, InOrderUnique DEF Numbers
<1>3. DOMAIN f = 1 .. n
  BY DEF Numbers
<1> QED BY <1>2, <1>3 DEF PendingOf

LEMMA PendingEnumerates ==
  ASSUME NEW todo \in Seq(Sends), NEW c
  PROVE  \E n \in Nat : \E f :
           /\ Numbers(f, n, Mine(todo, c))
           /\ PendingOf(todo, c) = [k \in 1 .. n |-> todo[f[k]].pdu]
           /\ PendingOf(todo, c) \in Seq(ServerPdu)
<1> DEFINE S == Mine(todo, c)
           n == Cardinality(S)
           f == InOrder(S)
<1>1. DOMAIN todo = 1 .. Len(todo) /\ Len(todo) \in Nat
  OBVIOUS
<1>2. S \in SUBSET DOMAIN todo
  BY DEF Mine
<1>3. S \in SUBSET Nat /\ IsFiniteSet(S)
  <2>1. IsFiniteSet(1 .. Len(todo))
    BY <1>1, FS_Interval
  <2> QED BY <1>1, <1>2, <2>1, FS_Subset
<1>4. /\ n \in Nat /\ f \in [1 .. n -> S]
      /\ \A k, l \in 1 .. n : k < l => f[k] < f[l]
      /\ \A i \in S : \E k \in 1 .. n : f[k] = i
  <2> HIDE DEF S
  <2> QED BY <1>3, InOrderEnumerates
<1>5. PendingOf(todo, c) = [k \in 1 .. n |-> todo[f[k]].pdu]
  <2>1. DOMAIN f = 1 .. n
    <3> HIDE DEF n, f, S
    <3> QED BY <1>4
  <2> QED BY <2>1 DEF PendingOf
<1> HIDE DEF n, f
<1>6. \A i \in DOMAIN todo : todo[i].pdu \in ServerPdu
  <2>1. \A i \in DOMAIN todo : todo[i] \in Sends
    OBVIOUS
  <2> QED BY <2>1 DEF Sends
<1> HIDE DEF S
<1>7. \A k \in 1 .. n : todo[f[k]].pdu \in ServerPdu
  BY <1>2, <1>4, <1>6
<1>8. PendingOf(todo, c) \in Seq(ServerPdu)
  BY <1>4, <1>5, <1>7
<1> QED BY <1>4, <1>5, <1>8 DEF S, Numbers

LEMMA PendingNone ==
  ASSUME NEW todo \in Seq(Sends), NEW c, Mine(todo, c) = {}
  PROVE  PendingOf(todo, c) = <<>>
<1>1. Cardinality(Mine(todo, c)) = 0
  BY FS_EmptySet
<1>2. DOMAIN InOrder(Mine(todo, c)) = {}
  BY <1>1 DEF InOrder
<1> QED BY <1>2 DEF PendingOf

LEMMA PendingAll ==
  ASSUME NEW todo \in Seq(Sends), NEW c, Mine(todo, c) = DOMAIN todo
  PROVE  PendingOf(todo, c) = [i \in 1 .. Len(todo) |-> todo[i].pdu]
<1> DEFINE f == [k \in 1 .. Len(todo) |-> k]
<1>1. Len(todo) \in Nat /\ DOMAIN todo = 1 .. Len(todo)
  OBVIOUS
<1>2. f \in [1 .. Len(todo) -> Mine(todo, c)]
  BY <1>1
<1>3. \A k \in 1 .. Len(todo) : f[k] = k
  OBVIOUS
<1> HIDE DEF f
<1>4. \A i \in Mine(todo, c) : \E k \in 1 .. Len(todo) : f[k] = i
  BY <1>1, <1>3
<1>5. \A k, l \in 1 .. Len(todo) : k < l => f[k] < f[l]
  BY <1>3
<1>6. Numbers(f, Len(todo), Mine(todo, c))
  BY <1>2, <1>4, <1>5 DEF Numbers
<1>7. PendingOf(todo, c) = [k \in 1 .. Len(todo) |-> todo[f[k]].pdu]
  BY <1>1, <1>6, PendingUnique
<1> QED BY <1>3, <1>7

\* The first send leaves the others in their order.
LEMMA PendingTail ==
  ASSUME NEW todo \in Seq(Sends), todo # <<>>, NEW c
  PROVE  /\ 1 \in Mine(todo, c) =>
              PendingOf(todo, c) = <<todo[1].pdu>> \o PendingOf(Tail(todo), c)
         /\ 1 \notin Mine(todo, c) => PendingOf(todo, c) = PendingOf(Tail(todo), c)
<1> DEFINE rest == Tail(todo)
<1>1. /\ rest \in Seq(Sends) /\ DOMAIN todo = 1 .. Len(todo) /\ Len(todo) \in Nat \ {0}
      /\ DOMAIN rest = 1 .. Len(todo) - 1
      /\ \A i \in 1 .. Len(todo) - 1 : rest[i] = todo[i + 1]
  OBVIOUS
<1> HIDE DEF rest
<1> PICK n, g :
       /\ n \in Nat
       /\ Numbers(g, n, Mine(rest, c))
       /\ PendingOf(rest, c) = [k \in 1 .. n |-> rest[g[k]].pdu]
       /\ PendingOf(rest, c) \in Seq(ServerPdu)
  BY <1>1, PendingEnumerates
<1>2. /\ g \in [1 .. n -> Mine(rest, c)]
      /\ \A k, l \in 1 .. n : k < l => g[k] < g[l]
      /\ \A i \in Mine(rest, c) : \E k \in 1 .. n : g[k] = i
      /\ PendingOf(rest, c) = [k \in 1 .. n |-> rest[g[k]].pdu]
      /\ PendingOf(rest, c) \in Seq(ServerPdu)
  BY DEF Numbers
<1>3. /\ \A i \in Mine(rest, c) : i \in 1 .. Len(todo) - 1 /\ i + 1 \in Mine(todo, c)
      /\ \A i \in Mine(todo, c) : i = 1 \/ i - 1 \in Mine(rest, c)
  <2>1. ASSUME NEW i \in Mine(rest, c)
        PROVE  i \in 1 .. Len(todo) - 1 /\ i + 1 \in Mine(todo, c)
    <3>1. i \in 1 .. Len(todo) - 1 /\ rest[i].sock \in Fds /\ conn[rest[i].sock] = c
      BY <1>1 DEF Mine
    <3>2. i + 1 \in 1 .. Len(todo) /\ rest[i] = todo[i + 1]
      BY <1>1, <3>1
    <3> QED BY <1>1, <3>1, <3>2 DEF Mine
  <2>2. ASSUME NEW i \in Mine(todo, c), i # 1
        PROVE  i - 1 \in Mine(rest, c)
    <3>1. i \in 1 .. Len(todo) /\ i - 1 \in 1 .. Len(todo) - 1 /\ (i - 1) + 1 = i
      BY <1>1, <2>2 DEF Mine
    <3>2. rest[i - 1] = todo[i]
      BY <1>1, <3>1
    <3> QED BY <1>1, <3>1, <3>2 DEF Mine
  <2> QED BY <2>1, <2>2
<1>4. \A k \in 1 .. n : /\ g[k] \in 1 .. Len(todo) - 1 /\ g[k] + 1 \in Mine(todo, c)
                        /\ rest[g[k]] = todo[g[k] + 1]
  BY <1>1, <1>2, <1>3
<1>5. CASE 1 \in Mine(todo, c)
  <2> DEFINE f == [k \in 1 .. n + 1 |-> IF k = 1 THEN 1 ELSE g[k - 1] + 1]
  <2>1. f \in [1 .. n + 1 -> Mine(todo, c)]
    BY <1>4, <1>5
  <2>2. \A k, l \in 1 .. n + 1 : k < l => f[k] < f[l]
    <3> SUFFICES ASSUME NEW k \in 1 .. n + 1, NEW l \in 1 .. n + 1, k < l
                 PROVE  f[k] < f[l]
      OBVIOUS
    <3>1. l - 1 \in 1 .. n /\ f[l] = g[l - 1] + 1 /\ g[l - 1] \in Nat /\ g[l - 1] >= 1
      BY <1>4
    <3>2. CASE k = 1
      <4>1. f[k] = 1
        BY <3>2
      <4> QED BY <3>1, <4>1
    <3>3. CASE k # 1
      <4>1. k - 1 \in 1 .. n /\ k - 1 < l - 1 /\ f[k] = g[k - 1] + 1
        BY <3>3
      <4>2. g[k - 1] < g[l - 1]
        BY <1>2, <3>1, <4>1
      <4>3. g[k - 1] \in Nat
        BY <1>4, <4>1
      <4> HIDE DEF f
      <4> QED BY <3>1, <4>1, <4>2, <4>3
    <3> QED BY <3>2, <3>3
  <2>3. \A i \in Mine(todo, c) : \E k \in 1 .. n + 1 : f[k] = i
    <3> SUFFICES ASSUME NEW i \in Mine(todo, c) PROVE \E k \in 1 .. n + 1 : f[k] = i
      OBVIOUS
    <3>1. CASE i = 1
      <4>1. 1 \in 1 .. n + 1 /\ f[1] = 1
        OBVIOUS
      <4> QED BY <3>1, <4>1
    <3>2. CASE i # 1
      <4>1. PICK k \in 1 .. n : g[k] = i - 1
        BY <1>2, <1>3, <3>2
      <4>2. i \in Nat
        BY <1>1 DEF Mine
      <4>3. k + 1 \in 1 .. n + 1 /\ k + 1 # 1
        OBVIOUS
      <4>4. f[k + 1] = g[k] + 1
        BY <4>3
      <4> HIDE DEF f
      <4> QED BY <4>1, <4>2, <4>3, <4>4
    <3> QED BY <3>1, <3>2
  <2> HIDE DEF f
  <2>4. PendingOf(todo, c) = [k \in 1 .. n + 1 |-> todo[f[k]].pdu]
    <3>1. Numbers(f, n + 1, Mine(todo, c))
      BY <2>1, <2>2, <2>3 DEF Numbers
    <3> QED BY <3>1, PendingUnique
  <2>5. todo[1].pdu \in ServerPdu
    <3>1. todo[1] \in Sends
      BY <1>1
    <3> QED BY <3>1 DEF Sends
  <2> DEFINE whole == <<todo[1].pdu>> \o PendingOf(rest, c)
  <2>6. /\ DOMAIN PendingOf(rest, c) = 1 .. n /\ Len(PendingOf(rest, c)) = n
        /\ \A k \in 1 .. n : PendingOf(rest, c)[k] = todo[g[k] + 1].pdu
    <3>1. PendingOf(rest, c) = [k \in 1 .. n |-> rest[g[k]].pdu]
      BY <1>2
    <3>2. DOMAIN PendingOf(rest, c) = 1 .. n
      BY <3>1
    <3>3. \A k \in 1 .. n : PendingOf(rest, c)[k] = rest[g[k]].pdu
      BY <3>1
    <3>4. PendingOf(rest, c) \in Seq(ServerPdu)
      BY <1>2
    <3>5. Len(PendingOf(rest, c)) = n
      BY <3>2, <3>4
    <3> QED BY <1>4, <3>2, <3>3, <3>5
  <2>7. DOMAIN whole = 1 .. n + 1 /\ whole \in Seq(ServerPdu)
    BY <1>2, <2>5, <2>6
  <2>8. \A k \in 1 .. n + 1 : whole[k] = todo[f[k]].pdu
    <3> SUFFICES ASSUME NEW k \in 1 .. n + 1 PROVE whole[k] = todo[f[k]].pdu
      OBVIOUS
    <3>1. CASE k = 1
      BY <1>2, <2>5, <3>1 DEF f
    <3>2. CASE k # 1
      <4>1. k - 1 \in 1 .. n /\ whole[k] = PendingOf(rest, c)[k - 1]
        BY <1>2, <2>5, <2>6, <3>2
      <4> QED BY <2>6, <3>2, <4>1 DEF f
    <3> QED BY <3>1, <3>2
  <2> HIDE DEF whole
  <2>9. PendingOf(todo, c) = whole
    BY <2>4, <2>7, <2>8
  <2> QED BY <1>5, <2>9 DEF whole, rest
<1>6. CASE 1 \notin Mine(todo, c)
  <2> DEFINE f == [k \in 1 .. n |-> g[k] + 1]
  <2>1. f \in [1 .. n -> Mine(todo, c)]
    BY <1>4
  <2>2. \A k, l \in 1 .. n : k < l => f[k] < f[l]
    BY <1>2, <1>4
  <2>3. \A i \in Mine(todo, c) : \E k \in 1 .. n : f[k] = i
    <3> SUFFICES ASSUME NEW i \in Mine(todo, c) PROVE \E k \in 1 .. n : f[k] = i
      OBVIOUS
    <3>1. PICK k \in 1 .. n : g[k] = i - 1
      BY <1>2, <1>3, <1>6
    <3>2. i \in Nat
      BY <1>1 DEF Mine
    <3>3. f[k] = i
      BY <3>1, <3>2
    <3> QED BY <3>3
  <2>4. \A k \in 1 .. n : todo[f[k]].pdu = rest[g[k]].pdu
    BY <1>4
  <2> HIDE DEF f
  <2>5. PendingOf(todo, c) = [k \in 1 .. n |-> todo[f[k]].pdu]
    <3>1. Numbers(f, n, Mine(todo, c))
      BY <2>1, <2>2, <2>3 DEF Numbers
    <3> QED BY <3>1, PendingUnique
  <2> QED BY <1>2, <1>6, <2>4, <2>5 DEF rest
<1> QED BY <1>5, <1>6

------------------------------------------------------------------------------
(* What a client can parse, of a sequence of PDUs s, at the given stage of   *)
(* its program.                                                              *)

Answers == {GOOD_CONNECT_FLAG, BAD_CONNECT_FLAG}
ListParts == {HANDLE_ITEM_FLAG, HANDLE_FINISH_FLAG}

AnswerFirst(s, stage) ==
  \A i \in DOMAIN s : s[i].flag \in Answers <=> i = 1 /\ stage \in {"connected", "wait"}

ListAt(s, i) ==
  /\ i + s[i].count + 1 \in DOMAIN s
  /\ s[i + s[i].count + 1].flag = HANDLE_FINISH_FLAG
  /\ \A j \in i + 1 .. i + s[i].count : s[j].flag = HANDLE_ITEM_FLAG

ListsWhole(s) ==
  \A i \in DOMAIN s : s[i].flag = HANDLE_LIST_RESP_FLAG => ListAt(s, i)

PartsInLists(s, stage) ==
  \A i \in DOMAIN s : s[i].flag \in ListParts =>
    IF i = 1 THEN stage = "list"
    ELSE s[i - 1].flag \in {HANDLE_LIST_RESP_FLAG, HANDLE_ITEM_FLAG}

\* The part that StreamGrammar does not say: it keeps a list whole whose flag 11
\* has been read already.
ItemsFollowed(s) ==
  \A i \in DOMAIN s : s[i].flag = HANDLE_ITEM_FLAG =>
    i + 1 \in DOMAIN s /\ s[i + 1].flag \in ListParts

ListGoesOn(s, stage) ==
  stage = "list" => s # <<>> /\ s[1].flag \in ListParts

Parses(s, stage) ==
  /\ AnswerFirst(s, stage) /\ ListsWhole(s) /\ PartsInLists(s, stage)
  /\ ItemsFollowed(s) /\ ListGoesOn(s, stage)

LEMMA CountOfList ==
  ASSUME NEW p \in ServerPdu, p.flag = HANDLE_LIST_RESP_FLAG
  PROVE  p.count \in Nat
BY DEF ServerPdu, TextPdu, AnswerPdu, HANDLE_LIST_RESP_FLAG, BROADCAST_FLAG,
       UNICAST_FLAG, MULTICAST_FLAG, GOOD_CONNECT_FLAG, BAD_CONNECT_FLAG,
       HANDLE_FINISH_FLAG, HANDLE_ERR_FLAG, HANDLE_ITEM_FLAG

LEMMA ParsesNothing ==
  ASSUME NEW stage, stage # "list"
  PROVE  Parses(<<>>, stage)
BY DEF Parses, AnswerFirst, ListsWhole, PartsInLists, ItemsFollowed, ListGoesOn

\* The answer to flag 1, in an empty stream.
LEMMA ParsesAnswer ==
  ASSUME NEW p, p.flag \in Answers
  PROVE  Parses(<<p>>, "wait")
<1>1. DOMAIN <<p>> = {1} /\ <<p>>[1] = p
  OBVIOUS
<1>2. p.flag # HANDLE_LIST_RESP_FLAG /\ p.flag \notin ListParts
      /\ p.flag # HANDLE_ITEM_FLAG
  BY DEF Answers, ListParts, GOOD_CONNECT_FLAG, BAD_CONNECT_FLAG,
         HANDLE_LIST_RESP_FLAG, HANDLE_ITEM_FLAG, HANDLE_FINISH_FLAG
<1> QED BY <1>1, <1>2
        DEF Parses, AnswerFirst, ListsWhole, PartsInLists, ItemsFollowed, ListGoesOn

\* Texts and flag 7, for a client that expects anything.
LEMMA ParsesTexts ==
  ASSUME NEW t, \A i \in DOMAIN t : t[i].flag \in TextFlags \cup {HANDLE_ERR_FLAG}
  PROVE  Parses(t, "chat")
<1>1. \A i \in DOMAIN t : /\ t[i].flag # HANDLE_LIST_RESP_FLAG
                          /\ t[i].flag \notin ListParts
                          /\ t[i].flag # HANDLE_ITEM_FLAG
                          /\ t[i].flag \notin Answers
  BY DEF TextFlags, Answers, ListParts, GOOD_CONNECT_FLAG, BAD_CONNECT_FLAG,
         HANDLE_LIST_RESP_FLAG, HANDLE_ITEM_FLAG, HANDLE_FINISH_FLAG, HANDLE_ERR_FLAG,
         BROADCAST_FLAG, UNICAST_FLAG, MULTICAST_FLAG
<1> QED BY <1>1
        DEF Parses, AnswerFirst, ListsWhole, PartsInLists, ItemsFollowed, ListGoesOn

\* A list: flag 11 with the number of items, the items, flag 13.
LEMMA ParsesList ==
  ASSUME NEW n \in Nat, NEW t \in Seq(ServerPdu), Len(t) = n + 2,
         t[1].flag = HANDLE_LIST_RESP_FLAG, t[1].count = n,
         \A i \in 1 .. n : t[i + 1].flag = HANDLE_ITEM_FLAG,
         t[n + 2].flag = HANDLE_FINISH_FLAG
  PROVE  Parses(t, "chat")
<1>1. DOMAIN t = 1 .. n + 2
  OBVIOUS
<1>2. \A i \in 2 .. n + 1 : t[i].flag = HANDLE_ITEM_FLAG
  <2> SUFFICES ASSUME NEW i \in 2 .. n + 1 PROVE t[i].flag = HANDLE_ITEM_FLAG
    OBVIOUS
  <2>1. i - 1 \in 1 .. n /\ (i - 1) + 1 = i
    OBVIOUS
  <2>2. t[(i - 1) + 1].flag = HANDLE_ITEM_FLAG
    BY <2>1
  <2> QED BY <2>1, <2>2
<1>3. \A i \in 1 .. n + 2 : \/ i = 1 /\ t[i].flag = 11
                            \/ i \in 2 .. n + 1 /\ t[i].flag = 12
                            \/ i = n + 2 /\ t[i].flag = 13
  BY <1>2 DEF HANDLE_LIST_RESP_FLAG, HANDLE_ITEM_FLAG, HANDLE_FINISH_FLAG
<1> USE DEF Answers, ListParts, GOOD_CONNECT_FLAG, BAD_CONNECT_FLAG,
            HANDLE_LIST_RESP_FLAG, HANDLE_ITEM_FLAG, HANDLE_FINISH_FLAG
<1>4. AnswerFirst(t, "chat")
  BY <1>1, <1>3 DEF AnswerFirst
<1>5. ListsWhole(t)
  <2>1. ListAt(t, 1)
    BY <1>1, <1>2 DEF ListAt
  <2> QED BY <1>1, <1>3, <2>1 DEF ListsWhole
<1>6. PartsInLists(t, "chat")
  <2> SUFFICES ASSUME NEW i \in 1 .. n + 2, t[i].flag \in ListParts
               PROVE  i # 1 /\ t[i - 1].flag \in {11, 12}
    BY <1>1 DEF PartsInLists
  <2>1. i # 1 /\ i - 1 \in 1 .. n + 2 /\ i - 1 # n + 2
    BY <1>3
  <2> QED BY <1>3, <2>1
<1>7. ItemsFollowed(t)
  <2> SUFFICES ASSUME NEW i \in 1 .. n + 2, t[i].flag = 12
               PROVE  i + 1 \in 1 .. n + 2 /\ t[i + 1].flag \in ListParts
    BY <1>1 DEF ItemsFollowed
  <2>1. i \in 2 .. n + 1
    BY <1>3
  <2>2. i + 1 \in 1 .. n + 2 /\ i + 1 # 1
    BY <2>1
  <2> QED BY <1>3, <2>2
<1> QED BY <1>4, <1>5, <1>6, <1>7 DEF Parses, ListGoesOn

\* A handler's sends come after what the client has still to read.
LEMMA ParsesConcat ==
  ASSUME NEW s \in Seq(ServerPdu), NEW t \in Seq(ServerPdu), NEW stage,
         Parses(s, stage), Parses(t, "chat"),
         stage \in {"connected", "wait"} => s # <<>>
  PROVE  Parses(s \o t, stage)
<1> DEFINE w == s \o t
           m == Len(s)
           k == Len(t)
<1>1. /\ m \in Nat /\ k \in Nat /\ Len(w) = m + k /\ w \in Seq(ServerPdu)
      /\ DOMAIN s = 1 .. m /\ DOMAIN t = 1 .. k /\ DOMAIN w = 1 .. m + k
      /\ \A i \in 1 .. m : w[i] = s[i]
      /\ \A i \in 1 .. k : w[m + i] = t[i]
  OBVIOUS
<1>2. s # <<>> => 1 \in 1 .. m
  OBVIOUS
<1> HIDE DEF w, m, k
<1>3. \A i \in 1 .. m + k : i \notin 1 .. m => i - m \in 1 .. k /\ w[i] = t[i - m]
  <2> SUFFICES ASSUME NEW i \in 1 .. m + k, i \notin 1 .. m
               PROVE  i - m \in 1 .. k /\ w[i] = t[i - m]
    OBVIOUS
  <2>1. PICK j \in 1 .. k : i = m + j
    <3>1. i - m \in 1 .. k /\ i = m + (i - m)
      BY <1>1
    <3> QED BY <3>1
  <2>2. i - m = j
    BY <1>1, <2>1
  <2> QED BY <1>1, <2>1, <2>2
<1>4. AnswerFirst(w, stage)
  <2> SUFFICES ASSUME NEW i \in 1 .. m + k
               PROVE  w[i].flag \in Answers <=> i = 1 /\ stage \in {"connected", "wait"}
    BY <1>1 DEF AnswerFirst
  <2>1. CASE i \in 1 .. m
    BY <1>1, <2>1 DEF Parses, AnswerFirst
  <2>2. CASE i \notin 1 .. m
    <3>1. w[i].flag \notin Answers
      BY <1>1, <1>3, <2>2 DEF Parses, AnswerFirst
    <3> QED BY <1>2, <2>2, <3>1
  <2> QED BY <2>1, <2>2
<1>5. ListsWhole(w)
  <2> SUFFICES ASSUME NEW i \in 1 .. m + k, w[i].flag = HANDLE_LIST_RESP_FLAG
               PROVE  ListAt(w, i)
    BY <1>1 DEF ListsWhole
  <2> DEFINE n == w[i].count
  <2>1. n \in Nat
    <3>1. w[i] \in ServerPdu
      BY <1>1
    <3> QED BY <3>1, CountOfList
  <2>2. CASE i \in 1 .. m
    <3>1. w[i] = s[i] /\ ListAt(s, i)
      BY <1>1, <2>2 DEF Parses, ListsWhole
    <3> HIDE DEF n
    <3>2. /\ i + n + 1 \in 1 .. m /\ s[i + n + 1].flag = HANDLE_FINISH_FLAG
          /\ \A j \in i + 1 .. i + n : s[j].flag = HANDLE_ITEM_FLAG
      BY <1>1, <3>1 DEF ListAt, n
    <3>3. \A j \in i + 1 .. i + n + 1 : j \in 1 .. m
      BY <1>1, <2>1, <2>2, <3>2
    <3>4. /\ i + n + 1 \in 1 .. m + k /\ w[i + n + 1].flag = HANDLE_FINISH_FLAG
          /\ \A j \in i + 1 .. i + n : w[j].flag = HANDLE_ITEM_FLAG
      BY <1>1, <2>1, <3>2, <3>3
    <3> QED BY <1>1, <3>4 DEF ListAt, n
  <2>3. CASE i \notin 1 .. m
    <3> DEFINE h == i - m
    <3>1. h \in 1 .. k /\ w[i] = t[h] /\ ListAt(t, h) /\ i = m + h
      <4>1. h \in 1 .. k /\ w[i] = t[h]
        BY <1>3, <2>3
      <4>2. ListAt(t, h)
        BY <1>1, <4>1 DEF Parses, ListsWhole
      <4>3. i = m + h
        BY <1>1
      <4> QED BY <4>1, <4>2, <4>3
    <3> HIDE DEF n, h
    <3>2. /\ h + n + 1 \in 1 .. k /\ t[h + n + 1].flag = HANDLE_FINISH_FLAG
          /\ \A j \in h + 1 .. h + n : t[j].flag = HANDLE_ITEM_FLAG
      BY <1>1, <3>1 DEF ListAt, n
    <3>3. \A j \in i + 1 .. i + n + 1 : j - m \in h + 1 .. h + n + 1 /\ j - m \in 1 .. k
                                        /\ w[j] = t[j - m]
      <4> SUFFICES ASSUME NEW j \in i + 1 .. i + n + 1
                   PROVE  /\ j - m \in h + 1 .. h + n + 1 /\ j - m \in 1 .. k
                          /\ w[j] = t[j - m]
        OBVIOUS
      <4>1. j \in 1 .. m + k /\ j \notin 1 .. m
        BY <1>1, <2>1, <3>1, <3>2
      <4>2. j - m \in h + 1 .. h + n + 1
        BY <1>1, <2>1, <3>1
      <4> QED BY <1>3, <4>1, <4>2
    <3>4. i + n + 1 \in 1 .. m + k /\ w[i + n + 1].flag = HANDLE_FINISH_FLAG
      <4>1. i + n + 1 \in i + 1 .. i + n + 1 /\ (i + n + 1) - m = h + n + 1
        BY <1>1, <2>1, <3>1
      <4>2. i + n + 1 \in 1 .. m + k
        BY <1>1, <2>1, <3>1, <3>2
      <4> QED BY <3>2, <3>3, <4>1, <4>2
    <3>5. \A j \in i + 1 .. i + n : w[j].flag = HANDLE_ITEM_FLAG
      <4> SUFFICES ASSUME NEW j \in i + 1 .. i + n PROVE w[j].flag = HANDLE_ITEM_FLAG
        OBVIOUS
      <4>1. j \in i + 1 .. i + n + 1 /\ j - m \in h + 1 .. h + n
        BY <1>1, <2>1, <3>1
      <4> QED BY <3>2, <3>3, <4>1
    <3> QED BY <1>1, <3>4, <3>5 DEF ListAt, n
  <2> QED BY <2>2, <2>3
<1>6. PartsInLists(w, stage)
  <2> SUFFICES ASSUME NEW i \in 1 .. m + k, w[i].flag \in ListParts
               PROVE  IF i = 1 THEN stage = "list"
                      ELSE w[i - 1].flag \in {HANDLE_LIST_RESP_FLAG, HANDLE_ITEM_FLAG}
    BY <1>1 DEF PartsInLists
  <2>1. CASE i \in 1 .. m
    <3>1. i = 1 \/ i - 1 \in 1 .. m
      BY <1>1, <2>1
    <3> QED BY <1>1, <2>1, <3>1 DEF Parses, PartsInLists
  <2>2. CASE i \notin 1 .. m
    <3>1. i - m \in 1 .. k /\ t[i - m].flag \in ListParts
      BY <1>3, <2>2
    <3>2. i - m # 1 /\ t[(i - m) - 1].flag \in {HANDLE_LIST_RESP_FLAG, HANDLE_ITEM_FLAG}
      BY <1>1, <3>1 DEF Parses, PartsInLists
    <3>3. /\ i - 1 \in 1 .. m + k /\ i - 1 \notin 1 .. m /\ i # 1
          /\ (i - 1) - m = (i - m) - 1
      BY <1>1, <2>2, <3>1, <3>2
    <3> QED BY <1>3, <3>2, <3>3
  <2> QED BY <2>1, <2>2
<1>7. ItemsFollowed(w)
  <2> SUFFICES ASSUME NEW i \in 1 .. m + k, w[i].flag = HANDLE_ITEM_FLAG
               PROVE  i + 1 \in 1 .. m + k /\ w[i + 1].flag \in ListParts
    BY <1>1 DEF ItemsFollowed
  <2>1. CASE i \in 1 .. m
    <3>1. i + 1 \in 1 .. m /\ s[i + 1].flag \in ListParts
      BY <1>1, <2>1 DEF Parses, ItemsFollowed
    <3> QED BY <1>1, <3>1
  <2>2. CASE i \notin 1 .. m
    <3>1. i - m \in 1 .. k /\ t[i - m].flag = HANDLE_ITEM_FLAG
      BY <1>3, <2>2
    <3>2. (i - m) + 1 \in 1 .. k /\ t[(i - m) + 1].flag \in ListParts
      BY <1>1, <3>1 DEF Parses, ItemsFollowed
    <3>3. /\ i + 1 \in 1 .. m + k /\ i + 1 \notin 1 .. m
          /\ (i + 1) - m = (i - m) + 1
      BY <1>1, <2>2, <3>1, <3>2
    <3> QED BY <1>3, <3>2, <3>3
  <2> QED BY <2>1, <2>2
<1>8. ListGoesOn(w, stage)
  <2> SUFFICES ASSUME stage = "list" PROVE w # <<>> /\ w[1].flag \in ListParts
    BY DEF ListGoesOn
  <2>1. s # <<>> /\ s[1].flag \in ListParts
    BY DEF Parses, ListGoesOn
  <2> QED BY <1>1, <1>2, <2>1
<1> QED BY <1>4, <1>5, <1>6, <1>7, <1>8 DEF Parses, w

\* A client reads a PDU, and is in flagListBegin afterwards exactly if it was
\* flag 11 or an item.
LEMMA ParsesTail ==
  ASSUME NEW s \in Seq(ServerPdu), s # <<>>, NEW stage, Parses(s, stage),
         NEW next \in {"chat", "list"},
         next = "list" <=> s[1].flag \in {HANDLE_LIST_RESP_FLAG, HANDLE_ITEM_FLAG}
  PROVE  Parses(Tail(s), next)
<1> DEFINE r == Tail(s)
           m == Len(s)
<1>1. /\ m \in Nat \ {0} /\ r \in Seq(ServerPdu)
      /\ DOMAIN s = 1 .. m /\ DOMAIN r = 1 .. m - 1
      /\ \A i \in 1 .. m - 1 : r[i] = s[i + 1]
  OBVIOUS
<1> HIDE DEF r, m
<1>2. \A i \in 1 .. m - 1 : i + 1 \in 1 .. m /\ i + 1 # 1
  BY <1>1
<1>3. AnswerFirst(r, next)
  BY <1>1, <1>2 DEF Parses, AnswerFirst
<1>4. ListsWhole(r)
  <2> SUFFICES ASSUME NEW i \in 1 .. m - 1, r[i].flag = HANDLE_LIST_RESP_FLAG
               PROVE  ListAt(r, i)
    BY <1>1 DEF ListsWhole
  <2> DEFINE n == r[i].count
  <2>1. n \in Nat
    <3>1. r[i] \in ServerPdu
      BY <1>1
    <3> QED BY <3>1, CountOfList
  <2>2. r[i] = s[i + 1] /\ ListAt(s, i + 1)
    BY <1>1, <1>2 DEF Parses, ListsWhole
  <2> HIDE DEF n
  <2>3. /\ (i + 1) + n + 1 \in 1 .. m /\ s[(i + 1) + n + 1].flag = HANDLE_FINISH_FLAG
        /\ \A j \in (i + 1) + 1 .. (i + 1) + n : s[j].flag = HANDLE_ITEM_FLAG
    BY <1>1, <2>2 DEF ListAt, n
  <2>4. i + n + 1 \in 1 .. m - 1 /\ r[i + n + 1].flag = HANDLE_FINISH_FLAG
    <3>1. i + n + 1 \in 1 .. m - 1 /\ (i + n + 1) + 1 = (i + 1) + n + 1
      BY <1>1, <2>1, <2>3
    <3> QED BY <1>1, <2>3, <3>1
  <2>5. \A j \in i + 1 .. i + n : r[j].flag = HANDLE_ITEM_FLAG
    <3> SUFFICES ASSUME NEW j \in i + 1 .. i + n PROVE r[j].flag = HANDLE_ITEM_FLAG
      OBVIOUS
    <3>1. j \in 1 .. m - 1 /\ j + 1 \in (i + 1) + 1 .. (i + 1) + n
      BY <1>1, <2>1, <2>3
    <3> QED BY <1>1, <2>3, <3>1
  <2> QED BY <1>1, <2>4, <2>5 DEF ListAt, n
<1>5. PartsInLists(r, next)
  <2> SUFFICES ASSUME NEW i \in 1 .. m - 1, r[i].flag \in ListParts
               PROVE  IF i = 1 THEN next = "list"
                      ELSE r[i - 1].flag \in {HANDLE_LIST_RESP_FLAG, HANDLE_ITEM_FLAG}
    BY <1>1 DEF PartsInLists
  <2>1. s[i].flag \in {HANDLE_LIST_RESP_FLAG, HANDLE_ITEM_FLAG}
    <3>1. i + 1 \in DOMAIN s /\ s[i + 1].flag \in ListParts /\ i + 1 # 1 /\ (i + 1) - 1 = i
      BY <1>1, <1>2
    <3>2. s[(i + 1) - 1].flag \in {HANDLE_LIST_RESP_FLAG, HANDLE_ITEM_FLAG}
      BY <3>1 DEF Parses, PartsInLists
    <3> QED BY <3>1, <3>2
  <2>2. i # 1 => i - 1 \in 1 .. m - 1 /\ (i - 1) + 1 = i
    BY <1>1
  <2> QED BY <1>1, <2>1, <2>2
<1>6. ItemsFollowed(r)
  <2> SUFFICES ASSUME NEW i \in 1 .. m - 1, r[i].flag = HANDLE_ITEM_FLAG
               PROVE  i + 1 \in 1 .. m - 1 /\ r[i + 1].flag \in ListParts
    BY <1>1 DEF ItemsFollowed
  <2>1. (i + 1) + 1 \in 1 .. m /\ s[(i + 1) + 1].flag \in ListParts
    BY <1>1, <1>2 DEF Parses, ItemsFollowed
  <2>2. i + 1 \in 1 .. m - 1
    BY <1>1, <2>1
  <2> QED BY <1>1, <2>1, <2>2
<1>7. ListGoesOn(r, next)
  <2> SUFFICES ASSUME next = "list" PROVE 1 \in 1 .. m - 1 /\ s[2].flag \in ListParts
    BY <1>1 DEF ListGoesOn
  <2>1. CASE s[1].flag = HANDLE_ITEM_FLAG
    <3>1. \A i \in 1 .. m : s[i].flag = HANDLE_ITEM_FLAG =>
            i + 1 \in 1 .. m /\ s[i + 1].flag \in ListParts
      BY <1>1 DEF Parses, ItemsFollowed
    <3>2. 1 \in 1 .. m
      BY <1>1
    <3>3. 2 \in 1 .. m /\ s[2].flag \in ListParts
      BY <2>1, <3>1, <3>2
    <3> QED BY <1>1, <3>3
  <2>2. CASE s[1].flag = HANDLE_LIST_RESP_FLAG
    <3> DEFINE n == s[1].count
    <3>1. n \in Nat
      <4>1. s[1] \in ServerPdu
        BY <1>1
      <4> QED BY <2>2, <4>1, CountOfList
    <3>2. ListAt(s, 1)
      BY <1>1, <2>2 DEF Parses, ListsWhole
    <3> HIDE DEF n
    <3>3. /\ 1 + n + 1 \in 1 .. m /\ s[1 + n + 1].flag = HANDLE_FINISH_FLAG
          /\ \A j \in 1 + 1 .. 1 + n : s[j].flag = HANDLE_ITEM_FLAG
      BY <1>1, <3>2 DEF ListAt, n
    <3>4. CASE n = 0
      BY <1>1, <3>3, <3>4 DEF ListParts
    <3>5. CASE n # 0
      BY <1>1, <3>1, <3>3, <3>5 DEF ListParts
    <3> QED BY <3>4, <3>5
  <2> QED BY <2>1, <2>2
<1> QED BY <1>3, <1>4, <1>5, <1>6, <1>7 DEF Parses, r

------------------------------------------------------------------------------
(* The invariant.                                                            *)

\* A connection the server holds or will accept is known to its kernel: what is
\* under way on it is not thrown away while its client runs.
Ends ==
  /\ \A fd \in OpenFds : cliEnd[conn[fd]] # "none"
  /\ \A i \in DOMAIN backlog : cliEnd[backlog[i]] # "none"

\* Where c is in its conversation with the server.
Talk(c) ==
  \/ pc[c] = "gone"
  \/ pc[c] \in {"start", "connected"} /\ Stream(c) = <<>>
  \/ /\ pc[c] = "wait"
     /\ \A i \in DOMAIN c2s[c] : c2s[c][i].flag = INIT_CONNECT_FLAG
     /\ Parses(Stream(c), "wait")
     /\ c2s[c] # <<>> => Stream(c) = <<>>
     /\ Registered(c) => Stream(c) # <<>>
  \/ /\ pc[c] \in {"chat", "line", "list"}
     /\ \A i \in DOMAIN c2s[c] : c2s[c][i].flag # INIT_CONNECT_FLAG
     /\ Parses(Stream(c), pc[c])

Talks == \A c \in Clients : Talk(c)

SInv == IInv /\ (alive => Ends /\ Talks)

------------------------------------------------------------------------------
(* The streams. *)

LEMMA StreamIs ==
  /\ \A c : Stream(c) = s2c[c] \o PendingOf(job.todo, c)
  /\ conn' = conn => \A c : Stream(c)' = s2c'[c] \o PendingOf(job'.todo, c)
<1>1. \A c : Stream(c) = s2c[c] \o PendingOf(job.todo, c)
  BY PendingIs DEF Stream
<1>2. ASSUME conn' = conn, NEW c
      PROVE  Stream(c)' = s2c'[c] \o PendingOf(job'.todo, c)
  <2>1. Pending(c)' = PendingOf(job'.todo, c)
    BY <1>2, PendingIs
  <2> QED BY <2>1 DEF Stream
<1> QED BY <1>1, <1>2

\* Between two handlers nothing is pending.
LEMMA IdleStreams ==
  /\ Typed /\ job.todo = <<>> => \A c \in Clients : Stream(c) = s2c[c]
  /\ Typed' /\ job'.todo = <<>> => \A c \in Clients : Stream(c)' = s2c'[c]
<1>1. DOMAIN InOrder({}) = {}
  BY FS_EmptySet DEF InOrder
<1>2. ASSUME Typed, job.todo = <<>>, NEW c \in Clients
      PROVE  Stream(c) = s2c[c]
  <2> DEFINE mine == {i \in DOMAIN job.todo :
                        job.todo[i].sock \in Fds /\ conn[job.todo[i].sock] = c}
  <2>1. mine = {} /\ Pending(c) = [k \in DOMAIN InOrder(mine) |-> job.todo[InOrder(mine)[k]].pdu]
    BY <1>2 DEF Pending
  <2> HIDE DEF mine
  <2>2. Pending(c) = <<>>
    BY <1>1, <2>1
  <2>3. s2c[c] \in Seq(ServerPdu)
    BY <1>2 DEF Typed, TcpTyped
  <2> QED BY <2>2, <2>3 DEF Stream
<1>3. ASSUME Typed', job'.todo = <<>>, NEW c \in Clients
      PROVE  Stream(c)' = s2c'[c]
  <2> DEFINE mine == {i \in DOMAIN job'.todo :
                        job'.todo[i].sock \in Fds /\ conn'[job'.todo[i].sock] = c}
  <2>1. mine = {} /\ Pending(c)' = [k \in DOMAIN InOrder(mine) |-> job'.todo[InOrder(mine)[k]].pdu]
    BY <1>3 DEF Pending
  <2> HIDE DEF mine
  <2>2. Pending(c)' = <<>>
    BY <1>1, <2>1
  <2>3. s2c'[c] \in Seq(ServerPdu)
    BY <1>3 DEF Typed, TcpTyped
  <2> QED BY <2>2, <2>3 DEF Stream
<1> QED BY <1>2, <1>3

LEMMA AppendConcat ==
  ASSUME NEW S, NEW s \in Seq(S), NEW e \in S, NEW t \in Seq(S)
  PROVE  Append(s, e) \o t = s \o (<<e>> \o t)
<1> DEFINE u == <<e>>
<1>1. u \in Seq(S) /\ Append(s, e) = s \o u
  BY AppendIsConcat
<1> HIDE DEF u
<1>2. (s \o u) \o t = s \o (u \o t)
  BY <1>1, ConcatAssociative
<1> QED BY <1>1, <1>2 DEF u

\* SendNext moves a PDU from job to the socket, and no stream changes.
LEMMA StreamKept ==
  ASSUME Typed, SendNext, NEW d \in Clients
  PROVE  Stream(d)' = Stream(d)
<1> DEFINE s == Head(job.todo)
           c == conn[s.sock]
           rest == PendingOf(Tail(job.todo), d)
<1>1. /\ job.todo \in Seq(Sends) /\ job.todo # <<>> /\ Tail(job.todo) \in Seq(Sends)
      /\ s = job.todo[1] /\ 1 \in DOMAIN job.todo /\ s.pdu \in ServerPdu /\ s.sock \in Fds
      /\ job.closing \in BOOLEAN
  BY HeadTyped, TailElements DEF SendNext, Typed, ServerTyped
<1>2. /\ conn' = conn /\ s2c' = [s2c EXCEPT ![c] = Append(@, s.pdu)]
      /\ job' = Job(job.fd, Tail(job.todo), job.closing)
      /\ s2c \in [Clients -> Seq(ServerPdu)]
  BY DEF SendNext, ServerSendReturns, Typed, TcpTyped
<1>3. job'.todo = Tail(job.todo)
  BY <1>1, <1>2, JobFields
<1>4. /\ 1 \in Mine(job.todo, d) <=> c = d
      /\ rest \in Seq(ServerPdu)
  BY <1>1, PendingEnumerates DEF Mine
<1>5. /\ Stream(d) = s2c[d] \o PendingOf(job.todo, d)
      /\ Stream(d)' = s2c'[d] \o rest
  BY <1>2, <1>3, StreamIs
<1>6. /\ c = d => PendingOf(job.todo, d) = <<s.pdu>> \o rest
      /\ c # d => PendingOf(job.todo, d) = rest
  BY <1>1, <1>4, PendingTail
<1> HIDE DEF s, c, rest
<1>7. s2c[d] \in Seq(ServerPdu)
  BY <1>2
<1>8. CASE c = d
  <2>1. s2c'[d] = Append(s2c[d], s.pdu)
    BY <1>2, <1>8
  <2>2. Append(s2c[d], s.pdu) \o rest = s2c[d] \o (<<s.pdu>> \o rest)
    <3>1. \A x, z \in Seq(ServerPdu), y \in ServerPdu : Append(x, y) \o z = x \o (<<y>> \o z)
      BY AppendConcat
    <3>2. s2c[d] \in Seq(ServerPdu)
      BY <1>7
    <3>3. rest \in Seq(ServerPdu)
      BY <1>4
    <3>4. s.pdu \in ServerPdu
      BY <1>1
    <3> QED BY <3>1, <3>2, <3>3, <3>4
  <2> QED BY <1>5, <1>6, <1>8, <2>1, <2>2
<1>9. CASE c # d
  <2>1. s2c'[d] = s2c[d]
    BY <1>2, <1>9
  <2> QED BY <1>5, <1>6, <1>9, <2>1
<1> QED BY <1>8, <1>9

\* A client that reads takes the first PDU of its stream.
LEMMA ReadStream ==
  ASSUME Typed, NEW c \in Clients, ClientRecv(c), UNCHANGED serverVars
  PROVE  /\ Stream(c) \in Seq(ServerPdu) /\ Stream(c) # <<>>
         /\ Head(s2c[c]) = Stream(c)[1]
         /\ Stream(c)' = Tail(Stream(c))
<1> DEFINE p == PendingOf(job.todo, c)
<1>1. /\ s2c[c] \in Seq(ServerPdu) /\ s2c[c] # <<>> /\ s2c'[c] = Tail(s2c[c])
      /\ conn' = conn /\ job' = job
  BY DEF ClientRecv, Typed, TcpTyped, serverVars
<1>2. p \in Seq(ServerPdu)
  <2>1. job.todo \in Seq(Sends)
    BY DEF Typed, ServerTyped
  <2> QED BY <2>1, PendingEnumerates
<1>3. Stream(c) = s2c[c] \o p /\ Stream(c)' = Tail(s2c[c]) \o p
  BY <1>1, StreamIs
<1> HIDE DEF p
<1>4. /\ s2c[c] \o p \in Seq(ServerPdu) /\ s2c[c] \o p # <<>>
      /\ Head(s2c[c]) = (s2c[c] \o p)[1]
      /\ Tail(s2c[c]) \o p = Tail(s2c[c] \o p)
  BY <1>1, <1>2
<1> QED BY <1>3, <1>4

\* Clients whose part of the state a step leaves alone.
LEMMA TalkKept ==
  ASSUME NEW d \in Clients, Talk(d), pc'[d] = pc[d],
         c2s'[d] = c2s[d] \/ c2s'[d] = <<>>,
         Stream(d)' = Stream(d), Registered(d)' => Registered(d)
  PROVE  Talk(d)'
<1>1. \A i \in DOMAIN c2s'[d] : i \in DOMAIN c2s[d] /\ c2s'[d][i] = c2s[d][i]
  OBVIOUS
<1>2. c2s'[d] # <<>> => c2s[d] # <<>>
  OBVIOUS
<1> QED BY <1>1, <1>2 DEF Talk

\* A step of one client or of the network.
LEMMA OwnStepTalks ==
  ASSUME Typed, Talks, NEW c \in Clients, Talk(c)',
         UNCHANGED serverVars, conn' = conn,
         \A d \in Clients \ {c} : pc'[d] = pc[d] /\ c2s'[d] = c2s[d] /\ s2c'[d] = s2c[d]
  PROVE  Talks'
<1> SUFFICES ASSUME NEW d \in Clients PROVE Talk(d)'
  BY DEF Talks
<1>1. HT!Bindings' = HT!Bindings /\ job' = job
  BY ServerStill
<1>2. Registered(d)' <=> Registered(d)
  BY <1>1, SameRegistry
<1>3. CASE d # c
  <2>1. Stream(d)' = Stream(d)
    BY <1>1, <1>3, StreamIs
  <2> QED BY <1>2, <1>3, <2>1, TalkKept DEF Talks
<1> QED BY <1>3

------------------------------------------------------------------------------
(* The steps of clients and of the network. *)

LEMMA StreamStays ==
  ASSUME Typed, UNCHANGED serverVars, conn' = conn, NEW c, s2c'[c] = s2c[c]
  PROVE  Stream(c)' = Stream(c)
<1>1. job' = job
  BY DEF serverVars
<1> QED BY <1>1, StreamIs

LEMMA ClientTalks ==
  ASSUME Typed, Typed', Live, Talks, NEW c \in Clients,
         ConnectStep(c) \/ UserStep(c) \/ ProgramStep(c) \/ NetworkStep(c)
  PROVE  Talks'
<1>1. UNCHANGED serverVars
  BY DEF ConnectStep, UserStep, ProgramStep, NetworkStep
<1>2. HT!Bindings' = HT!Bindings /\ job' = job
  BY <1>1, ServerStill
<1>3. /\ pc \in [Clients -> Stages] /\ pc' \in [Clients -> Stages]
      /\ c2s \in [Clients -> Seq(ClientPdu)] /\ s2c \in [Clients -> Seq(ServerPdu)]
      /\ outq \in [Clients -> Seq(LinePdu)]
      /\ c2s' \in [Clients -> Seq(ClientPdu)]
  BY DEF Typed, TcpTyped, ClientsTyped
<1>4. Talk(c)
  BY DEF Talks
<1>5. ASSUME Exit(c) PROVE Talks'
  <2>1. /\ pc'[c] = "gone" /\ conn' = conn
        /\ \A d \in Clients \ {c} : pc'[d] = pc[d] /\ c2s'[d] = c2s[d] /\ s2c'[d] = s2c[d]
    BY <1>3, <1>5 DEF Exit, Goto, ClientClose
  <2>2. Talk(c)'
    BY <2>1 DEF Talk
  <2> QED BY <1>1, <2>1, <2>2, OwnStepTalks
<1>6. CASE ConnectStep(c)
  <2>1. /\ pc[c] = "start" /\ UNCHANGED <<conn, c2s, s2c>>
        /\ pc'[c] \in {"gone", "connected"}
        /\ \A d \in Clients \ {c} : pc'[d] = pc[d]
    BY <1>3, <1>6 DEF ConnectStep, Connect, ResolveFails, ConnectCall, Goto, tcpVars
  <2>2. Stream(c)' = Stream(c)
    BY <1>1, <2>1, StreamStays
  <2>3. Talk(c)'
    BY <1>4, <2>1, <2>2 DEF Talk
  <2> QED BY <1>1, <2>1, <2>3, OwnStepTalks
<1>7. CASE NetworkStep(c)
  <2>1. /\ cliEnd[c] = "closed" /\ UNCHANGED <<conn, c2s, pc>>
        /\ \A d \in Clients \ {c} : s2c'[d] = s2c[d]
    BY <1>3, <1>7 DEF NetworkStep, Reset, clientVars
  <2>2. pc[c] = "gone"
    BY <2>1 DEF Live, ClosedAreGone
  <2>3. Talk(c)'
    BY <2>1, <2>2 DEF Talk
  <2> QED BY <1>1, <2>1, <2>3, OwnStepTalks
\* Whether it waits in poll() or in getchar(), a client can parse the same.
<1>8. ASSUME UNCHANGED tcpVars, pc[c] \in {"chat", "line"},
             Goto(c, "chat") \/ Goto(c, "line")
      PROVE  Talks'
  <2>1. UNCHANGED <<conn, c2s, s2c>>
    BY <1>8 DEF tcpVars
  <2>2. Stream(c)' = Stream(c)
    BY <1>1, <2>1, StreamStays
  <2>3. /\ pc'[c] \in {"chat", "line"}
        /\ \A d \in Clients \ {c} : pc'[d] = pc[d]
    BY <1>3, <1>8 DEF Goto
  <2>4. Parses(Stream(c), "chat") <=> Parses(Stream(c), "line")
    BY DEF Parses, AnswerFirst, PartsInLists, ListGoesOn
  <2>5. /\ \A i \in DOMAIN c2s[c] : c2s[c][i].flag # INIT_CONNECT_FLAG
        /\ Parses(Stream(c), pc[c])
    BY <1>4, <1>8 DEF Talk
  <2>6. Parses(Stream(c), pc'[c])
    BY <1>8, <2>3, <2>4, <2>5
  <2>7. Talk(c)'
    BY <2>1, <2>2, <2>3, <2>5, <2>6 DEF Talk
  <2> QED BY <1>1, <2>1, <2>3, <2>7, OwnStepTalks
<1>9. CASE UserStep(c)
  <2>1. Leave(c) => Exit(c)
    BY DEF Leave
  <2>2. ~Leave(c) => /\ UNCHANGED tcpVars
                     /\ pc[c] \in {"chat", "line"}
                     /\ Goto(c, "chat") \/ Goto(c, "line")
    BY <1>9 DEF UserStep, User, SendBroadcast, SendUnicast, SendMulticast,
       SendHandleList, TakeLine, ReadFromStdin, IgnoreLine
  <2> QED BY <1>5, <1>8, <2>1, <2>2
\* A send that returns leaves the PDU at the end of the queue or nowhere.
<1>10. ASSUME NEW pdu, ClientSendReturns(c, pdu)
       PROVE  /\ UNCHANGED <<conn, s2c>>
              /\ \A d \in Clients \ {c} : c2s'[d] = c2s[d]
              /\ \A i \in DOMAIN c2s'[c] :
                   \/ i \in DOMAIN c2s[c] /\ c2s'[c][i] = c2s[c][i]
                   \/ c2s'[c][i] = pdu
  <2>1. /\ UNCHANGED <<conn, s2c>> /\ \A d \in Clients \ {c} : c2s'[d] = c2s[d]
        /\ c2s'[c] = c2s[c] \/ c2s'[c] = Append(c2s[c], pdu)
    BY <1>3, <1>10 DEF ClientSendReturns
  <2>2. c2s[c] \in Seq(ClientPdu)
    BY <1>3
  <2> QED BY <2>1, <2>2, AppendElements
<1>11. CASE InitConnectHandle(c) /\ ~Exit(c)
  <2> DEFINE hello == HandleOnlyPacket(INIT_CONNECT_FLAG, myHandle(c))
  <2>1. /\ pc[c] = "connected" /\ ClientSendReturns(c, hello)
        /\ Goto(c, "wait")
    BY <1>11 DEF InitConnectHandle
  <2>2. hello.flag = INIT_CONNECT_FLAG
    BY DEF HandleOnlyPacket
  <2>3. pc'[c] = "wait" /\ \A d \in Clients \ {c} : pc'[d] = pc[d]
    BY <1>3, <2>1 DEF Goto
  <2>4. c2s[c] = <<>> /\ ~Registered(c)
    <3>1. c2s[c] = <<>> /\ Unheard(c)
      BY <2>1 DEF Live, Handshake
    <3>2. BoundFds \subseteq Fds
      BY SameBindings
    <3> QED BY <3>1, <3>2 DEF Unheard, Registered
  <2> HIDE DEF hello
  <2>5. Stream(c)' = <<>>
    <3>1. Stream(c) = <<>>
      BY <1>4, <2>1 DEF Talk
    <3> QED BY <1>1, <1>10, <2>1, <3>1, StreamStays
  <2>6. \A i \in DOMAIN c2s'[c] : c2s'[c][i].flag = INIT_CONNECT_FLAG
    BY <1>10, <2>1, <2>2, <2>4
  <2>7. ~Registered(c)'
    BY <1>2, <1>10, <2>1, <2>4, SameRegistry
  <2>8. Talk(c)'
    BY <2>3, <2>5, <2>6, <2>7, ParsesNothing DEF Talk
  <2> QED BY <1>1, <1>10, <2>1, <2>3, <2>8, OwnStepTalks
<1>12. CASE SendPDU(c) /\ ~Exit(c)
  <2>1. /\ ClientSendReturns(c, Head(outq[c])) /\ outq[c] # <<>> /\ UNCHANGED pc
    BY <1>12 DEF SendPDU
  <2>2. pc[c] = "chat"
    BY <2>1 DEF Live, LineInChat
  <2>3. Head(outq[c]).flag # INIT_CONNECT_FLAG
    <3>1. outq[c] \in Seq(LinePdu)
      BY <1>3
    <3>2. Head(outq[c]) \in LinePdu
      BY <2>1, <3>1, HeadTailProperties
    <3> QED BY <3>2 DEF LinePdu, TextPdu, INIT_CONNECT_FLAG, HANDLE_LIST_FLAG,
                BROADCAST_FLAG, UNICAST_FLAG, MULTICAST_FLAG
  <2>4. Stream(c)' = Stream(c)
    BY <1>1, <1>10, <2>1, StreamStays
  <2>5. \A i \in DOMAIN c2s'[c] : c2s'[c][i].flag # INIT_CONNECT_FLAG
    BY <1>4, <1>10, <2>1, <2>2, <2>3 DEF Talk
  <2>6. Talk(c)'
    BY <1>4, <2>1, <2>2, <2>4, <2>5 DEF Talk
  <2> QED BY <1>1, <1>10, <2>1, <2>6, OwnStepTalks
\* A PDU is read; s2c[c][1] decides where the program goes.
<1>13. ASSUME ClientRecv(c), pc[c] \in {"wait", "chat", "list"}, pc'[c] \in {"chat", "list"},
              \A d \in Clients \ {c} : pc'[d] = pc[d],
              pc'[c] = "list" <=>
                Head(s2c[c]).flag \in {HANDLE_LIST_RESP_FLAG, HANDLE_ITEM_FLAG}
       PROVE  Talks'
  <2>1. /\ Stream(c) \in Seq(ServerPdu) /\ Stream(c) # <<>>
        /\ Head(s2c[c]) = Stream(c)[1] /\ Stream(c)' = Tail(Stream(c))
    BY <1>1, <1>13, ReadStream
  <2>2. Parses(Stream(c), pc[c])
    BY <1>4, <1>13 DEF Talk
  <2>3. \A i \in DOMAIN c2s[c] : c2s[c][i].flag # INIT_CONNECT_FLAG
    BY <1>4, <1>13, <2>1 DEF Talk
  <2>4. /\ UNCHANGED <<conn, c2s>> /\ \A d \in Clients \ {c} : s2c'[d] = s2c[d]
    BY <1>3, <1>13 DEF ClientRecv
  <2>5. Parses(Tail(Stream(c)), pc'[c])
    BY <1>13, <2>1, <2>2, ParsesTail
  <2>6. Talk(c)'
    BY <1>13, <2>1, <2>3, <2>4, <2>5 DEF Talk
  <2> QED BY <1>1, <1>13, <2>4, <2>6, OwnStepTalks
<1>14. ClientRecv(c) /\ pc[c] \in {"chat", "list"} =>
         /\ Head(s2c[c]) = Stream(c)[1] /\ 1 \in DOMAIN Stream(c)
         /\ Parses(Stream(c), pc[c])
  BY <1>1, <1>4, ReadStream DEF Talk
<1>15. CASE RecvConnectAnswer(c) /\ ~Exit(c)
  <2>1. /\ pc[c] = "wait" /\ ClientRecv(c) /\ Goto(c, "chat")
        /\ Head(s2c[c]).flag = GOOD_CONNECT_FLAG
    BY <1>15 DEF RecvConnectAnswer
  <2>2. pc'[c] = "chat" /\ \A d \in Clients \ {c} : pc'[d] = pc[d]
    BY <1>3, <2>1 DEF Goto
  <2> QED BY <1>13, <2>1, <2>2
          DEF GOOD_CONNECT_FLAG, HANDLE_LIST_RESP_FLAG, HANDLE_ITEM_FLAG
<1>16. CASE ProcessMsgFromServer(c) /\ ~Exit(c)
  <2>1. /\ pc[c] = "chat" /\ ClientRecv(c)
        /\ IF Head(s2c[c]).flag = HANDLE_LIST_RESP_FLAG THEN Goto(c, "list") ELSE UNCHANGED pc
    BY <1>16 DEF ProcessMsgFromServer
  <2>2. Head(s2c[c]).flag # HANDLE_ITEM_FLAG
    BY <1>14, <2>1 DEF Parses, PartsInLists, ListParts
  <2>3. /\ pc'[c] = IF Head(s2c[c]).flag = HANDLE_LIST_RESP_FLAG THEN "list" ELSE "chat"
        /\ \A d \in Clients \ {c} : pc'[d] = pc[d]
    BY <1>3, <2>1 DEF Goto
  <2> QED BY <1>13, <2>1, <2>2, <2>3
<1>17. CASE FlagListBegin(c) /\ ~Exit(c)
  <2>1. /\ pc[c] = "list" /\ ClientRecv(c)
        /\ IF Head(s2c[c]).flag = HANDLE_ITEM_FLAG THEN UNCHANGED pc ELSE Goto(c, "chat")
    BY <1>17 DEF FlagListBegin
  <2>2. Head(s2c[c]).flag # HANDLE_LIST_RESP_FLAG
    BY <1>14, <2>1 DEF Parses, ListGoesOn, ListParts, HANDLE_LIST_RESP_FLAG,
                       HANDLE_ITEM_FLAG, HANDLE_FINISH_FLAG
  <2>3. /\ pc'[c] = IF Head(s2c[c]).flag = HANDLE_ITEM_FLAG THEN "list" ELSE "chat"
        /\ \A d \in Clients \ {c} : pc'[d] = pc[d]
    BY <1>3, <2>1 DEF Goto
  <2> QED BY <1>13, <2>1, <2>2, <2>3
<1> QED BY <1>5, <1>6, <1>7, <1>9, <1>11, <1>12, <1>15, <1>16, <1>17
        DEF ProgramStep, Program

------------------------------------------------------------------------------
(* The steps of the server. *)

\* What a handler leaves to be sent to d, if anything, comes from a send to d.
LEMMA PendingElements ==
  ASSUME NEW todo \in Seq(Sends), NEW d
  PROVE  /\ PendingOf(todo, d) \in Seq(ServerPdu)
         /\ \A k \in DOMAIN PendingOf(todo, d) :
              \E i \in Mine(todo, d) : PendingOf(todo, d)[k] = todo[i].pdu
<1> PICK n, f :
       /\ n \in Nat
       /\ Numbers(f, n, Mine(todo, d))
       /\ PendingOf(todo, d) = [k \in 1 .. n |-> todo[f[k]].pdu]
       /\ PendingOf(todo, d) \in Seq(ServerPdu)
  BY PendingEnumerates
<1>1. \A k \in 1 .. n : f[k] \in Mine(todo, d)
  BY DEF Numbers
<1>2. DOMAIN PendingOf(todo, d) = 1 .. n
  OBVIOUS
<1>3. \A k \in 1 .. n : PendingOf(todo, d)[k] = todo[f[k]].pdu
  OBVIOUS
<1> QED BY <1>1, <1>2, <1>3

\* A handler that changes no table: whoever is sent something can parse it, and
\* has been let in.
LEMMA ServiceTalks ==
  ASSUME Typed, Typed', Live, Talks, NEW fd \in Fds, NEW flag, Received(fd, flag),
         flag # INIT_CONNECT_FLAG, NEW todo \in Seq(Sends),
         \A d \in Clients :
           \/ PendingOf(todo, d) = <<>>
           \/ Parses(PendingOf(todo, d), "chat") /\ (d = conn[fd] \/ Registered(d)),
         job' = Job(fd, todo, FALSE),
         UNCHANGED <<alive, polled, tableVars>>, UNCHANGED clientVars
  PROVE  Talks'
<1> DEFINE c == conn[fd]
<1>1. /\ c2s' = [c2s EXCEPT ![c] = Tail(@)] /\ c2s[c] # <<>>
      /\ conn' = conn /\ s2c' = s2c /\ pc' = pc /\ fd \in OpenFds
  BY DEF Received, ServerRecv, clientVars
<1>2. c \in Clients /\ c2s[c][1].flag = flag /\ job.todo = <<>>
  BY ReceivedTyped DEF NoJob
<1>3. /\ c2s \in [Clients -> Seq(ClientPdu)] /\ s2c \in [Clients -> Seq(ServerPdu)]
  BY DEF Typed, TcpTyped
<1> SUFFICES ASSUME NEW d \in Clients PROVE Talk(d)'
  BY DEF Talks
<1>4. Talk(d) /\ s2c[d] \in Seq(ServerPdu)
  BY <1>3 DEF Talks
<1>5. job'.todo = todo
  BY DEF Job, NoJob
<1>6. PendingOf(todo, d) \in Seq(ServerPdu)
  BY PendingElements
<1>7. Stream(d) = s2c[d] /\ Stream(d)' = s2c[d] \o PendingOf(todo, d)
  BY <1>1, <1>2, <1>5, IdleStreams, StreamIs
<1>8. Registered(d)' <=> Registered(d)
  <2>1. HT!Bindings' = HT!Bindings
    BY BindingsChange
  <2> QED BY <1>1, <2>1, SameRegistry
<1>9. \A i \in DOMAIN c2s'[d] : \E j \in DOMAIN c2s[d] : c2s'[d][i] = c2s[d][j]
  <2>1. CASE d = c
    <3>1. c2s'[d] = Tail(c2s[d]) /\ c2s[d] # <<>> /\ c2s[d] \in Seq(ClientPdu)
      BY <1>1, <1>3, <2>1
    <3>2. \A i \in DOMAIN Tail(c2s[d]) :
            i + 1 \in DOMAIN c2s[d] /\ Tail(c2s[d])[i] = c2s[d][i + 1]
      BY <3>1, TailElements
    <3> QED BY <3>1, <3>2
  <2>2. CASE d # c
    BY <1>1, <1>3, <2>2
  <2> QED BY <2>1, <2>2
<1>10. d = c => pc[d] \in {"chat", "line", "list", "gone"}
  <2>1. ASSUME d = c PROVE 1 \in DOMAIN c2s[c]
    <3>1. c2s[c] \in Seq(ClientPdu) /\ c2s[c] # <<>>
      BY <1>1, <1>2, <1>3
    <3> QED BY <3>1
  <2>2. ASSUME d = c PROVE pc[d] \notin {"start", "connected"}
    BY <1>1, <2>2 DEF Live, Handshake
  <2> QED BY <1>2, <1>4, <2>1, <2>2 DEF Talk
<1>11. d # c => c2s'[d] = c2s[d]
  BY <1>1, <1>3
<1>12. Registered(d) => pc[d] \notin {"start", "connected"} /\ (pc[d] = "wait" => c2s[d] = <<>>)
  <2> SUFFICES ASSUME Registered(d)
               PROVE  pc[d] \notin {"start", "connected"} /\ (pc[d] = "wait" => c2s[d] = <<>>)
    OBVIOUS
  <2>1. ~Unheard(d)
    BY SameBindings DEF Registered, Unheard
  <2>2. pc[d] \notin {"start", "connected"}
    BY <2>1 DEF Live, Handshake
  <2>3. \A i \in DOMAIN c2s[d] : c2s[d][i].flag # INIT_CONNECT_FLAG
    BY <2>1 DEF Live, Handshake
  <2>4. ASSUME pc[d] = "wait" PROVE c2s[d] = <<>>
    <3>1. c2s[d] \in Seq(ClientPdu)
      BY <1>3
    <3>2. c2s[d] # <<>> => 1 \in DOMAIN c2s[d]
      BY <3>1
    <3> QED BY <1>4, <2>3, <2>4, <3>2 DEF Talk
  <2> QED BY <2>2, <2>4
<1> HIDE DEF c
<1>13. CASE PendingOf(todo, d) = <<>>
  <2>1. Stream(d)' = Stream(d)
    BY <1>4, <1>7, <1>13
  <2> QED BY <1>1, <1>4, <1>8, <1>9, <1>10, <1>11, <2>1 DEF Talk
<1>14. CASE /\ PendingOf(todo, d) # <<>>
            /\ Parses(PendingOf(todo, d), "chat") /\ (d = c \/ Registered(d))
  <2>1. pc[d] \notin {"start", "connected"} /\ (pc[d] = "wait" => Registered(d))
    BY <1>10, <1>12, <1>14
  <2>2. Stream(d)' # <<>>
    BY <1>4, <1>6, <1>7, <1>14
  <2>3. pc[d] = "wait" => /\ Stream(d) # <<>> /\ Parses(Stream(d), "wait")
                          /\ c2s[d] = <<>> /\ d # c
    BY <1>4, <1>10, <1>12, <2>1 DEF Talk
  <2>4. ASSUME pc[d] \in {"wait", "chat", "line", "list"}
        PROVE  Parses(Stream(d)', pc[d])
    <3>1. Parses(Stream(d), pc[d])
      BY <1>4, <2>4 DEF Talk
    <3>2. pc[d] \in {"connected", "wait"} => s2c[d] # <<>>
      BY <1>7, <2>3, <2>4
    <3> QED BY <1>4, <1>6, <1>7, <1>14, <3>1, <3>2, ParsesConcat
  <2>5. CASE pc[d] = "wait"
    BY <1>1, <1>11, <2>2, <2>3, <2>4, <2>5 DEF Talk
  <2>6. CASE pc[d] \in {"chat", "line", "list"}
    BY <1>1, <1>4, <1>9, <2>4, <2>6 DEF Talk
  <2>7. CASE pc[d] = "gone"
    BY <1>1, <2>7 DEF Talk
  <2> QED BY <1>4, <2>1, <2>5, <2>6, <2>7 DEF Talk
<1> QED BY <1>13, <1>14 DEF c

\* Texts, and flag 7 for those who sent them.
LEMMA TextSends ==
  ASSUME Typed, NEW fd \in Fds, NEW todo \in Seq(Sends),
         \A i \in DOMAIN todo : /\ todo[i].pdu.flag \in TextFlags \cup {HANDLE_ERR_FLAG}
                                /\ todo[i].sock = fd \/ todo[i].sock \in BoundFds,
         NEW d \in Clients
  PROVE  \/ PendingOf(todo, d) = <<>>
         \/ Parses(PendingOf(todo, d), "chat") /\ (d = conn[fd] \/ Registered(d))
<1>1. CASE Mine(todo, d) = {}
  BY <1>1, PendingNone
<1>2. CASE Mine(todo, d) # {}
  <2>1. PICK i \in Mine(todo, d) : TRUE
    BY <1>2
  <2>2. d = conn[fd] \/ Registered(d)
    BY <2>1 DEF Mine, Registered
  <2>3. \A k \in DOMAIN PendingOf(todo, d) :
          PendingOf(todo, d)[k].flag \in TextFlags \cup {HANDLE_ERR_FLAG}
    BY PendingElements DEF Mine
  <2> QED BY <2>2, <2>3, ParsesTexts
<1> QED BY <1>1, <1>2

LEMMA BroadcastTalks ==
  ASSUME Typed, Typed', Live, Talks, NEW fd \in Fds, FlagBroadcast(fd), UNCHANGED clientVars
  PROVE  Talks'
<1> DEFINE pdu == Pdu(fd)
           todo == BroadcastSends(fd, pdu)
           others == {i \in HT!ValidSlots : SocketAt(i) # fd}
<1>1. Received(fd, BROADCAST_FLAG) /\ job' = Job(fd, todo, FALSE)
  BY DEF FlagBroadcast
<1>2. pdu \in ServerPdu /\ pdu.flag = BROADCAST_FLAG
  BY <1>1, ReceivedTyped, PduKinds DEF TextFlags
<1> HIDE DEF pdu
<1>3. /\ todo \in Seq(Sends) /\ Len(todo) = Cardinality(others)
      /\ \A k \in 1 .. Cardinality(others) :
           InOrder(others)[k] \in others /\ todo[k] = Send(SocketAt(InOrder(others)[k]), pdu)
  BY <1>2, BroadcastTyped
<1> HIDE DEF todo
<1>4. \A i \in others : SocketAt(i) \in BoundFds
  <2> SUFFICES ASSUME NEW i \in others PROVE SocketAt(i) \in BoundFds
    OBVIOUS
  <2>1. <<HandleAt(i), SocketAt(i)>> \in HT!Bindings
    BY SameBindings
  <2>2. <<HandleAt(i), SocketAt(i)>>[2] = SocketAt(i)
    OBVIOUS
  <2> QED BY <2>1, <2>2 DEF BoundFds
<1> HIDE DEF others
<1>5. \A k \in DOMAIN todo : todo[k].sock \in BoundFds /\ todo[k].pdu = pdu
  <2>1. DOMAIN todo = 1 .. Cardinality(others)
    BY <1>3
  <2> QED BY <1>3, <1>4, <2>1 DEF Send
<1>6. \A d \in Clients :
        \/ PendingOf(todo, d) = <<>>
        \/ Parses(PendingOf(todo, d), "chat") /\ (d = conn[fd] \/ Registered(d))
  <2>1. pdu.flag \in TextFlags \cup {HANDLE_ERR_FLAG}
    BY <1>2 DEF TextFlags
  <2> QED BY <1>3, <1>5, <2>1, TextSends
<1>7. BROADCAST_FLAG # INIT_CONNECT_FLAG
  BY DEF BROADCAST_FLAG, INIT_CONNECT_FLAG
<1> QED BY <1>1, <1>3, <1>6, <1>7, ServiceTalks DEF FlagBroadcast

LEMMA ForwardTalks ==
  ASSUME Typed, Typed', Live, Talks, NEW fd \in Fds, FlagUnicast(fd) \/ FlagMulticast(fd),
         UNCHANGED clientVars
  PROVE  Talks'
<1> DEFINE pdu == Pdu(fd)
           todo == Forward(fd, pdu)
<1>1. PICK flag \in {UNICAST_FLAG, MULTICAST_FLAG} :
        Received(fd, flag) /\ job' = Job(fd, todo, FALSE)
  BY DEF FlagUnicast, FlagMulticast
<1>2. pdu \in TextPdu /\ pdu.flag = flag
  BY <1>1, ReceivedTyped, PduKinds DEF TextFlags
<1> HIDE DEF pdu
<1>3. /\ todo \in Seq(Sends) /\ Len(todo) = Len(pdu.dsts)
      /\ \A k \in 1 .. Len(pdu.dsts) : todo[k] = ForwardTo(fd, pdu, pdu.dsts[k])
  BY <1>2, ForwardTyped
<1> HIDE DEF todo
<1>4. \A name : LET s == ForwardTo(fd, pdu, name)
                IN /\ s.pdu.flag \in TextFlags \cup {HANDLE_ERR_FLAG}
                   /\ s.sock = fd \/ s.sock \in BoundFds
  <2> SUFFICES ASSUME NEW name
               PROVE  /\ ForwardTo(fd, pdu, name).pdu.flag \in TextFlags \cup {HANDLE_ERR_FLAG}
                      /\ \/ ForwardTo(fd, pdu, name).sock = fd
                         \/ ForwardTo(fd, pdu, name).sock \in BoundFds
    OBVIOUS
  <2>1. CASE HT!LookupSocket(name) # -1
    <3> DEFINE g == HT!LookupSocket(name)
    <3>1. <<name, g>> \in HT!Bindings /\ <<name, g>>[2] = g
      BY <2>1, LookupFindsBinding
    <3>2. ForwardTo(fd, pdu, name) = Send(g, pdu)
      BY <2>1 DEF ForwardTo
    <3> HIDE DEF g
    <3>3. g \in BoundFds
      BY <3>1 DEF BoundFds
    <3> QED BY <1>1, <1>2, <3>2, <3>3 DEF Send, TextFlags
  <2>2. CASE HT!LookupSocket(name) = -1
    <3>1. ForwardTo(fd, pdu, name) = Send(fd, HandleOnlyPacket(HANDLE_ERR_FLAG, name))
      BY <2>2 DEF ForwardTo
    <3> QED BY <3>1 DEF Send, HandleOnlyPacket
  <2> QED BY <2>1, <2>2
<1>5. \A k \in DOMAIN todo : /\ todo[k].pdu.flag \in TextFlags \cup {HANDLE_ERR_FLAG}
                             /\ todo[k].sock = fd \/ todo[k].sock \in BoundFds
  <2>1. DOMAIN todo = 1 .. Len(pdu.dsts)
    BY <1>3
  <2> QED BY <1>3, <1>4, <2>1
<1>6. \A d \in Clients :
        \/ PendingOf(todo, d) = <<>>
        \/ Parses(PendingOf(todo, d), "chat") /\ (d = conn[fd] \/ Registered(d))
  BY <1>3, <1>5, TextSends
<1>7. flag # INIT_CONNECT_FLAG
  BY DEF UNICAST_FLAG, MULTICAST_FLAG, INIT_CONNECT_FLAG
<1> QED BY <1>1, <1>3, <1>6, <1>7, ServiceTalks DEF FlagUnicast, FlagMulticast

\* The count that is announced is the number of items that follow: getHandleCount
\* and the loop over the table agree.
LEMMA ListSends ==
  ASSUME Typed, NEW fd \in Fds, NEW d \in Clients
  PROVE  LET todo == HandleListSends(fd)
         IN /\ todo \in Seq(Sends)
            /\ \/ PendingOf(todo, d) = <<>>
               \/ Parses(PendingOf(todo, d), "chat") /\ d = conn[fd]
<1> DEFINE todo == HandleListSends(fd)
           n == Cardinality(HT!ValidSlots)
<1>1. /\ n \in Nat /\ todo \in Seq(Sends) /\ Len(todo) = n + 2
      /\ todo[1] = Send(fd, ListCountPacket(tableCount))
      /\ \A i \in 1 .. n : todo[i + 1] =
           Send(fd, HandleOnlyPacket(HANDLE_ITEM_FLAG, HandleAt(Walk[i])))
      /\ todo[n + 2] = Send(fd, ChatHeaderPacket(HANDLE_FINISH_FLAG))
  BY HandleListElements
<1>2. tableCount = n
  <2>1. HTP!CountExact /\ HTP!ValidSlots = HT!ValidSlots
    BY SameTable DEF Typed, ServerTyped, HTP!IInv
  <2>2. \A S : HTP!Cardinality(S) = Cardinality(S)
    BY DEF HTP!Cardinality, Cardinality
  <2> QED BY <2>1, <2>2 DEF HTP!CountExact
<1> HIDE DEF todo, n
<1>3. /\ todo[1].pdu.flag = HANDLE_LIST_RESP_FLAG /\ todo[1].pdu.count = n /\ todo[1].sock = fd
      /\ \A i \in 1 .. n : todo[i + 1].pdu.flag = HANDLE_ITEM_FLAG /\ todo[i + 1].sock = fd
      /\ todo[n + 2].pdu.flag = HANDLE_FINISH_FLAG /\ todo[n + 2].sock = fd
  <2>1. todo[1].pdu.flag = HANDLE_LIST_RESP_FLAG /\ todo[1].pdu.count = n /\ todo[1].sock = fd
    BY <1>1, <1>2 DEF Send, ListCountPacket
  <2>2. \A i \in 1 .. n : todo[i + 1].pdu.flag = HANDLE_ITEM_FLAG /\ todo[i + 1].sock = fd
    <3>1. \A name : LET s == Send(fd, HandleOnlyPacket(HANDLE_ITEM_FLAG, name))
                    IN s.pdu.flag = HANDLE_ITEM_FLAG /\ s.sock = fd
      BY DEF Send, HandleOnlyPacket
    <3> QED BY <1>1, <3>1
  <2>3. todo[n + 2].pdu.flag = HANDLE_FINISH_FLAG /\ todo[n + 2].sock = fd
    BY <1>1 DEF Send, ChatHeaderPacket
  <2> QED BY <2>1, <2>2, <2>3
<1>4. DOMAIN todo = 1 .. n + 2
  BY <1>1
<1>5. \A i \in 1 .. n + 2 : todo[i].sock = fd
  <2> SUFFICES ASSUME NEW i \in 1 .. n + 2, i # 1, i # n + 2
               PROVE  todo[i].sock = fd
    BY <1>3
  <2>1. PICK j \in 1 .. n : i = j + 1
    <3>1. i - 1 \in 1 .. n /\ i = (i - 1) + 1
      BY <1>1
    <3> QED BY <3>1
  <2> QED BY <1>3, <2>1
<1>6. CASE d = conn[fd]
  <2>1. Mine(todo, d) = DOMAIN todo
    BY <1>4, <1>5, <1>6 DEF Mine
  <2> DEFINE t == PendingOf(todo, d)
  <2>2. t = [i \in 1 .. n + 2 |-> todo[i].pdu] /\ t \in Seq(ServerPdu)
    BY <1>1, <2>1, PendingAll, PendingElements
  <2> HIDE DEF t
  <2>3. \A i \in 1 .. n + 2 : t[i] = todo[i].pdu
    BY <2>2
  <2>4. Len(t) = n + 2
    <3>1. DOMAIN t = 1 .. n + 2
      BY <2>2
    <3> QED BY <1>1, <2>2, <3>1
  <2>5. \A i \in 1 .. n : i + 1 \in 1 .. n + 2
    BY <1>1
  <2>6. 1 \in 1 .. n + 2 /\ n + 2 \in 1 .. n + 2
    BY <1>1
  <2>7. /\ t[1].flag = HANDLE_LIST_RESP_FLAG /\ t[1].count = n
        /\ \A i \in 1 .. n : t[i + 1].flag = HANDLE_ITEM_FLAG
        /\ t[n + 2].flag = HANDLE_FINISH_FLAG
    BY <1>3, <2>3, <2>5, <2>6
  <2>8. Parses(t, "chat")
    BY <1>1, <2>2, <2>4, <2>7, ParsesList
  <2> QED BY <1>1, <1>6, <2>8 DEF t, todo
<1>7. CASE d # conn[fd]
  <2>1. Mine(todo, d) = {}
    BY <1>4, <1>5, <1>7 DEF Mine
  <2>2. PendingOf(todo, d) = <<>>
    BY <1>1, <2>1, PendingNone
  <2> QED BY <1>1, <2>2 DEF todo
<1> QED BY <1>6, <1>7

LEMMA HandleListTalks ==
  ASSUME Typed, Typed', Live, Talks, NEW fd \in Fds, FlagHandleList(fd), UNCHANGED clientVars
  PROVE  Talks'
<1> DEFINE todo == HandleListSends(fd)
<1>1. /\ Received(fd, HANDLE_LIST_FLAG) /\ job' = Job(fd, todo, FALSE)
      /\ UNCHANGED <<alive, polled, tableVars>>
  BY DEF FlagHandleList
<1>2. /\ todo \in Seq(Sends)
      /\ \A d \in Clients :
           \/ PendingOf(todo, d) = <<>>
           \/ Parses(PendingOf(todo, d), "chat") /\ (d = conn[fd] \/ Registered(d))
  BY HandleListTyped, ListSends
<1>3. HANDLE_LIST_FLAG # INIT_CONNECT_FLAG
  BY DEF HANDLE_LIST_FLAG, INIT_CONNECT_FLAG
<1> HIDE DEF todo
<1> QED BY <1>1, <1>2, <1>3, ServiceTalks

\* flagConnect answers a client that has nothing else to read, once.
LEMMA FlagConnectTalks ==
  ASSUME Typed, Typed', Live, Talks, NEW fd \in Fds, FlagConnect(fd), UNCHANGED clientVars
  PROVE  Talks'
<1> DEFINE c == conn[fd]
<1>1. /\ Received(fd, INIT_CONNECT_FLAG) /\ conn' = conn /\ s2c' = s2c /\ pc' = pc
      /\ c2s' = [c2s EXCEPT ![c] = Tail(@)]
  BY DEF FlagConnect, Received, ServerRecv, clientVars
<1>2. /\ c \in Clients /\ c2s[c] # <<>> /\ c2s[c][1].flag = INIT_CONNECT_FLAG
      /\ job.todo = <<>>
  BY <1>1, ReceivedTyped DEF NoJob
<1>3. /\ c2s \in [Clients -> Seq(ClientPdu)] /\ s2c \in [Clients -> Seq(ServerPdu)]
      /\ c2s' \in [Clients -> Seq(ClientPdu)]
  BY DEF Typed, TcpTyped
\* One send, to fd, of flag 2 or 3.
<1>4. PICK p : /\ p.flag \in Answers
               /\ job'.todo = <<Send(fd, p)>> /\ Send(fd, p) \in Sends
  <2>1. \E flag \in Answers : job'.todo = <<Send(fd, ChatHeaderPacket(flag))>>
    BY DEF FlagConnect, Job, NoJob, Answers
  <2>2. \A flag \in Answers : /\ ChatHeaderPacket(flag).flag = flag
                              /\ Send(fd, ChatHeaderPacket(flag)) \in Sends
    BY AnswersTyped DEF ChatHeaderPacket, Send, Sends, Answers
  <2> QED BY <2>1, <2>2
<1>5. BoundFds' \subseteq BoundFds \cup {fd}
  <2>1. \/ HT!Bindings' = HT!Bindings
        \/ \E name : HT!Bindings' = HT!Bindings \cup {<<name, fd>>}
    BY BindingsChange DEF FlagConnect, HT!RejectHandle, HT!vars, tableVars
  <2>2. \A name : <<name, fd>>[2] = fd
    OBVIOUS
  <2> QED BY <2>1, <2>2 DEF BoundFds
<1>6. \A d \in Clients : Registered(d)' => Registered(d) \/ d = c
  BY <1>1, <1>5 DEF Registered
<1> SUFFICES ASSUME NEW d \in Clients PROVE Talk(d)'
  BY DEF Talks
<1>7. Talk(d) /\ s2c[d] \in Seq(ServerPdu)
  BY <1>3 DEF Talks
<1>8. Stream(d) = s2c[d] /\ Stream(d)' = s2c[d] \o PendingOf(<<Send(fd, p)>>, d)
  BY <1>1, <1>2, <1>4, IdleStreams, StreamIs
<1>9. <<Send(fd, p)>> \in Seq(Sends) /\ DOMAIN <<Send(fd, p)>> = {1}
      /\ <<Send(fd, p)>>[1].sock = fd /\ <<Send(fd, p)>>[1].pdu = p
      /\ Len(<<Send(fd, p)>>) = 1
  BY <1>4 DEF Send
<1>10. CASE d # c
  <2>1. Mine(<<Send(fd, p)>>, d) = {}
    BY <1>9, <1>10 DEF Mine
  <2>2. PendingOf(<<Send(fd, p)>>, d) = <<>>
    BY <1>9, <2>1, PendingNone
  <2>3. Stream(d)' = Stream(d)
    BY <1>7, <1>8, <2>2
  <2>4. pc'[d] = pc[d] /\ c2s'[d] = c2s[d]
    BY <1>1, <1>3, <1>10
  <2>5. Registered(d)' => Registered(d)
    BY <1>6, <1>10
  <2> QED BY <1>7, <2>3, <2>4, <2>5, TalkKept
<1>11. CASE d = c
  <2> DEFINE sends == <<Send(fd, p)>>
  <2>1. Mine(sends, d) = DOMAIN sends
    BY <1>9, <1>11 DEF Mine
  <2>2. PendingOf(sends, d) = [i \in 1 .. 1 |-> sends[i].pdu]
    BY <1>9, <2>1, PendingAll
  <2>3. PendingOf(sends, d) = <<p>>
    BY <1>9, <2>2
  <2>4. /\ c2s[d] \in Seq(ClientPdu) /\ c2s[d] # <<>> /\ c2s[d][1].flag = INIT_CONNECT_FLAG
        /\ c2s'[d] = Tail(c2s[d])
    BY <1>1, <1>2, <1>3, <1>11
  <2>5. 1 \in DOMAIN c2s[d]
    BY <2>4
  <2>6. pc[d] \in {"wait", "gone"}
    <3>1. pc[d] \notin {"start", "connected"}
      BY <2>4 DEF Live, Handshake
    <3> QED BY <1>7, <2>4, <2>5, <3>1 DEF Talk
  <2>7. CASE pc[d] = "wait"
    <3>1. /\ \A i \in DOMAIN c2s[d] : c2s[d][i].flag = INIT_CONNECT_FLAG
          /\ Stream(d) = <<>>
      BY <1>7, <2>4, <2>7 DEF Talk
    <3>2. \A i \in DOMAIN c2s[d] : i = 1
      BY <3>1 DEF Live, Handshake
    <3>3. c2s'[d] = <<>>
      <4>1. DOMAIN c2s[d] = 1 .. Len(c2s[d]) /\ Len(c2s[d]) \in Nat \ {0}
        BY <2>4
      <4>2. Len(c2s[d]) \in DOMAIN c2s[d]
        BY <4>1
      <4>3. Len(c2s[d]) = 1
        BY <3>2, <4>2
      <4>4. Len(c2s'[d]) = 0 /\ c2s'[d] \in Seq(ClientPdu)
        BY <1>3, <2>4, <4>3, TailElements
      <4> QED BY <4>4, EmptySeq
    <3>4. Stream(d)' = <<p>>
      BY <1>8, <2>3, <3>1
    <3>5. Parses(Stream(d)', "wait") /\ Stream(d)' # <<>>
      BY <1>4, <3>4, ParsesAnswer
    <3>6. DOMAIN c2s'[d] = {}
      BY <3>3
    <3> QED BY <1>1, <2>7, <3>3, <3>5, <3>6 DEF Talk
  <2>8. CASE pc[d] = "gone"
    BY <1>1, <2>8 DEF Talk
  <2> QED BY <2>6, <2>7, <2>8
<1> QED BY <1>10, <1>11

LEMMA AddNewClientTalks ==
  ASSUME Typed, Typed', Live, Talks, NEW fd \in Fds, AddNewClient(fd), UNCHANGED clientVars
  PROVE  Talks'
<1>1. /\ conn' = [conn EXCEPT ![fd] = Head(backlog)] /\ fd \notin OpenFds
      /\ UNCHANGED <<c2s, s2c, pc, job>> /\ job.todo = <<>>
      /\ HT!Bindings' = HT!Bindings /\ conn \in [Fds -> Clients \cup {NoClient}]
  BY BindingsChange, IdleServer DEF AddNewClient, AcceptCall, clientVars, Typed, TcpTyped
<1>2. BoundFds' = BoundFds /\ \A g \in BoundFds : g \in OpenFds
  BY <1>1 DEF BoundFds, Live, EntriesLive
<1>3. \A g \in BoundFds : conn'[g] = conn[g]
  BY <1>1, <1>2 DEF OpenFds
<1> SUFFICES ASSUME NEW d \in Clients PROVE Talk(d)'
  BY DEF Talks
<1>4. Stream(d)' = Stream(d)
  BY <1>1, IdleStreams
<1>5. Registered(d)' => Registered(d)
  BY <1>2, <1>3 DEF Registered
<1> QED BY <1>1, <1>4, <1>5, TalkKept DEF Talks

\* The end of a connection: a running client keeps what is on its way to it.
LEMMA CloseTalks ==
  ASSUME Typed, Typed', Live, Ends, Talks, NEW fd \in OpenFds, ServerClose(fd),
         job.todo = <<>>, job' = NoJob, UNCHANGED clientVars, BoundFds' \subseteq BoundFds
  PROVE  Talks'
<1> DEFINE c == conn[fd]
<1>1. /\ c \in Clients /\ c # NoClient /\ fd \in Fds
      /\ conn \in [Fds -> Clients \cup {NoClient}]
  BY TcpAssumption DEF OpenFds, Typed, TcpTyped
<1>2. /\ CloseServerEnds({c}) /\ conn' = [conn EXCEPT ![fd] = NoClient] /\ pc' = pc
      /\ job'.todo = <<>> /\ cliEnd[c] # "none"
  BY DEF ServerClose, clientVars, NoJob, Ends
<1> HIDE DEF c
<1>3. \A g \in Fds, d \in Clients : conn'[g] = d => conn[g] = d
  BY <1>1, <1>2, TcpAssumption
<1> SUFFICES ASSUME NEW d \in Clients PROVE Talk(d)'
  BY DEF Talks
<1>4. CASE pc[d] = "gone"
  BY <1>2, <1>4 DEF Talk
<1>5. CASE pc[d] # "gone"
  <2>1. d = c => cliEnd[d] = "open"
    BY <1>1, <1>2, <1>5 DEF Live, ClosedAreGone, Typed, TcpTyped
  <2>2. s2c'[d] = s2c[d] /\ c2s'[d] \in {c2s[d], <<>>}
    BY <1>2, <2>1 DEF CloseServerEnds
  <2>3. Stream(d)' = Stream(d)
    BY <1>2, <2>2, IdleStreams
  <2>4. Registered(d)' => Registered(d)
    <3>1. BoundFds \subseteq Fds
      BY SameBindings
    <3> QED BY <1>3, <3>1 DEF Registered
  <2> QED BY <1>2, <2>2, <2>3, <2>4, TalkKept DEF Talks
<1> QED BY <1>4, <1>5

LEMMA SendNextTalks ==
  ASSUME Typed, Typed', Talks, SendNext, UNCHANGED clientVars
  PROVE  Talks'
<1>1. UNCHANGED <<pc, c2s, conn>> /\ HT!Bindings' = HT!Bindings
  BY BindingsChange DEF SendNext, ServerSendReturns, clientVars
<1> SUFFICES ASSUME NEW d \in Clients PROVE Talk(d)'
  BY DEF Talks
<1>2. Registered(d)' => Registered(d)
  BY <1>1, SameRegistry
<1>3. Stream(d)' = Stream(d)
  BY StreamKept
<1> QED BY <1>1, <1>2, <1>3, TalkKept DEF Talks

LEMMA ServerTalks ==
  ASSUME Typed, Typed', Live, Ends, Talks, ServerStep, alive'
  PROVE  Talks'
<1>1. UNCHANGED clientVars /\ ~ServerDies
  BY DEF ServerStep, ServerDies
<1>2. ASSUME NEW fd \in Fds, Disconnect(fd)
      PROVE  Talks'
  <2>1. /\ fd \in OpenFds /\ ServerClose(fd) /\ job.todo = <<>> /\ job' = NoJob
    BY <1>2, IdleServer DEF Disconnect, ServerEof, Polling
  <2>2. BoundFds' \subseteq BoundFds
    <3>1. HT!Bindings' = {entry \in HT!Bindings : entry[2] # fd}
      BY <1>2, BindingsChange DEF Disconnect
    <3> QED BY <3>1 DEF BoundFds
  <2> QED BY <1>1, <2>1, <2>2, CloseTalks
<1>3. CASE CloseRejected
  <2>1. /\ job.fd \in OpenFds /\ ServerClose(job.fd) /\ job.todo = <<>> /\ job' = NoJob
    BY <1>3 DEF CloseRejected, Live, JobGood
  <2>2. BoundFds' \subseteq BoundFds
    <3>1. HT!Bindings' = HT!Bindings
      BY <1>3, BindingsChange DEF CloseRejected
    <3> QED BY <3>1 DEF BoundFds
  <2> QED BY <1>1, <2>1, <2>2, CloseTalks
<1> QED BY <1>1, <1>2, <1>3, SendNextTalks, AddNewClientTalks, FlagConnectTalks,
           BroadcastTalks, ForwardTalks, HandleListTalks
        DEF ServerStep, ServerNext, AcceptExits, SendKillsServer

------------------------------------------------------------------------------
(* The server's end of every connection lasts until close(). *)

LEMMA EndsKept ==
  ASSUME Typed, Typed', Live, Ends, [Next]_vars, alive'
  PROVE  Ends'
<1>1. /\ conn \in [Fds -> Clients \cup {NoClient}] /\ backlog \in Seq(Clients)
      /\ cliEnd \in [Clients -> {"none", "open", "closed", "reset"}]
  BY DEF Typed, TcpTyped
<1>2. ASSUME UNCHANGED <<conn, backlog>>,
             \A d \in Clients : cliEnd[d] # "none" => cliEnd'[d] # "none"
      PROVE  Ends'
  <2>1. OpenFds' = OpenFds /\ \A fd \in OpenFds : conn[fd] \in Clients
    BY <1>1, <1>2 DEF OpenFds
  <2>2. \A i \in DOMAIN backlog : backlog[i] \in Clients
    BY <1>1
  <2> QED BY <1>2, <2>1, <2>2 DEF Ends
<1>3. ASSUME NEW c \in Clients, Exit(c)
      PROVE  Ends'
  <2>1. /\ UNCHANGED <<conn, backlog>>
        /\ cliEnd' = cliEnd \/ cliEnd' = [cliEnd EXCEPT ![c] = "closed"]
    BY <1>3 DEF Exit, ClientClose
  <2>2. \A d \in Clients : cliEnd[d] # "none" => cliEnd'[d] # "none"
    BY <1>1, <2>1
  <2> QED BY <1>2, <2>1, <2>2
<1>4. UNCHANGED <<conn, backlog, cliEnd>> => Ends'
  BY <1>2
<1>5. ASSUME NEW c \in Clients, ConnectStep(c)
      PROVE  Ends'
  <2>1. CASE ConnectCall(c)
    <3>1. /\ conn' = conn /\ backlog' = Append(backlog, c) /\ cliEnd'[c] = "open"
          /\ \A d \in Clients : cliEnd[d] # "none" => cliEnd'[d] # "none"
      BY <1>1, <2>1 DEF ConnectCall
    <3>2. OpenFds' = OpenFds /\ \A fd \in OpenFds : conn[fd] \in Clients
      BY <1>1, <3>1 DEF OpenFds
    <3>3. \A i \in DOMAIN backlog' : \/ i \in DOMAIN backlog /\ backlog'[i] = backlog[i]
                                     \/ backlog'[i] = c
      BY <1>1, <3>1, AppendElements
    <3>4. \A i \in DOMAIN backlog : backlog[i] \in Clients
      BY <1>1
    <3>5. \A fd \in OpenFds' : cliEnd'[conn'[fd]] # "none"
      BY <3>1, <3>2 DEF Ends
    <3>6. \A i \in DOMAIN backlog' : cliEnd'[backlog'[i]] # "none"
      BY <3>1, <3>3, <3>4 DEF Ends
    <3> QED BY <3>5, <3>6 DEF Ends
  <2> QED BY <1>4, <1>5, <2>1 DEF ConnectStep, Connect, ResolveFails, tcpVars
<1>6. ASSUME NEW c \in Clients, UserStep(c)
      PROVE  Ends'
  BY <1>3, <1>4, <1>6 DEF UserStep, User, SendBroadcast, SendUnicast, SendMulticast,
     SendHandleList, TakeLine, ReadFromStdin, IgnoreLine, Leave, tcpVars
<1>7. ASSUME NEW c \in Clients, ProgramStep(c)
      PROVE  Ends'
  BY <1>3, <1>4, <1>7 DEF ProgramStep, Program, InitConnectHandle, RecvConnectAnswer,
     SendPDU, ProcessMsgFromServer, FlagListBegin, ClientSendReturns, ClientRecv
<1>8. ASSUME NEW c \in Clients, NetworkStep(c)
      PROVE  Ends'
  BY <1>1, <1>2, <1>8 DEF NetworkStep, Reset
<1>9. ASSUME NEW fd \in Fds, AddNewClient(fd)
      PROVE  Ends'
  <2>1. /\ conn' = [conn EXCEPT ![fd] = Head(backlog)] /\ backlog' = Tail(backlog)
        /\ cliEnd' = cliEnd /\ backlog # <<>>
    BY <1>9 DEF AddNewClient, AcceptCall
  <2>2. /\ \A i \in DOMAIN Tail(backlog) : i + 1 \in DOMAIN backlog /\ Tail(backlog)[i] = backlog[i + 1]
        /\ 1 \in DOMAIN backlog /\ Head(backlog) = backlog[1]
    BY <1>1, <2>1, TailElements
  <2>3. \A g \in OpenFds' : \/ g \in OpenFds /\ conn'[g] = conn[g]
                          \/ conn'[g] = backlog[1]
    BY <1>1, <2>1, <2>2 DEF OpenFds
  <2>4. \A g \in OpenFds' : cliEnd'[conn'[g]] # "none"
    BY <2>1, <2>2, <2>3 DEF Ends
  <2>5. \A i \in DOMAIN backlog' : cliEnd'[backlog'[i]] # "none"
    BY <2>1, <2>2 DEF Ends
  <2> QED BY <2>4, <2>5 DEF Ends
<1>10. ASSUME NEW fd \in OpenFds, ServerClose(fd)
       PROVE  Ends'
  <2>1. /\ conn' = [conn EXCEPT ![fd] = NoClient] /\ backlog' = backlog /\ fd \in Fds
        /\ cliEnd' = [d \in Clients |-> IF d = conn[fd] THEN "none" ELSE cliEnd[d]]
    BY <1>10 DEF ServerClose, CloseServerEnds, OpenFds
  <2>2. \A g \in OpenFds' : /\ g \in OpenFds /\ g # fd /\ conn'[g] = conn[g]
                            /\ conn[g] \in Clients
    BY <1>1, <2>1 DEF OpenFds
  <2>3. \A g \in OpenFds' : conn[g] # conn[fd]
    BY <2>2 DEF Live, OneConnection
  <2>4. \A i \in DOMAIN backlog : backlog[i] \in Clients /\ backlog[i] # conn[fd]
    BY <1>1, <2>1 DEF Live, OneConnection
  <2> QED BY <2>1, <2>2, <2>3, <2>4 DEF Ends
<1>11. CASE ServerStep
  <2>1. ASSUME NEW fd \in Fds,
               \/ FlagConnect(fd) \/ FlagBroadcast(fd) \/ FlagUnicast(fd)
               \/ FlagMulticast(fd) \/ FlagHandleList(fd)
        PROVE  Ends'
    BY <1>4, <2>1 DEF FlagConnect, FlagBroadcast, FlagUnicast, FlagMulticast,
       FlagHandleList, Received, ServerRecv
  <2>2. CASE SendNext
    BY <1>4, <2>2 DEF SendNext, ServerSendReturns
  <2>3. CASE CloseRejected
    BY <1>10, <2>3 DEF CloseRejected, Live, JobGood
  <2>4. ASSUME NEW fd \in Fds, Disconnect(fd)
        PROVE  Ends'
    BY <1>10, <2>4 DEF Disconnect, ServerEof
  <2>5. ~ServerDies
    BY DEF ServerDies
  <2> QED BY <1>9, <1>11, <2>1, <2>2, <2>3, <2>4, <2>5
          DEF ServerStep, ServerNext, AcceptExits, SendKillsServer
<1>12. CASE UNCHANGED vars
  BY <1>4, <1>12 DEF vars, tcpVars
<1> QED BY <1>5, <1>6, <1>7, <1>8, <1>11, <1>12 DEF Next

------------------------------------------------------------------------------
(* The theorem. *)

LEMMA InitStream == Init => SInv
<1> SUFFICES ASSUME Init PROVE SInv
  OBVIOUS
<1>1. IInv /\ Typed
  BY InitInv DEF IInv
<1>2. /\ OpenFds = {} /\ backlog = <<>> /\ job.todo = <<>>
      /\ \A c \in Clients : pc[c] = "start" /\ s2c[c] = <<>>
  BY DEF Init, TcpInit, ServerInit, ClientInit, OpenFds, NoJob
<1>3. Ends
  BY <1>2 DEF Ends
<1>4. Talks
  BY <1>1, <1>2, IdleStreams DEF Talks, Talk
<1> QED BY <1>1, <1>3, <1>4 DEF SInv

LEMMA NextStream == SInv /\ [Next]_vars => SInv'
<1> SUFFICES ASSUME SInv, [Next]_vars PROVE SInv'
  OBVIOUS
<1>1. IInv /\ IInv' /\ Typed /\ Typed'
  BY NextInv DEF SInv, IInv
<1>2. ASSUME alive' PROVE Ends' /\ Talks'
  <2>1. alive
    <3>1. CASE ServerStep
      BY <1>2, <3>1 DEF ServerStep, ServerNext, AcceptExits, SendNext, SendKillsServer,
         CloseRejected, AddNewClient, FlagConnect, FlagBroadcast, FlagUnicast,
         FlagMulticast, FlagHandleList, Disconnect, ServerDies
    <3> QED BY <1>2, <3>1 DEF Next, ConnectStep, UserStep, ProgramStep, NetworkStep,
            serverVars, vars
  <2>2. Live /\ Ends /\ Talks
    BY <1>1, <2>1 DEF IInv, SInv
  <2>3. Ends'
    BY <1>1, <1>2, <2>2, EndsKept
  <2>4. CASE UNCHANGED vars
    <3>1. UNCHANGED serverVars /\ UNCHANGED <<conn, s2c, c2s, pc>>
      BY <2>4 DEF vars, tcpVars, clientVars
    <3>2. HT!Bindings' = HT!Bindings
      BY <1>1, <3>1, ServerStill
    <3>3. \A d \in Clients : Registered(d)' => Registered(d)
      BY <3>1, <3>2, SameRegistry
    <3>4. \A d \in Clients : Stream(d)' = Stream(d)
      BY <1>1, <3>1, StreamStays
    <3>5. Talks'
      BY <2>2, <3>1, <3>3, <3>4, TalkKept DEF Talks
    <3> QED BY <2>3, <3>5
  <2>5. CASE ServerStep
    BY <1>1, <1>2, <2>2, <2>3, <2>5, ServerTalks
  <2>6. ASSUME NEW c \in Clients,
               ConnectStep(c) \/ UserStep(c) \/ ProgramStep(c) \/ NetworkStep(c)
        PROVE  Talks'
    BY <1>1, <2>2, <2>6, ClientTalks
  <2> QED BY <2>3, <2>4, <2>5, <2>6 DEF Next
<1> QED BY <1>1, <1>2 DEF SInv

THEOREM StreamInvariance == Spec => []SInv
BY InitStream, NextStream, PTL DEF Spec

\* Every client can parse what it reads: the answer to flag 1 comes first and
\* once, and a list comes whole, with as many items as its flag 11 says and
\* nothing in between, whatever the other clients send meanwhile.
THEOREM StreamsParse == Spec => []StreamGrammar
<1>1. SInv => StreamGrammar
  <2> SUFFICES ASSUME SInv, NEW c \in Clients, alive, Running(c)
               PROVE  LET stream == Stream(c)
                          Flag(i) == stream[i].flag
                      IN
                      /\ \A i \in DOMAIN stream :
                           /\ Flag(i) \in {GOOD_CONNECT_FLAG, BAD_CONNECT_FLAG} <=>
                                i = 1 /\ pc[c] \in {"connected", "wait"}
                           /\ Flag(i) = HANDLE_LIST_RESP_FLAG =>
                                LET last == i + stream[i].count + 1 IN
                                  /\ last \in DOMAIN stream
                                  /\ Flag(last) = HANDLE_FINISH_FLAG
                                  /\ \A j \in i + 1 .. last - 1 : Flag(j) = HANDLE_ITEM_FLAG
                           /\ Flag(i) \in {HANDLE_ITEM_FLAG, HANDLE_FINISH_FLAG} =>
                                IF i = 1 THEN pc[c] = "list"
                                ELSE Flag(i - 1) \in {HANDLE_LIST_RESP_FLAG, HANDLE_ITEM_FLAG}
                      /\ pc[c] = "list" =>
                           /\ stream # <<>>
                           /\ Flag(1) \in {HANDLE_ITEM_FLAG, HANDLE_FINISH_FLAG}
    BY DEF StreamGrammar
  <2>1. Parses(Stream(c), pc[c])
    <3>1. pc[c] \notin {"start", "gone"} /\ Talk(c)
      BY DEF SInv, Talks, Running
    <3> QED BY <3>1, ParsesNothing DEF Talk
  <2>2. Stream(c) \in Seq(ServerPdu)
    <3>1. Typed
      BY DEF SInv, IInv
    <3>2. s2c[c] \in Seq(ServerPdu) /\ Pending(c) \in Seq(ServerPdu)
      BY <3>1, StreamElements
    <3> QED BY <3>2 DEF Stream
  <2> DEFINE stream == Stream(c)
  <2> HIDE DEF stream
  <2>3. \A i \in DOMAIN stream : stream[i].flag = HANDLE_LIST_RESP_FLAG =>
          /\ i + stream[i].count + 1 \in DOMAIN stream
          /\ stream[i + stream[i].count + 1].flag = HANDLE_FINISH_FLAG
          /\ \A j \in i + 1 .. (i + stream[i].count + 1) - 1 : stream[j].flag = HANDLE_ITEM_FLAG
    <3> SUFFICES ASSUME NEW i \in DOMAIN stream, stream[i].flag = HANDLE_LIST_RESP_FLAG
                 PROVE  /\ i + stream[i].count + 1 \in DOMAIN stream
                        /\ stream[i + stream[i].count + 1].flag = HANDLE_FINISH_FLAG
                        /\ \A j \in i + 1 .. (i + stream[i].count + 1) - 1 :
                             stream[j].flag = HANDLE_ITEM_FLAG
      OBVIOUS
    <3>1. ListAt(stream, i)
      BY <2>1 DEF Parses, ListsWhole, stream
    <3>2. stream[i].count \in Nat /\ i \in Nat
      BY <2>2, CountOfList DEF stream
    <3>3. (i + stream[i].count + 1) - 1 = i + stream[i].count
      BY <3>2
    <3> QED BY <3>1, <3>3 DEF ListAt
  <2> QED BY <2>1, <2>3 DEF Parses, AnswerFirst, PartsInLists, ListGoesOn, Answers,
          ListParts, stream
<1> QED BY <1>1, StreamInvariance, PTL

------------------------------------------------------------------------------
(* Queues in order. *)

IsText(pdu, from) == pdu.flag \in TextFlags /\ pdu.text.by = from

\* A multicast that names a destination more than once.
Repeats(pdu) ==
  /\ pdu.flag = MULTICAST_FLAG
  /\ \E k, l \in DOMAIN pdu.dsts : k # l /\ pdu.dsts[k] = pdu.dsts[l]

Before(p, q) ==
  \/ p.text.n < q.text.n
  \/ p = q /\ Repeats(p)

Rising(s, from) ==
  \A i, j \in DOMAIN s :
    i < j /\ IsText(s[i], from) /\ IsText(s[j], from) => Before(s[i], s[j])

Precedes(s, t, from) ==
  \A i \in DOMAIN s, j \in DOMAIN t :
    IsText(s[i], from) /\ IsText(t[j], from) => Before(s[i], t[j])

UpTo(n, s, from) == \A i \in DOMAIN s : IsText(s[i], from) => s[i].text.n \in 1 .. n

\* The three queues between a client and another, and the number of the last
\* text it has cut.
Lane(stream, socket, line, n, from) ==
  /\ Rising(stream, from) /\ Rising(socket, from) /\ Rising(line, from)
  /\ Precedes(stream, socket, from) /\ Precedes(stream, line, from)
  /\ Precedes(socket, line, from)
  /\ UpTo(n, stream, from) /\ UpTo(n, socket, from) /\ UpTo(n, line, from)

Indexed(s) == DOMAIN s \in SUBSET (Nat \ {0})

\* t is what is left of s when PDUs go at either end.
Part(t, s) ==
  /\ Indexed(t)
  /\ \E d \in Nat : \A i \in DOMAIN t : i + d \in DOMAIN s /\ t[i] = s[i + d]

LEMMA PartInOrder ==
  ASSUME NEW s, NEW t, Part(t, s), NEW from
  PROVE  /\ Rising(s, from) => Rising(t, from)
         /\ \A u : Precedes(s, u, from) => Precedes(t, u, from)
         /\ \A u : Precedes(u, s, from) => Precedes(u, t, from)
         /\ \A n : UpTo(n, s, from) => UpTo(n, t, from)
<1> PICK d \in Nat : \A i \in DOMAIN t : i + d \in DOMAIN s /\ t[i] = s[i + d]
  BY DEF Part
<1>1. \A i, j \in DOMAIN t : i < j => i + d < j + d
  BY DEF Part, Indexed
<1>2. Rising(s, from) => Rising(t, from)
  BY <1>1 DEF Rising
<1>3. \A u : Precedes(s, u, from) => Precedes(t, u, from)
  BY DEF Precedes
<1>4. \A u : Precedes(u, s, from) => Precedes(u, t, from)
  BY DEF Precedes
<1>5. \A n : UpTo(n, s, from) => UpTo(n, t, from)
  BY DEF UpTo
<1> QED BY <1>2, <1>3, <1>4, <1>5

\* Losing PDUs keeps the order of the others.
LEMMA LaneThins ==
  ASSUME NEW stream, NEW socket, NEW line, NEW n, NEW from,
         Lane(stream, socket, line, n, from),
         NEW stream1, NEW socket1, NEW line1,
         Part(stream1, stream), Part(socket1, socket), Part(line1, line)
  PROVE  Lane(stream1, socket1, line1, n, from)
<1>1. Rising(stream1, from) /\ Rising(socket1, from) /\ Rising(line1, from)
  BY PartInOrder DEF Lane
<1>2. UpTo(n, stream1, from) /\ UpTo(n, socket1, from) /\ UpTo(n, line1, from)
  BY PartInOrder DEF Lane
<1>3. Precedes(stream1, socket, from) /\ Precedes(stream1, line, from) /\ Precedes(socket1, line, from)
  BY PartInOrder DEF Lane
<1>4. Precedes(stream1, socket1, from) /\ Precedes(stream1, line1, from) /\ Precedes(socket1, line1, from)
  BY <1>3, PartInOrder
<1> QED BY <1>1, <1>2, <1>4 DEF Lane

\* t is s with more at its end, of which p is the only text of from.
Added(t, s, p, from) ==
  /\ \A i \in DOMAIN t :
       \/ i \in DOMAIN s /\ t[i] = s[i]
       \/ (\A j \in DOMAIN s : j < i) /\ (IsText(t[i], from) => t[i] = p)
  /\ \A i, j \in DOMAIN t :
       /\ i # j /\ i \notin DOMAIN s /\ j \notin DOMAIN s
       /\ IsText(t[i], from) /\ IsText(t[j], from)
       => Repeats(p)

AllButFirst(t, s) == \A i \in DOMAIN t : i + 1 \in DOMAIN s /\ t[i] = s[i + 1]

\* The first PDU of t moves, once or more often, to the end of s.
LEMMA MovedInOrder ==
  ASSUME NEW s, NEW t, NEW s1, NEW t1, NEW from,
         Indexed(s), Indexed(s1), Indexed(t1), 1 \in DOMAIN t,
         Added(s1, s, t[1], from), AllButFirst(t1, t)
  PROVE  /\ Rising(s, from) /\ Rising(t, from) /\ Precedes(s, t, from) =>
              Rising(s1, from) /\ Rising(t1, from) /\ Precedes(s1, t1, from)
         /\ \A u : Precedes(s, u, from) /\ Precedes(t, u, from) =>
                     Precedes(s1, u, from) /\ Precedes(t1, u, from)
         /\ \A u : Precedes(u, s, from) /\ Precedes(u, t, from) =>
                     Precedes(u, s1, from) /\ Precedes(u, t1, from)
         /\ \A n : UpTo(n, s, from) /\ UpTo(n, t, from) =>
                     UpTo(n, s1, from) /\ UpTo(n, t1, from)
<1>1. Part(t1, t)
  BY DEF AllButFirst, Part
<1>2. \A i \in DOMAIN s1 : IsText(s1[i], from) =>
        \/ i \in DOMAIN s /\ s1[i] = s[i]
        \/ (\A j \in DOMAIN s : j < i) /\ s1[i] = t[1]
  BY DEF Added
<1>3. ASSUME Rising(s, from), Rising(t, from), Precedes(s, t, from)
      PROVE  Rising(s1, from) /\ Rising(t1, from) /\ Precedes(s1, t1, from)
  <2>1. Rising(t1, from)
    BY <1>1, <1>3, PartInOrder
  <2>2. Precedes(s1, t1, from)
    <3> SUFFICES ASSUME NEW i \in DOMAIN s1, NEW j \in DOMAIN t1,
                        IsText(s1[i], from), IsText(t1[j], from)
                 PROVE  Before(s1[i], t1[j])
      BY DEF Precedes
    <3>1. j + 1 \in DOMAIN t /\ t1[j] = t[j + 1] /\ 1 < j + 1
      <4>1. j \in Nat \ {0}
        BY DEF Indexed
      <4>2. j + 1 \in DOMAIN t /\ t1[j] = t[j + 1]
        BY DEF AllButFirst
      <4> QED BY <4>1, <4>2
    <3>2. CASE i \in DOMAIN s /\ s1[i] = s[i]
      BY <1>3, <3>1, <3>2 DEF Precedes
    <3>3. CASE s1[i] = t[1]
      BY <1>3, <3>1, <3>3 DEF Rising
    <3> QED BY <1>2, <3>2, <3>3
  <2>3. Rising(s1, from)
    <3> SUFFICES ASSUME NEW i \in DOMAIN s1, NEW j \in DOMAIN s1, i < j,
                        IsText(s1[i], from), IsText(s1[j], from)
                 PROVE  Before(s1[i], s1[j])
      BY DEF Rising
    <3>1. CASE i \in DOMAIN s /\ s1[i] = s[i] /\ j \in DOMAIN s /\ s1[j] = s[j]
      BY <1>3, <3>1 DEF Rising
    <3>2. CASE i \in DOMAIN s /\ s1[i] = s[i] /\ s1[j] = t[1]
      BY <1>3, <3>2 DEF Precedes
    <3>3. CASE /\ (\A k \in DOMAIN s : k < i) /\ s1[i] = t[1]
               /\ (\A k \in DOMAIN s : k < j) /\ s1[j] = t[1]
      <4>1. i \in Nat /\ j \in Nat
        BY DEF Indexed
      <4>2. i # j /\ i \notin DOMAIN s /\ j \notin DOMAIN s
        BY <3>3, <4>1
      <4>3. Repeats(t[1])
        BY <4>2 DEF Added
      <4> QED BY <3>3, <4>3 DEF Before
    <3>4. ~(j \in DOMAIN s /\ \A k \in DOMAIN s : k < i)
      BY DEF Indexed
    <3> QED BY <1>2, <3>1, <3>2, <3>3, <3>4
  <2> QED BY <2>1, <2>2, <2>3
<1>4. ASSUME NEW u, Precedes(s, u, from), Precedes(t, u, from)
      PROVE  Precedes(s1, u, from) /\ Precedes(t1, u, from)
  <2>1. Precedes(t1, u, from)
    BY <1>1, <1>4, PartInOrder
  <2> QED BY <1>2, <1>4, <2>1 DEF Precedes
<1>5. ASSUME NEW u, Precedes(u, s, from), Precedes(u, t, from)
      PROVE  Precedes(u, s1, from) /\ Precedes(u, t1, from)
  <2>1. Precedes(u, t1, from)
    BY <1>1, <1>5, PartInOrder
  <2> QED BY <1>2, <1>5, <2>1 DEF Precedes
<1>6. ASSUME NEW n, UpTo(n, s, from), UpTo(n, t, from)
      PROVE  UpTo(n, s1, from) /\ UpTo(n, t1, from)
  <2>1. UpTo(n, t1, from)
    BY <1>1, <1>6, PartInOrder
  <2> QED BY <1>2, <1>6, <2>1 DEF UpTo
<1> QED BY <1>3, <1>4, <1>5, <1>6

\* Queues are such parts, and grow at their ends.
LEMMA QueueParts ==
  ASSUME NEW S, NEW s \in Seq(S)
  PROVE  /\ Indexed(s) /\ Part(s, s) /\ Part(<<>>, s)
         /\ s # <<>> => /\ 1 \in DOMAIN s /\ Head(s) = s[1] /\ Part(Tail(s), s)
                        /\ AllButFirst(Tail(s), s)
<1>1. DOMAIN s = 1 .. Len(s) /\ Len(s) \in Nat
  OBVIOUS
<1>2. Indexed(s)
  BY <1>1 DEF Indexed
<1>3. \A i \in DOMAIN s : i + 0 = i
  BY <1>1
<1>4. Part(s, s)
  BY <1>2, <1>3 DEF Part
<1>5. Part(<<>>, s)
  BY DEF Part, Indexed
<1>6. ASSUME s # <<>>
      PROVE  /\ 1 \in DOMAIN s /\ Head(s) = s[1] /\ Part(Tail(s), s)
             /\ AllButFirst(Tail(s), s)
  <2>1. /\ 1 \in DOMAIN s /\ Head(s) = s[1]
        /\ \A i \in DOMAIN Tail(s) : i + 1 \in DOMAIN s /\ Tail(s)[i] = s[i + 1]
    BY <1>6, TailElements
  <2>2. Indexed(Tail(s))
    <3>1. Tail(s) \in Seq(S)
      BY <1>6
    <3> QED BY <3>1 DEF Indexed
  <2> QED BY <2>1, <2>2 DEF Part, AllButFirst
<1> QED BY <1>2, <1>4, <1>5, <1>6

LEMMA ConcatParts ==
  ASSUME NEW S, NEW s \in Seq(S), NEW t \in Seq(S)
  PROVE  Part(s, s \o t) /\ Part(t, s \o t)
<1>1. /\ Len(s) \in Nat /\ Len(t) \in Nat
      /\ DOMAIN s = 1 .. Len(s) /\ DOMAIN t = 1 .. Len(t)
      /\ DOMAIN (s \o t) = 1 .. Len(s) + Len(t)
      /\ \A i \in 1 .. Len(s) : (s \o t)[i] = s[i]
      /\ \A i \in 1 .. Len(t) : (s \o t)[i + Len(s)] = t[i]
  OBVIOUS
<1> DEFINE u == s \o t
<1> HIDE DEF u
<1>2. Part(s, u)
  <2>1. \A i \in DOMAIN s : i + 0 \in DOMAIN u /\ s[i] = u[i + 0]
    BY <1>1 DEF u
  <2>2. Indexed(s)
    BY <1>1 DEF Indexed
  <2> QED BY <2>1, <2>2 DEF Part
<1>3. Part(t, u)
  <2>1. \A i \in DOMAIN t : i + Len(s) \in DOMAIN u /\ t[i] = u[i + Len(s)]
    BY <1>1 DEF u
  <2>2. Indexed(t)
    BY <1>1 DEF Indexed
  <2> QED BY <1>1, <2>1, <2>2 DEF Part
<1> QED BY <1>2, <1>3 DEF u

LEMMA ConcatAdds ==
  ASSUME NEW S, NEW s \in Seq(S), NEW t \in Seq(S), NEW p, NEW from,
         \A k \in DOMAIN t : IsText(t[k], from) => t[k] = p,
         \A k, l \in DOMAIN t :
           k # l /\ IsText(t[k], from) /\ IsText(t[l], from) => Repeats(p)
  PROVE  Added(s \o t, s, p, from)
<1>1. /\ Len(s) \in Nat /\ Len(t) \in Nat
      /\ DOMAIN s = 1 .. Len(s) /\ DOMAIN t = 1 .. Len(t)
      /\ DOMAIN (s \o t) = 1 .. Len(s) + Len(t)
      /\ \A i \in DOMAIN (s \o t) :
           \/ i \in DOMAIN s /\ (s \o t)[i] = s[i]
           \/ i - Len(s) \in DOMAIN t /\ (s \o t)[i] = t[i - Len(s)]
  BY ConcatElements
<1> DEFINE u == s \o t
<1>2. \A i \in DOMAIN u : i \notin DOMAIN s => i - Len(s) \in DOMAIN t /\ u[i] = t[i - Len(s)]
  BY <1>1
<1>3. \A i \in DOMAIN u : i \in DOMAIN s => u[i] = s[i]
  BY <1>1
<1> HIDE DEF u
<1>4. \A i \in DOMAIN u : i \notin DOMAIN s => \A j \in DOMAIN s : j < i
  BY <1>1 DEF u
<1>5. \A i, j \in DOMAIN u : i # j => i - Len(s) # j - Len(s)
  BY <1>1 DEF u
<1>6. \A i, j \in DOMAIN u :
        /\ i # j /\ i \notin DOMAIN s /\ j \notin DOMAIN s
        /\ IsText(u[i], from) /\ IsText(u[j], from)
        => Repeats(p)
  BY <1>2, <1>5
<1>7. \A i \in DOMAIN u :
        \/ i \in DOMAIN s /\ u[i] = s[i]
        \/ (\A j \in DOMAIN s : j < i) /\ (IsText(u[i], from) => u[i] = p)
  BY <1>2, <1>3, <1>4
<1> QED BY <1>6, <1>7 DEF Added, u

\* The server takes a PDU of from and adds it, any number of times, to a stream.
LEMMA LaneServed ==
  ASSUME NEW stream, NEW socket, NEW line, NEW n, NEW from,
         Lane(stream, socket, line, n, from),
         NEW stream1, NEW socket1,
         Indexed(stream), Indexed(stream1), Indexed(socket1),
         1 \in DOMAIN socket,
         Added(stream1, stream, socket[1], from), AllButFirst(socket1, socket)
  PROVE  Lane(stream1, socket1, line, n, from)
<1>1. Rising(stream1, from) /\ Rising(socket1, from) /\ Precedes(stream1, socket1, from)
  BY MovedInOrder DEF Lane
<1>2. Precedes(stream1, line, from) /\ Precedes(socket1, line, from)
  BY MovedInOrder DEF Lane
<1>3. UpTo(n, stream1, from) /\ UpTo(n, socket1, from)
  BY MovedInOrder DEF Lane
<1> QED BY <1>1, <1>2, <1>3 DEF Lane

\* The client sends the first PDU of its line.
LEMMA LaneSent ==
  ASSUME NEW stream, NEW socket, NEW line, NEW n, NEW from,
         Lane(stream, socket, line, n, from),
         NEW socket1, NEW line1,
         Indexed(socket), Indexed(line1), Indexed(socket1),
         1 \in DOMAIN line,
         Added(socket1, socket, line[1], from), AllButFirst(line1, line)
  PROVE  Lane(stream, socket1, line1, n, from)
<1>1. Rising(socket1, from) /\ Rising(line1, from) /\ Precedes(socket1, line1, from)
  BY MovedInOrder DEF Lane
<1>2. Precedes(stream, socket1, from) /\ Precedes(stream, line1, from)
  <2>1. Precedes(stream, socket, from) /\ Precedes(stream, line, from)
    BY DEF Lane
  <2> QED BY <2>1, MovedInOrder
<1>3. UpTo(n, socket1, from) /\ UpTo(n, line1, from)
  BY MovedInOrder DEF Lane
<1> QED BY <1>1, <1>2, <1>3 DEF Lane

\* The texts of from in t are in s, at the same places.
NoNewTexts(t, s, from) ==
  \A i \in DOMAIN t : IsText(t[i], from) => i \in DOMAIN s /\ t[i] = s[i]

LEMMA LaneAside ==
  ASSUME NEW stream, NEW socket, NEW line, NEW n, NEW from,
         Lane(stream, socket, line, n, from), NEW stream1, NEW socket1,
         NoNewTexts(stream1, stream, from), NoNewTexts(socket1, socket, from)
  PROVE  Lane(stream1, socket1, line, n, from)
<1>1. Rising(stream1, from) /\ UpTo(n, stream1, from)
  BY DEF Lane, Rising, UpTo, NoNewTexts
<1>2. Rising(socket1, from) /\ UpTo(n, socket1, from)
  BY DEF Lane, Rising, UpTo, NoNewTexts
<1>3. /\ Precedes(stream1, socket1, from) /\ Precedes(stream1, line, from)
      /\ Precedes(socket1, line, from)
  BY DEF Lane, Precedes, NoNewTexts
<1> QED BY <1>1, <1>2, <1>3 DEF Lane

LEMMA ConcatAside ==
  ASSUME NEW S, NEW s \in Seq(S), NEW t \in Seq(S), NEW from,
         \A k \in DOMAIN t : ~IsText(t[k], from)
  PROVE  NoNewTexts(s \o t, s, from)
<1>1. \A i \in DOMAIN (s \o t) :
        \/ i \in DOMAIN s /\ (s \o t)[i] = s[i]
        \/ i - Len(s) \in DOMAIN t /\ (s \o t)[i] = t[i - Len(s)]
  BY ConcatElements
<1> DEFINE u == s \o t
<1> HIDE DEF u
<1> QED BY <1>1 DEF NoNewTexts, u

LEMMA AppendAside ==
  ASSUME NEW S, NEW s \in Seq(S), NEW e, NEW from, ~IsText(e, from)
  PROVE  NoNewTexts(Append(s, e), s, from)
BY AppendElements DEF NoNewTexts

LEMMA AppendAdds ==
  ASSUME NEW S, NEW s \in Seq(S), NEW e, NEW from
  PROVE  Added(Append(s, e), s, e, from) /\ Indexed(Append(s, e))
<1>1. /\ DOMAIN s = 1 .. Len(s) /\ Len(s) \in Nat
      /\ DOMAIN Append(s, e) = 1 .. Len(s) + 1
      /\ \A i \in 1 .. Len(s) : Append(s, e)[i] = s[i]
      /\ Append(s, e)[Len(s) + 1] = e
  OBVIOUS
<1> DEFINE u == Append(s, e)
<1> HIDE DEF u
<1>2. \A i \in DOMAIN u :
        \/ i \in DOMAIN s /\ u[i] = s[i]
        \/ i = Len(s) + 1 /\ (\A j \in DOMAIN s : j < i) /\ u[i] = e
  BY <1>1 DEF u
<1>3. Indexed(u)
  BY <1>1 DEF Indexed, u
<1> QED BY <1>2, <1>3 DEF Added, u

\* A line is cut into pieces with the next numbers.
LEMMA LaneCut ==
  ASSUME NEW stream, NEW socket, NEW line, NEW n \in Nat, NEW from,
         Lane(stream, socket, line, n, from), NEW line1, NEW m \in Nat,
         \A i \in DOMAIN line1 :
           i \in 1 .. m /\ (IsText(line1[i], from) => line1[i].text.n = n + i)
  PROVE  Lane(stream, socket, line1, n + m, from)
<1>1. \A p, q : p.text.n < q.text.n => Before(p, q)
  BY DEF Before
<1>2. \A s : UpTo(n, s, from) => UpTo(n + m, s, from) /\ Precedes(s, line1, from)
  <2> SUFFICES ASSUME NEW s, UpTo(n, s, from)
               PROVE  UpTo(n + m, s, from) /\ Precedes(s, line1, from)
    OBVIOUS
  <2>1. UpTo(n + m, s, from)
    BY DEF UpTo
  <2>2. ASSUME NEW i \in DOMAIN s, NEW j \in DOMAIN line1,
               IsText(s[i], from), IsText(line1[j], from)
        PROVE  s[i].text.n < line1[j].text.n
    <3>1. s[i].text.n \in 1 .. n /\ line1[j].text.n = n + j /\ j \in 1 .. m
      BY <2>2 DEF UpTo
    <3> QED BY <3>1
  <2>3. Precedes(s, line1, from)
    BY <1>1, <2>2 DEF Precedes
  <2> QED BY <2>1, <2>3
<1>3. UpTo(n + m, line1, from)
  <2> SUFFICES ASSUME NEW i \in DOMAIN line1, IsText(line1[i], from)
               PROVE  line1[i].text.n \in 1 .. n + m
    BY DEF UpTo
  <2>1. line1[i].text.n = n + i /\ i \in 1 .. m
    OBVIOUS
  <2> QED BY <2>1
<1>4. Rising(line1, from)
  <2> SUFFICES ASSUME NEW i \in DOMAIN line1, NEW j \in DOMAIN line1, i < j,
                      IsText(line1[i], from), IsText(line1[j], from)
               PROVE  line1[i].text.n < line1[j].text.n
    BY <1>1 DEF Rising
  <2>1. line1[i].text.n = n + i /\ line1[j].text.n = n + j /\ i \in 1 .. m /\ j \in 1 .. m
    OBVIOUS
  <2> QED BY <2>1
<1> QED BY <1>2, <1>3, <1>4 DEF Lane

------------------------------------------------------------------------------
(* The invariant. *)

Lanes ==
  \A from, to \in Clients :
    Lane(Stream(to), c2s[from], outq[from], sent[from], from)

\* A unicast has one destination, though its PDU has room for more.
OneDst(s) == \A i \in DOMAIN s : s[i].flag = UNICAST_FLAG => Len(s[i].dsts) = 1

UnicastToOne == \A c \in Clients : OneDst(c2s[c]) /\ OneDst(outq[c])

OInv == IInv /\ Lanes /\ UnicastToOne

Queues ==
  /\ c2s \in [Clients -> Seq(ClientPdu)]
  /\ s2c \in [Clients -> Seq(ServerPdu)]
  /\ outq \in [Clients -> Seq(LinePdu)]
  /\ sent \in [Clients -> Nat]

LEMMA QueuesTyped ==
  /\ Typed => Queues
  /\ Typed' => Queues'
BY DEF Typed, TcpTyped, ClientsTyped, Queues

\* A stream, and its parts.
LEMMA StreamParts ==
  ASSUME Typed, NEW d \in Clients
  PROVE  /\ Stream(d) \in Seq(ServerPdu) /\ PendingOf(job.todo, d) \in Seq(ServerPdu)
         /\ Part(Stream(d), Stream(d))
         /\ Part(s2c[d], Stream(d)) /\ Part(PendingOf(job.todo, d), Stream(d))
         /\ Part(<<>>, Stream(d))
<1>1. s2c[d] \in Seq(ServerPdu) /\ job.todo \in Seq(Sends)
  BY DEF Typed, TcpTyped, ServerTyped
<1>2. PendingOf(job.todo, d) \in Seq(ServerPdu)
  BY <1>1, PendingElements
<1>3. Stream(d) = s2c[d] \o PendingOf(job.todo, d)
  BY StreamIs
<1>4. Stream(d) \in Seq(ServerPdu)
  <2> DEFINE q == PendingOf(job.todo, d)
  <2> HIDE DEF q
  <2>1. s2c[d] \o q \in Seq(ServerPdu)
    BY <1>1, <1>2 DEF q
  <2> QED BY <1>3, <2>1 DEF q
<1>5. Part(s2c[d], Stream(d)) /\ Part(PendingOf(job.todo, d), Stream(d))
  BY <1>1, <1>2, <1>3, ConcatParts
<1> QED BY <1>2, <1>4, <1>5, QueueParts

\* A step that only takes PDUs away.
LEMMA ThinLanes ==
  ASSUME OInv, sent' = sent,
         \A d \in Clients : /\ Part(Stream(d)', Stream(d))
                            /\ Part(c2s'[d], c2s[d]) /\ Part(outq'[d], outq[d])
  PROVE  Lanes' /\ UnicastToOne'
<1>1. ASSUME NEW from \in Clients, NEW to \in Clients
      PROVE  Lane(Stream(to)', c2s'[from], outq'[from], sent'[from], from)
  <2>1. Lane(Stream(to), c2s[from], outq[from], sent[from], from)
    BY DEF OInv, Lanes
  <2>2. /\ Part(Stream(to)', Stream(to)) /\ Part(c2s'[from], c2s[from])
        /\ Part(outq'[from], outq[from]) /\ sent'[from] = sent[from]
    OBVIOUS
  <2> QED BY <2>1, <2>2, LaneThins
<1>2. \A s, t : Part(t, s) /\ OneDst(s) => OneDst(t)
  BY DEF Part, OneDst
<1>3. Lanes'
  BY <1>1 DEF Lanes, Lane, Rising, Precedes, UpTo, Before, IsText, Repeats
<1> QED BY <1>2, <1>3 DEF OInv, UnicastToOne, OneDst

LEMMA PartsOfQueues ==
  ASSUME Typed, NEW d \in Clients
  PROVE  Part(c2s[d], c2s[d]) /\ Part(outq[d], outq[d])
         /\ Part(<<>>, c2s[d]) /\ Part(<<>>, outq[d])
BY QueuesTyped, QueueParts DEF Queues

------------------------------------------------------------------------------
(* The steps of clients and of the network. *)

LEMMA OwnStepLanes ==
  ASSUME OInv, UNCHANGED serverVars, conn' = conn, sent' = sent, NEW c \in Clients,
         \A d \in Clients \ {c} : s2c'[d] = s2c[d] /\ c2s'[d] = c2s[d] /\ outq'[d] = outq[d],
         Part(Stream(c)', Stream(c)), Part(c2s'[c], c2s[c]), Part(outq'[c], outq[c])
  PROVE  Lanes' /\ UnicastToOne'
<1>1. Typed
  BY DEF OInv, IInv
<1>2. ASSUME NEW d \in Clients \ {c}
      PROVE  /\ Part(Stream(d)', Stream(d))
             /\ Part(c2s'[d], c2s[d]) /\ Part(outq'[d], outq[d])
  BY <1>1, StreamStays, StreamParts, PartsOfQueues
<1> QED BY <1>2, ThinLanes

\* The end of a client, and an RST to the server: nothing of the stream, or what
\* is not in the socket yet.
LEMMA EmptiedStream ==
  ASSUME Typed, UNCHANGED serverVars, conn' = conn, NEW c \in Clients,
         s2c'[c] = s2c[c] \/ s2c'[c] = <<>>
  PROVE  Part(Stream(c)', Stream(c))
<1>1. CASE s2c'[c] = s2c[c]
  BY <1>1, StreamStays, StreamParts
<1>2. CASE s2c'[c] = <<>>
  <2>1. Stream(c)' = <<>> \o PendingOf(job.todo, c)
    BY <1>2, StreamIs DEF serverVars
  <2>2. PendingOf(job.todo, c) \in Seq(ServerPdu) /\ Part(PendingOf(job.todo, c), Stream(c))
    BY StreamParts
  <2> DEFINE q == PendingOf(job.todo, c)
  <2> HIDE DEF q
  <2>3. <<>> \o q = q
    BY <2>2 DEF q
  <2> QED BY <2>1, <2>2, <2>3 DEF q
<1> QED BY <1>1, <1>2

LEMMA ExitLanes ==
  ASSUME OInv, UNCHANGED serverVars, NEW c \in Clients, Exit(c)
  PROVE  Lanes' /\ UnicastToOne'
<1>1. Typed /\ Queues
  BY QueuesTyped DEF OInv, IInv
<1>2. /\ UNCHANGED <<conn, c2s, sent>> /\ outq'[c] = <<>>
      /\ s2c'[c] = s2c[c] \/ s2c'[c] = <<>>
      /\ \A d \in Clients \ {c} : s2c'[d] = s2c[d] /\ outq'[d] = outq[d]
  BY <1>1 DEF Exit, ClientClose, Queues
<1>3. Part(Stream(c)', Stream(c))
  BY <1>1, <1>2, EmptiedStream
<1>4. Part(c2s'[c], c2s[c]) /\ Part(outq'[c], outq[c])
  BY <1>1, <1>2, PartsOfQueues
<1> QED BY <1>2, <1>3, <1>4, OwnStepLanes

LEMMA NetworkLanes ==
  ASSUME OInv, NEW c \in Clients, NetworkStep(c)
  PROVE  Lanes' /\ UnicastToOne'
<1>1. Typed /\ Queues
  BY QueuesTyped DEF OInv, IInv
<1>2. /\ UNCHANGED serverVars /\ UNCHANGED <<conn, c2s, sent, outq>> /\ s2c'[c] = <<>>
      /\ \A d \in Clients \ {c} : s2c'[d] = s2c[d]
  BY <1>1 DEF NetworkStep, Reset, Queues, clientVars
<1>3. Part(Stream(c)', Stream(c))
  BY <1>1, <1>2, EmptiedStream
<1>4. Part(c2s'[c], c2s[c]) /\ Part(outq'[c], outq[c])
  BY <1>1, <1>2, PartsOfQueues
<1> QED BY <1>2, <1>3, <1>4, OwnStepLanes

\* The queues stay as they are.
LEMMA StillLanes ==
  ASSUME OInv, UNCHANGED serverVars, UNCHANGED <<conn, c2s, s2c, outq, sent>>
  PROVE  Lanes' /\ UnicastToOne'
<1>1. Typed
  BY DEF OInv, IInv
<1>2. ASSUME NEW d \in Clients
      PROVE  /\ Part(Stream(d)', Stream(d))
             /\ Part(c2s'[d], c2s[d]) /\ Part(outq'[d], outq[d])
  BY <1>1, StreamStays, StreamParts, PartsOfQueues
<1> QED BY <1>2, ThinLanes

LEMMA RecvLanes ==
  ASSUME OInv, UNCHANGED serverVars, NEW c \in Clients, ClientRecv(c),
         UNCHANGED <<outq, sent>>
  PROVE  Lanes' /\ UnicastToOne'
<1>1. Typed /\ Queues
  BY QueuesTyped DEF OInv, IInv
<1>2. /\ UNCHANGED <<conn, c2s>>
      /\ \A d \in Clients \ {c} : s2c'[d] = s2c[d]
  BY <1>1 DEF ClientRecv, Queues
<1>3. /\ Stream(c) \in Seq(ServerPdu) /\ Stream(c) # <<>>
      /\ Stream(c)' = Tail(Stream(c))
  BY <1>1, ReadStream
<1>4. Part(Stream(c)', Stream(c))
  BY <1>3, QueueParts
<1>5. Part(c2s'[c], c2s[c]) /\ Part(outq'[c], outq[c])
  BY <1>1, <1>2, PartsOfQueues
<1> QED BY <1>2, <1>4, <1>5, OwnStepLanes

\* A lane is judged by its queues and number alone.
LEMMA LanesFrom ==
  ASSUME \A from, to \in Clients :
           Lane(Stream(to)', c2s'[from], outq'[from], sent'[from], from)
  PROVE  Lanes'
BY DEF Lanes, Lane, Rising, Precedes, UpTo, Before, IsText, Repeats

\* flag 1 is no text.
LEMMA HelloLanes ==
  ASSUME OInv, UNCHANGED serverVars, NEW c \in Clients, NEW pdu,
         ClientSendReturns(c, pdu), pdu.flag = INIT_CONNECT_FLAG, UNCHANGED <<outq, sent>>
  PROVE  Lanes' /\ UnicastToOne'
<1>1. Typed /\ Queues
  BY QueuesTyped DEF OInv, IInv
<1>2. /\ UNCHANGED <<conn, s2c>> /\ \A d \in Clients \ {c} : c2s'[d] = c2s[d]
      /\ c2s'[c] = c2s[c] \/ c2s'[c] = Append(c2s[c], pdu)
  BY <1>1 DEF ClientSendReturns, Queues
<1>3. c2s[c] \in Seq(ClientPdu)
  BY <1>1 DEF Queues
<1>4. \A d \in Clients : Stream(d)' = Stream(d)
  BY <1>1, <1>2, StreamStays
<1>5. \A from : ~IsText(pdu, from)
  BY DEF IsText, TextFlags, INIT_CONNECT_FLAG, BROADCAST_FLAG, UNICAST_FLAG, MULTICAST_FLAG
<1>6. \A s, from : NoNewTexts(s, s, from)
  BY DEF NoNewTexts
<1>7. \A d, from \in Clients : NoNewTexts(c2s'[d], c2s[d], from)
  BY <1>2, <1>3, <1>5, <1>6, AppendAside
<1>8. ASSUME NEW from \in Clients, NEW to \in Clients
      PROVE  Lane(Stream(to)', c2s'[from], outq'[from], sent'[from], from)
  <2>1. Lane(Stream(to), c2s[from], outq[from], sent[from], from)
    BY DEF OInv, Lanes
  <2>2. Lane(Stream(to), c2s'[from], outq[from], sent[from], from)
    BY <1>6, <1>7, <2>1, LaneAside
  <2> QED BY <1>4, <2>2
<1>9. Lanes'
  BY <1>8, LanesFrom
<1>10. UnicastToOne'
  <2>1. \A i \in DOMAIN c2s'[c] : \/ i \in DOMAIN c2s[c] /\ c2s'[c][i] = c2s[c][i]
                                  \/ c2s'[c][i].flag # UNICAST_FLAG
    BY <1>2, <1>3, AppendElements DEF INIT_CONNECT_FLAG, UNICAST_FLAG
  <2> QED BY <1>2, <2>1 DEF OInv, UnicastToOne, OneDst
<1> QED BY <1>9, <1>10

\* The next piece of a line goes into the socket.
LEMMA PieceLanes ==
  ASSUME OInv, UNCHANGED serverVars, NEW c \in Clients, outq[c] # <<>>,
         ClientSendReturns(c, Head(outq[c])),
         outq' = [outq EXCEPT ![c] = Tail(@)], UNCHANGED sent
  PROVE  Lanes' /\ UnicastToOne'
<1> DEFINE pdu == Head(outq[c])
<1>1. Typed /\ Queues
  BY QueuesTyped DEF OInv, IInv
<1>2. /\ UNCHANGED <<conn, s2c>>
      /\ \A d \in Clients \ {c} : c2s'[d] = c2s[d] /\ outq'[d] = outq[d]
      /\ c2s'[c] = c2s[c] \/ c2s'[c] = Append(c2s[c], pdu)
      /\ outq'[c] = Tail(outq[c])
  BY <1>1 DEF ClientSendReturns, Queues
<1>3. c2s[c] \in Seq(ClientPdu) /\ outq[c] \in Seq(LinePdu)
  BY <1>1 DEF Queues
<1>4. \A d \in Clients : Stream(d)' = Stream(d)
  BY <1>1, <1>2, StreamStays
<1>5. /\ 1 \in DOMAIN outq[c] /\ pdu = outq[c][1]
      /\ Part(Tail(outq[c]), outq[c]) /\ AllButFirst(Tail(outq[c]), outq[c])
  BY <1>3, QueueParts
<1> HIDE DEF pdu
<1>6. CASE c2s'[c] = c2s[c]
  <2>1. ASSUME NEW d \in Clients
        PROVE  /\ Part(Stream(d)', Stream(d))
               /\ Part(c2s'[d], c2s[d]) /\ Part(outq'[d], outq[d])
    BY <1>1, <1>2, <1>4, <1>5, <1>6, StreamParts, PartsOfQueues
  <2> QED BY <2>1, ThinLanes
<1>7. CASE c2s'[c] = Append(c2s[c], pdu)
  <2>1. ASSUME NEW from \in Clients, NEW to \in Clients
        PROVE  Lane(Stream(to)', c2s'[from], outq'[from], sent'[from], from)
    <3>1. Lane(Stream(to), c2s[from], outq[from], sent[from], from)
      BY DEF OInv, Lanes
    <3>2. CASE from # c
      BY <1>2, <1>4, <3>1, <3>2
    <3>3. CASE from = c
      <4>1. Added(Append(c2s[c], pdu), c2s[c], pdu, c) /\ Indexed(Append(c2s[c], pdu))
        BY <1>3, AppendAdds
      <4>2. Added(c2s'[c], c2s[c], outq[c][1], c) /\ Indexed(c2s'[c])
        BY <1>5, <1>7, <4>1
      <4>3. Indexed(c2s[c])
        BY <1>3, QueueParts
      <4>4. Indexed(outq'[c]) /\ AllButFirst(outq'[c], outq[c])
        BY <1>2, <1>5 DEF Part
      <4>5. Lane(Stream(to), c2s'[c], outq'[c], sent[c], c)
        BY <1>5, <3>1, <3>3, <4>2, <4>3, <4>4, LaneSent
      <4> QED BY <1>4, <3>3, <4>5
    <3> QED BY <3>2, <3>3
  <2>2. Lanes'
    BY <2>1, LanesFrom
  <2>3. OneDst(c2s'[c]) /\ OneDst(outq'[c])
    <3>1. OneDst(c2s[c]) /\ OneDst(outq[c])
      BY DEF OInv, UnicastToOne
    <3>2. OneDst(outq'[c])
      BY <1>2, <1>5, <3>1 DEF Part, OneDst
    <3>3. \A i \in DOMAIN c2s'[c] : \/ i \in DOMAIN c2s[c] /\ c2s'[c][i] = c2s[c][i]
                                    \/ c2s'[c][i] = outq[c][1]
      BY <1>3, <1>5, <1>7, AppendElements
    <3> QED BY <1>5, <3>1, <3>2, <3>3 DEF OneDst
  <2>4. UnicastToOne'
    BY <1>2, <2>3 DEF OInv, UnicastToOne, OneDst
  <2> QED BY <2>2, <2>4
<1> QED BY <1>2, <1>6, <1>7

\* A line is cut into pieces with the next numbers.
LEMMA CutLanes ==
  ASSUME OInv, UNCHANGED serverVars, NEW c \in Clients, NEW line \in Seq(LinePdu),
         TakeLine(c, line), OneDst(line),
         \A i \in DOMAIN line : IsText(line[i], c) => line[i].text.n = sent[c] + i
  PROVE  Lanes' /\ UnicastToOne'
<1>1. Typed /\ Queues
  BY QueuesTyped DEF OInv, IInv
<1>2. /\ UNCHANGED <<conn, s2c, c2s>>
      /\ \A d \in Clients \ {c} : outq'[d] = outq[d] /\ sent'[d] = sent[d]
      /\ outq'[c] = line /\ sent'[c] = sent[c] + Len(line)
  BY <1>1 DEF TakeLine, tcpVars, Queues
<1>3. sent[c] \in Nat /\ Len(line) \in Nat /\ DOMAIN line = 1 .. Len(line)
  BY <1>1 DEF Queues
<1>4. \A d \in Clients : Stream(d)' = Stream(d)
  BY <1>1, <1>2, StreamStays
<1>5. ASSUME NEW from \in Clients, NEW to \in Clients
      PROVE  Lane(Stream(to)', c2s'[from], outq'[from], sent'[from], from)
  <2>1. Lane(Stream(to), c2s[from], outq[from], sent[from], from)
    BY DEF OInv, Lanes
  <2>2. CASE from # c
    BY <1>2, <1>4, <2>1, <2>2
  <2>3. CASE from = c
    <3>1. Lane(Stream(to), c2s[c], line, sent[c] + Len(line), c)
      BY <1>3, <2>1, <2>3, LaneCut
    <3> QED BY <1>2, <1>4, <2>3, <3>1
  <2> QED BY <2>2, <2>3
<1>6. Lanes'
  BY <1>5, LanesFrom
<1>7. UnicastToOne'
  BY <1>2 DEF OInv, UnicastToOne, OneDst
<1> QED BY <1>6, <1>7

LEMMA UserLanes ==
  ASSUME OInv, NEW c \in Clients, UserStep(c)
  PROVE  Lanes' /\ UnicastToOne'
<1>1. Typed /\ UNCHANGED serverVars /\ User(c)
  BY DEF OInv, IInv, UserStep
<1>2. myHandle(c) \in Names
  BY CclientAssumption DEF myHandle
<1>3. \A i \in Nat : Piece(c, i) \in Texts /\ Piece(c, i).n = sent[c] + i
  BY <1>1 DEF Piece, Texts, Typed, ClientsTyped
<1>4. CASE SendBroadcast(c)
  <2>1. PICK chunks \in 1 .. MaxChunks :
          TakeLine(c, [i \in 1 .. chunks |->
            BroadcastPacket(myHandle(c), Piece(c, i))])
    BY <1>4 DEF SendBroadcast
  <2> DEFINE line == [i \in 1 .. chunks |-> BroadcastPacket(myHandle(c), Piece(c, i))]
  <2>2. \A i \in 1 .. chunks :
          /\ BroadcastPacket(myHandle(c), Piece(c, i)) \in LinePdu
          /\ BroadcastPacket(myHandle(c), Piece(c, i)).flag # UNICAST_FLAG
          /\ BroadcastPacket(myHandle(c), Piece(c, i)).text.n = sent[c] + i
    BY <1>2, <1>3 DEF BroadcastPacket, LinePdu, TextPdu, BROADCAST_FLAG, UNICAST_FLAG
  <2>3. /\ line \in Seq(LinePdu) /\ OneDst(line)
        /\ \A i \in DOMAIN line : line[i].text.n = sent[c] + i
    BY <2>2 DEF OneDst
  <2> HIDE DEF line
  <2>4. TakeLine(c, line)
    BY <2>1 DEF line
  <2> QED BY <1>1, <2>3, <2>4, CutLanes
<1>5. CASE SendUnicast(c)
  <2>1. PICK chunks \in 1 .. MaxChunks, dst \in LegalNames :
          TakeLine(c, [i \in 1 .. chunks |->
            MessagePacket(UNICAST_FLAG, myHandle(c), <<dst>>, Piece(c, i))])
    BY <1>5 DEF SendUnicast
  <2> DEFINE line == [i \in 1 .. chunks |->
                        MessagePacket(UNICAST_FLAG, myHandle(c), <<dst>>, Piece(c, i))]
  <2>2. <<dst>> \in Seq(LegalNames) /\ Len(<<dst>>) = 1
    OBVIOUS
  <2>3. \A i \in 1 .. chunks :
          /\ MessagePacket(UNICAST_FLAG, myHandle(c), <<dst>>, Piece(c, i)) \in LinePdu
          /\ Len(MessagePacket(UNICAST_FLAG, myHandle(c), <<dst>>, Piece(c, i)).dsts) = 1
          /\ MessagePacket(UNICAST_FLAG, myHandle(c), <<dst>>, Piece(c, i)).text.n = sent[c] + i
    BY <1>2, <1>3, <2>2 DEF MessagePacket, LinePdu, TextPdu
  <2>4. /\ line \in Seq(LinePdu) /\ OneDst(line)
        /\ \A i \in DOMAIN line : line[i].text.n = sent[c] + i
    BY <2>3 DEF OneDst
  <2> HIDE DEF line
  <2>5. TakeLine(c, line)
    BY <2>1 DEF line
  <2> QED BY <1>1, <2>4, <2>5, CutLanes
<1>6. CASE SendMulticast(c)
  <2>1. PICK chunks \in 1 .. MaxChunks, numOfDst \in HANDLES_MIN .. MaxDsts :
          \E dsts \in [1 .. numOfDst -> LegalNames] :
            TakeLine(c, [i \in 1 .. chunks |->
              MessagePacket(MULTICAST_FLAG, myHandle(c), dsts, Piece(c, i))])
    BY <1>6 DEF SendMulticast
  <2> PICK dsts \in [1 .. numOfDst -> LegalNames] :
          TakeLine(c, [i \in 1 .. chunks |->
            MessagePacket(MULTICAST_FLAG, myHandle(c), dsts, Piece(c, i))])
    BY <2>1
  <2> DEFINE line == [i \in 1 .. chunks |->
                        MessagePacket(MULTICAST_FLAG, myHandle(c), dsts, Piece(c, i))]
  <2>2. dsts \in Seq(LegalNames)
    BY CclientAssumption DEF HANDLES_MIN
  <2>3. \A i \in 1 .. chunks :
          /\ MessagePacket(MULTICAST_FLAG, myHandle(c), dsts, Piece(c, i)) \in LinePdu
          /\ MessagePacket(MULTICAST_FLAG, myHandle(c), dsts, Piece(c, i)).flag # UNICAST_FLAG
          /\ MessagePacket(MULTICAST_FLAG, myHandle(c), dsts, Piece(c, i)).text.n = sent[c] + i
    BY <1>2, <1>3, <2>2 DEF MessagePacket, LinePdu, TextPdu, MULTICAST_FLAG, UNICAST_FLAG
  <2>4. /\ line \in Seq(LinePdu) /\ OneDst(line)
        /\ \A i \in DOMAIN line : line[i].text.n = sent[c] + i
    BY <2>3 DEF OneDst
  <2> HIDE DEF line
  <2>5. TakeLine(c, line)
    BY <2>1 DEF line
  <2> QED BY <1>1, <2>4, <2>5, CutLanes
<1>7. CASE SendHandleList(c)
  <2> DEFINE line == <<ChatHeaderPacket(HANDLE_LIST_FLAG)>>
  <2>1. /\ line \in Seq(LinePdu) /\ DOMAIN line = {1}
        /\ line[1].flag = HANDLE_LIST_FLAG
    BY DEF ChatHeaderPacket, LinePdu
  <2>2. TakeLine(c, line)
    BY <1>7 DEF SendHandleList
  <2> HIDE DEF line
  <2>3. OneDst(line) /\ \A i \in DOMAIN line : ~IsText(line[i], c)
    BY <2>1 DEF OneDst, IsText, TextFlags, HANDLE_LIST_FLAG, BROADCAST_FLAG, UNICAST_FLAG,
                MULTICAST_FLAG
  <2> QED BY <1>1, <2>1, <2>2, <2>3, CutLanes
<1>8. CASE Leave(c)
  BY <1>1, <1>8, ExitLanes DEF Leave
<1>9. CASE ReadFromStdin(c) \/ IgnoreLine(c)
  <2>1. UNCHANGED <<conn, s2c, c2s, outq, sent>>
    BY <1>9 DEF ReadFromStdin, IgnoreLine, tcpVars
  <2>2. \A d \in Clients : Stream(d)' = Stream(d)
    BY <1>1, <2>1, StreamStays
  <2>3. \A from, to \in Clients :
          Lane(Stream(to)', c2s'[from], outq'[from], sent'[from], from)
    BY <2>1, <2>2, Zenon DEF OInv, Lanes
  <2>4. Lanes'
    BY <2>3, LanesFrom
  <2>5. UnicastToOne'
    BY <2>1 DEF OInv, UnicastToOne, OneDst
  <2> QED BY <2>4, <2>5
<1> QED BY <1>1, <1>4, <1>5, <1>6, <1>7, <1>8, <1>9 DEF User

LEMMA ProgramLanes ==
  ASSUME OInv, NEW c \in Clients, ProgramStep(c)
  PROVE  Lanes' /\ UnicastToOne'
<1>1. UNCHANGED serverVars /\ Program(c)
  BY DEF ProgramStep
<1>2. CASE Exit(c)
  BY <1>1, <1>2, ExitLanes
<1>3. CASE InitConnectHandle(c) /\ ~Exit(c)
  <2> DEFINE hello == HandleOnlyPacket(INIT_CONNECT_FLAG, myHandle(c))
  <2>1. ClientSendReturns(c, hello) /\ UNCHANGED <<outq, sent>>
    BY <1>3 DEF InitConnectHandle
  <2>2. hello.flag = INIT_CONNECT_FLAG
    BY DEF HandleOnlyPacket
  <2> HIDE DEF hello
  <2> QED BY <1>1, <2>1, <2>2, HelloLanes
<1>4. CASE SendPDU(c) /\ ~Exit(c)
  BY <1>1, <1>4, PieceLanes DEF SendPDU
<1>5. CASE /\ RecvConnectAnswer(c) \/ ProcessMsgFromServer(c) \/ FlagListBegin(c)
           /\ ~Exit(c)
  <2>1. ClientRecv(c) /\ UNCHANGED <<outq, sent>>
    BY <1>5 DEF RecvConnectAnswer, ProcessMsgFromServer, FlagListBegin
  <2> QED BY <1>1, <2>1, RecvLanes
<1> QED BY <1>1, <1>2, <1>3, <1>4, <1>5 DEF Program

LEMMA ConnectLanes ==
  ASSUME OInv, NEW c \in Clients, ConnectStep(c)
  PROVE  Lanes' /\ UnicastToOne'
<1>1. UNCHANGED serverVars /\ UNCHANGED <<conn, c2s, s2c, outq, sent>>
  BY DEF ConnectStep, Connect, ResolveFails, ConnectCall, tcpVars
<1> QED BY <1>1, StillLanes

------------------------------------------------------------------------------
(* The steps of the server. *)

\* A PDU of c is taken; those of the sends that are texts are copies of it, and
\* a client gets it more than once only if it is a multicast that repeats itself.
Copies(todo, pdu) ==
  /\ \A i \in DOMAIN todo : todo[i].pdu.flag \in TextFlags => todo[i].pdu = pdu
  /\ \A i, j \in DOMAIN todo :
       /\ i # j /\ conn[todo[i].sock] = conn[todo[j].sock]
       /\ todo[i].pdu.flag \in TextFlags /\ todo[j].pdu.flag \in TextFlags
       => Repeats(pdu)

LEMMA PendingCopies ==
  ASSUME NEW todo \in Seq(Sends), NEW pdu, Copies(todo, pdu), NEW d, NEW from
  PROVE  LET q == PendingOf(todo, d)
         IN /\ q \in Seq(ServerPdu)
            /\ \A k \in DOMAIN q : IsText(q[k], from) => q[k] = pdu
            /\ \A k, l \in DOMAIN q :
                 k # l /\ IsText(q[k], from) /\ IsText(q[l], from) => Repeats(pdu)
<1> DEFINE q == PendingOf(todo, d)
<1> PICK n, f :
       /\ n \in Nat
       /\ Numbers(f, n, Mine(todo, d))
       /\ q = [k \in 1 .. n |-> todo[f[k]].pdu]
       /\ q \in Seq(ServerPdu)
  BY PendingEnumerates
<1>1. /\ q \in Seq(ServerPdu) /\ DOMAIN q = 1 .. n
      /\ \A k \in 1 .. n : q[k] = todo[f[k]].pdu
  OBVIOUS
<1>2. \A k \in 1 .. n : f[k] \in DOMAIN todo /\ conn[todo[f[k]].sock] = d
  BY DEF Numbers, Mine
<1>3. \A k, l \in 1 .. n : k # l => f[k] # f[l]
  <2> SUFFICES ASSUME NEW k \in 1 .. n, NEW l \in 1 .. n, k # l, f[k] = f[l]
               PROVE  FALSE
    OBVIOUS
  <2>1. k < l \/ l < k
    OBVIOUS
  <2>2. \A i \in DOMAIN todo : i \in Int
    OBVIOUS
  <2>3. f[k] < f[l] \/ f[l] < f[k]
    BY <2>1 DEF Numbers
  <2>4. f[k] \in Int
    BY <1>2, <2>2
  <2> QED BY <2>3, <2>4
<1> HIDE DEF q
<1>4. \A k \in DOMAIN q : IsText(q[k], from) => q[k] = pdu
  BY <1>1, <1>2 DEF IsText, Copies
<1>5. \A k, l \in DOMAIN q :
        k # l /\ IsText(q[k], from) /\ IsText(q[l], from) => Repeats(pdu)
  BY <1>1, <1>2, <1>3 DEF IsText, Copies
<1> QED BY <1>1, <1>4, <1>5 DEF q

LEMMA ServiceLanes ==
  ASSUME OInv, Typed', NEW fd \in Fds, NEW flag, Received(fd, flag), UNCHANGED clientVars,
         NEW todo \in Seq(Sends), job'.todo = todo, Copies(todo, Pdu(fd))
  PROVE  Lanes' /\ UnicastToOne'
<1> DEFINE c == conn[fd]
           pdu == Pdu(fd)
<1>1. Typed /\ Queues /\ Queues'
  BY QueuesTyped DEF OInv, IInv
<1>2. /\ c \in Clients /\ c2s[c] # <<>> /\ pdu = c2s[c][1] /\ alive /\ job.todo = <<>>
  BY <1>1, ReceivedTyped DEF NoJob
<1>3. /\ conn' = conn /\ s2c' = s2c /\ outq' = outq /\ sent' = sent
      /\ c2s'[c] = Tail(c2s[c]) /\ \A d \in Clients \ {c} : c2s'[d] = c2s[d]
  BY <1>1, <1>2 DEF Received, ServerRecv, clientVars, Queues
<1>4. c2s[c] \in Seq(ClientPdu)
  BY <1>1, <1>2 DEF Queues
<1>5. /\ 1 \in DOMAIN c2s[c]
      /\ Part(Tail(c2s[c]), c2s[c]) /\ AllButFirst(Tail(c2s[c]), c2s[c])
  BY <1>2, <1>4, QueueParts
<1>6. Honest(c, pdu)
  BY <1>2, <1>5 DEF OInv, IInv, Live, OwnPdus
<1> HIDE DEF c, pdu
<1>7. ASSUME NEW from \in Clients, NEW to \in Clients
      PROVE  Lane(Stream(to)', c2s'[from], outq'[from], sent'[from], from)
  <2> DEFINE q == PendingOf(todo, to)
  <2>1. Lane(Stream(to), c2s[from], outq[from], sent[from], from)
    BY DEF OInv, Lanes
  <2>2. Stream(to) = s2c[to] /\ Stream(to)' = s2c[to] \o q /\ s2c[to] \in Seq(ServerPdu)
    BY <1>1, <1>2, <1>3, IdleStreams, StreamIs DEF Queues
  <2>3. /\ q \in Seq(ServerPdu)
        /\ \A k \in DOMAIN q : IsText(q[k], from) => q[k] = pdu
        /\ \A k, l \in DOMAIN q :
             k # l /\ IsText(q[k], from) /\ IsText(q[l], from) => Repeats(pdu)
    BY PendingCopies DEF pdu
  <2> HIDE DEF q
  <2>4. CASE from = c
    <3>1. Added(s2c[to] \o q, s2c[to], pdu, from)
      BY <2>2, <2>3, ConcatAdds
    <3>2. Indexed(s2c[to] \o q)
      <4>1. s2c[to] \o q \in Seq(ServerPdu)
        BY <2>2, <2>3
      <4> QED BY <4>1, QueueParts
    <3>3. Added(Stream(to)', Stream(to), c2s[c][1], c) /\ Indexed(Stream(to)')
      BY <1>2, <2>2, <2>4, <3>1, <3>2
    <3>4. Indexed(Stream(to))
      BY <2>2, QueueParts
    <3>5. Indexed(c2s'[c]) /\ AllButFirst(c2s'[c], c2s[c])
      BY <1>3, <1>5 DEF Part
    <3>6. Lane(Stream(to)', c2s'[c], outq[c], sent[c], c)
      BY <1>5, <2>1, <2>4, <3>3, <3>4, <3>5, LaneServed
    <3> QED BY <1>3, <2>4, <3>6
  <2>5. CASE from # c
    <3>1. \A k \in DOMAIN q : ~IsText(q[k], from)
      BY <1>6, <2>3, <2>5 DEF IsText, Honest
    <3>2. NoNewTexts(s2c[to] \o q, s2c[to], from)
      BY <2>2, <2>3, <3>1, ConcatAside
    <3>3. NoNewTexts(c2s[from], c2s[from], from)
      BY DEF NoNewTexts
    <3>4. Lane(Stream(to)', c2s[from], outq[from], sent[from], from)
      BY <2>1, <2>2, <3>2, <3>3, LaneAside
    <3> QED BY <1>3, <2>5, <3>4
  <2> QED BY <2>4, <2>5
<1>8. Lanes'
  BY <1>7, LanesFrom
<1>9. UnicastToOne'
  <2>1. OneDst(c2s[c])
    BY <1>2 DEF OInv, UnicastToOne
  <2>2. OneDst(c2s'[c])
    BY <1>3, <1>5, <2>1 DEF Part, OneDst
  <2> QED BY <1>3, <2>2 DEF OInv, UnicastToOne, OneDst
<1> QED BY <1>8, <1>9

LEMMA NoCopies ==
  ASSUME NEW todo, NEW pdu, \A i \in DOMAIN todo : todo[i].pdu.flag \notin TextFlags
  PROVE  Copies(todo, pdu)
BY DEF Copies

\* Two entries of the table are never for one client.
LEMMA EntriesApart ==
  ASSUME IInv, alive, NEW i \in HT!ValidSlots, NEW j \in HT!ValidSlots,
         conn[SocketAt(i)] = conn[SocketAt(j)]
  PROVE  i = j
<1>1. Typed /\ EntriesLive
  BY DEF IInv, Live
<1>2. <<HandleAt(i), SocketAt(i)>> \in HT!Bindings /\ <<HandleAt(j), SocketAt(j)>> \in HT!Bindings
  BY <1>1, SameBindings
<1>3. HandleAt(i) = HandleAt(j)
  BY <1>1, <1>2 DEF EntriesLive
<1>4. HTP!UniqueNames /\ HTP!ValidSlots = HT!ValidSlots
  BY <1>1, SameTable DEF Typed, ServerTyped, HTP!IInv
<1> QED BY <1>3, <1>4 DEF HTP!UniqueNames, HandleAt

LEMMA BroadcastLanes ==
  ASSUME OInv, Typed', NEW fd \in Fds, FlagBroadcast(fd), UNCHANGED clientVars
  PROVE  Lanes' /\ UnicastToOne'
<1> DEFINE pdu == Pdu(fd)
           todo == BroadcastSends(fd, pdu)
           others == {i \in HT!ValidSlots : SocketAt(i) # fd}
           n == Cardinality(others)
<1>1. Typed /\ Received(fd, BROADCAST_FLAG) /\ job' = Job(fd, todo, FALSE)
  BY DEF FlagBroadcast, OInv, IInv
<1>2. pdu \in ServerPdu /\ alive
  BY <1>1, ReceivedTyped, PduKinds DEF TextFlags
<1>3. job'.todo = todo
  BY <1>1 DEF Job, NoJob
<1> HIDE DEF pdu
<1>4. /\ todo \in Seq(Sends) /\ Len(todo) = n /\ n \in Nat
      /\ \A k \in 1 .. n :
           InOrder(others)[k] \in others /\ todo[k] = Send(SocketAt(InOrder(others)[k]), pdu)
  BY <1>1, <1>2, BroadcastTyped
<1>5. others \in SUBSET Nat /\ IsFiniteSet(others)
  <2>1. others \in SUBSET HT!ValidSlots
    OBVIOUS
  <2> QED BY <1>1, <2>1, TableTyped, FS_Subset
<1>6. others \in SUBSET HT!ValidSlots
  OBVIOUS
<1> HIDE DEF todo, others
<1>7. \A k, l \in 1 .. n : k < l => InOrder(others)[k] < InOrder(others)[l]
  BY <1>5, InOrderEnumerates
<1> HIDE DEF n
<1>8. \A k, l \in 1 .. n : k # l => InOrder(others)[k] # InOrder(others)[l]
  <2> SUFFICES ASSUME NEW k \in 1 .. n, NEW l \in 1 .. n, k # l,
                      InOrder(others)[k] = InOrder(others)[l]
               PROVE  FALSE
    OBVIOUS
  <2>1. k < l \/ l < k
    BY <1>4
  <2>2. InOrder(others)[k] \in Nat
    BY <1>4, <1>5
  <2> QED BY <1>7, <2>1, <2>2
<1>9. DOMAIN todo = 1 .. n
  BY <1>4
<1>10. ASSUME NEW k \in 1 .. n, NEW l \in 1 .. n,
              conn[todo[k].sock] = conn[todo[l].sock]
       PROVE  k = l
  <2>1. /\ todo[k].sock = SocketAt(InOrder(others)[k])
        /\ todo[l].sock = SocketAt(InOrder(others)[l])
    BY <1>4 DEF Send
  <2>2. InOrder(others)[k] \in HT!ValidSlots /\ InOrder(others)[l] \in HT!ValidSlots
    BY <1>4, <1>6
  <2>3. InOrder(others)[k] = InOrder(others)[l]
    BY <1>2, <1>10, <2>1, <2>2, EntriesApart DEF OInv
  <2> QED BY <1>8, <2>3
<1>11. \A k \in 1 .. n : todo[k].pdu = pdu
  BY <1>4 DEF Send
<1>12. Copies(todo, pdu)
  BY <1>9, <1>10, <1>11 DEF Copies
<1> QED BY <1>1, <1>3, <1>4, <1>12, ServiceLanes DEF pdu

LEMMA ForwardLanes ==
  ASSUME OInv, Typed', NEW fd \in Fds, FlagUnicast(fd) \/ FlagMulticast(fd),
         UNCHANGED clientVars
  PROVE  Lanes' /\ UnicastToOne'
<1> DEFINE pdu == Pdu(fd)
           todo == Forward(fd, pdu)
<1>1. PICK flag \in {UNICAST_FLAG, MULTICAST_FLAG} :
        Received(fd, flag) /\ job' = Job(fd, todo, FALSE)
  BY DEF FlagUnicast, FlagMulticast
<1>2. Typed
  BY DEF OInv, IInv
<1>3. /\ pdu \in TextPdu /\ pdu.flag = flag /\ alive
      /\ conn[fd] \in Clients /\ c2s[conn[fd]] # <<>> /\ pdu = c2s[conn[fd]][1]
  BY <1>1, <1>2, ReceivedTyped, PduKinds DEF TextFlags
<1>4. job'.todo = todo
  BY <1>1 DEF Job, NoJob
<1>5. pdu.flag = UNICAST_FLAG => Len(pdu.dsts) = 1
  <2>1. c2s[conn[fd]] \in Seq(ClientPdu)
    BY <1>2, <1>3, QueuesTyped DEF Queues
  <2>2. 1 \in DOMAIN c2s[conn[fd]]
    BY <1>3, <2>1, QueueParts
  <2>3. OneDst(c2s[conn[fd]])
    BY <1>3 DEF OInv, UnicastToOne
  <2> HIDE DEF pdu
  <2> QED BY <1>3, <2>2, <2>3 DEF OneDst
<1> HIDE DEF pdu
<1>6. pdu.dsts \in Seq(LegalNames)
  BY <1>1, <1>3, PduKinds
<1>7. /\ todo \in Seq(Sends) /\ Len(todo) = Len(pdu.dsts)
      /\ \A k \in 1 .. Len(pdu.dsts) : todo[k] = ForwardTo(fd, pdu, pdu.dsts[k])
  BY <1>1, <1>2, <1>3, ForwardTyped
<1> HIDE DEF todo
<1>8. DOMAIN todo = 1 .. Len(pdu.dsts) /\ DOMAIN pdu.dsts = 1 .. Len(pdu.dsts)
      /\ Len(pdu.dsts) \in Nat
  BY <1>6, <1>7
\* A send of a text is a copy for the client that has the destination's name.
<1>9. ASSUME NEW k \in DOMAIN todo, todo[k].pdu.flag \in TextFlags
      PROVE  todo[k].pdu = pdu /\ ArgvHandle[conn[todo[k].sock]] = pdu.dsts[k]
  <2> DEFINE name == pdu.dsts[k]
             g == HT!LookupSocket(name)
  <2>1. todo[k] = ForwardTo(fd, pdu, name)
    BY <1>7, <1>8
  <2>2. CASE g = -1
    <3>1. todo[k].pdu.flag = HANDLE_ERR_FLAG
      BY <2>1, <2>2 DEF ForwardTo, Send, HandleOnlyPacket
    <3> QED BY <1>9, <3>1 DEF TextFlags, HANDLE_ERR_FLAG, BROADCAST_FLAG, UNICAST_FLAG,
                              MULTICAST_FLAG
  <2>3. CASE g # -1
    <3>1. todo[k].pdu = pdu /\ todo[k].sock = g
      BY <2>1, <2>3 DEF ForwardTo, Send
    <3>2. <<name, g>> \in HT!Bindings
      BY <1>2, <2>3, LookupFindsBinding
    <3> HIDE DEF g, name
    <3>3. ArgvHandle[conn[g]] = name
      BY <1>3, <3>2 DEF OInv, IInv, Live, EntriesLive
    <3> QED BY <3>1, <3>3 DEF name
  <2> QED BY <2>2, <2>3
<1>10. Copies(todo, pdu)
  <2> SUFFICES ASSUME NEW i \in DOMAIN todo, NEW j \in DOMAIN todo, i # j,
                      conn[todo[i].sock] = conn[todo[j].sock],
                      todo[i].pdu.flag \in TextFlags, todo[j].pdu.flag \in TextFlags
               PROVE  Repeats(pdu)
    BY <1>9 DEF Copies
  <2>1. pdu.dsts[i] = pdu.dsts[j]
    BY <1>9
  <2>2. Len(pdu.dsts) # 1
    <3>1. i \in 1 .. Len(pdu.dsts) /\ j \in 1 .. Len(pdu.dsts) /\ Len(pdu.dsts) \in Nat
      BY <1>8
    <3> DEFINE n == Len(pdu.dsts)
    <3> HIDE DEF n
    <3>2. i \in 1 .. n /\ j \in 1 .. n
      BY <3>1 DEF n
    <3>3. n # 1
      BY <3>2
    <3> QED BY <3>3 DEF n
  <2>3. pdu.flag = MULTICAST_FLAG
    BY <1>1, <1>3, <1>5, <2>2
  <2> QED BY <1>8, <2>1, <2>3 DEF Repeats
<1> QED BY <1>1, <1>4, <1>7, <1>10, ServiceLanes DEF pdu

LEMMA HandleListLanes ==
  ASSUME OInv, Typed', NEW fd \in Fds, FlagHandleList(fd), UNCHANGED clientVars
  PROVE  Lanes' /\ UnicastToOne'
<1> DEFINE todo == HandleListSends(fd)
           n == Cardinality(HT!ValidSlots)
<1>1. Typed /\ Received(fd, HANDLE_LIST_FLAG) /\ job' = Job(fd, todo, FALSE)
  BY DEF FlagHandleList, OInv, IInv
<1>2. job'.todo = todo
  BY <1>1 DEF Job, NoJob
<1>3. /\ n \in Nat /\ todo \in Seq(Sends) /\ Len(todo) = n + 2
      /\ todo[1] = Send(fd, ListCountPacket(tableCount))
      /\ \A i \in 1 .. n : todo[i + 1] =
           Send(fd, HandleOnlyPacket(HANDLE_ITEM_FLAG, HandleAt(Walk[i])))
      /\ todo[n + 2] = Send(fd, ChatHeaderPacket(HANDLE_FINISH_FLAG))
  BY <1>1, HandleListElements
<1> HIDE DEF todo, n
<1>4. DOMAIN todo = 1 .. n + 2
  BY <1>3
<1>5. \A i \in 1 .. n + 2 : i = 1 \/ i = n + 2 \/ (i - 1 \in 1 .. n /\ i = (i - 1) + 1)
  BY <1>3
<1>6. /\ todo[1].pdu.flag \notin TextFlags /\ todo[n + 2].pdu.flag \notin TextFlags
      /\ \A i \in 1 .. n : todo[i + 1].pdu.flag \notin TextFlags
  <2>1. \A name : Send(fd, HandleOnlyPacket(HANDLE_ITEM_FLAG, name)).pdu.flag = HANDLE_ITEM_FLAG
    BY DEF Send, HandleOnlyPacket
  <2>2. /\ todo[1].pdu.flag = HANDLE_LIST_RESP_FLAG /\ todo[n + 2].pdu.flag = HANDLE_FINISH_FLAG
    BY <1>3 DEF Send, ListCountPacket, ChatHeaderPacket
  <2>3. \A i \in 1 .. n : todo[i + 1].pdu.flag = HANDLE_ITEM_FLAG
    BY <1>3, <2>1
  <2> QED BY <2>2, <2>3 DEF TextFlags, HANDLE_LIST_RESP_FLAG, HANDLE_ITEM_FLAG,
             HANDLE_FINISH_FLAG, BROADCAST_FLAG, UNICAST_FLAG, MULTICAST_FLAG
<1>7. \A i \in DOMAIN todo : todo[i].pdu.flag \notin TextFlags
  BY <1>4, <1>5, <1>6
<1> QED BY <1>1, <1>2, <1>3, <1>7, NoCopies, ServiceLanes

LEMMA FlagConnectLanes ==
  ASSUME OInv, Typed', NEW fd \in Fds, FlagConnect(fd), UNCHANGED clientVars
  PROVE  Lanes' /\ UnicastToOne'
<1>1. PICK flag \in {GOOD_CONNECT_FLAG, BAD_CONNECT_FLAG} :
        job'.todo = <<Send(fd, ChatHeaderPacket(flag))>>
  BY DEF FlagConnect, Job, NoJob
<1> DEFINE todo == <<Send(fd, ChatHeaderPacket(flag))>>
<1>2. ChatHeaderPacket(flag) \in ServerPdu
  BY AnswersTyped
<1>3. /\ todo \in Seq(Sends) /\ DOMAIN todo = {1} /\ todo[1].pdu.flag = flag
  BY <1>2 DEF Send, Sends, ChatHeaderPacket
<1>4. flag \notin TextFlags
  BY DEF TextFlags, GOOD_CONNECT_FLAG, BAD_CONNECT_FLAG, BROADCAST_FLAG, UNICAST_FLAG,
         MULTICAST_FLAG
<1>5. job'.todo = todo
  BY <1>1
<1> HIDE DEF todo
<1>6. Copies(todo, Pdu(fd))
  BY <1>3, <1>4, NoCopies
<1> QED BY <1>3, <1>5, <1>6, ServiceLanes DEF FlagConnect

\* The end of connections: nothing is under way on them any more.
LEMMA CloseLanes ==
  ASSUME OInv, Typed', NEW lost, CloseServerEnds(lost), job' = NoJob, UNCHANGED clientVars
  PROVE  Lanes' /\ UnicastToOne'
<1>1. Typed /\ Queues
  BY QueuesTyped DEF OInv, IInv
<1>2. job'.todo = <<>>
  BY DEF NoJob
<1>3. ASSUME NEW d \in Clients
      PROVE  /\ Part(Stream(d)', Stream(d))
             /\ Part(c2s'[d], c2s[d]) /\ Part(outq'[d], outq[d])
  <2>1. Stream(d)' = s2c'[d]
    BY <1>2, IdleStreams
  <2>2. /\ s2c'[d] = s2c[d] \/ s2c'[d] = <<>>
        /\ c2s'[d] = c2s[d] \/ c2s'[d] = <<>>
        /\ outq' = outq
    BY DEF CloseServerEnds, clientVars
  <2> QED BY <1>1, <2>1, <2>2, StreamParts, PartsOfQueues
<1>4. sent' = sent
  BY DEF clientVars
<1> QED BY <1>3, <1>4, ThinLanes

LEMMA ServerLanes ==
  ASSUME OInv, Typed', ServerStep
  PROVE  Lanes' /\ UnicastToOne'
<1>1. Typed /\ UNCHANGED clientVars
  BY DEF OInv, IInv, ServerStep
<1>2. ASSUME UNCHANGED <<c2s, outq, sent>>, \A d \in Clients : Stream(d)' = Stream(d)
      PROVE  Lanes' /\ UnicastToOne'
  <2>1. ASSUME NEW d \in Clients
        PROVE  /\ Part(Stream(d)', Stream(d))
               /\ Part(c2s'[d], c2s[d]) /\ Part(outq'[d], outq[d])
    BY <1>1, <1>2, StreamParts, PartsOfQueues
  <2> QED BY <1>2, <2>1, ThinLanes
<1>3. CASE SendNext
  <2>1. \A d \in Clients : Stream(d)' = Stream(d)
    BY <1>1, <1>3, StreamKept
  <2> QED BY <1>1, <1>2, <1>3, <2>1 DEF SendNext, ServerSendReturns, clientVars
<1>4. ASSUME NEW fd \in Fds, AddNewClient(fd)
      PROVE  Lanes' /\ UnicastToOne'
  <2>1. UNCHANGED <<c2s, s2c, job>> /\ job.todo = <<>>
    BY <1>4, IdleServer DEF AddNewClient, AcceptCall
  <2>2. \A d \in Clients : Stream(d)' = Stream(d)
    BY <1>1, <2>1, IdleStreams
  <2> QED BY <1>1, <1>2, <2>1, <2>2 DEF clientVars
<1>5. CASE ServerDies
  BY <1>1, <1>5, CloseLanes DEF ServerDies, ServerExit
<1>6. CASE CloseRejected
  BY <1>1, <1>6, CloseLanes DEF CloseRejected, ServerClose
<1>7. ASSUME NEW fd \in Fds, Disconnect(fd)
      PROVE  Lanes' /\ UnicastToOne'
  <2>1. job' = NoJob
    BY <1>7 DEF Disconnect, Polling
  <2> QED BY <1>1, <1>7, <2>1, CloseLanes DEF Disconnect, ServerClose
<1> QED BY <1>1, <1>3, <1>4, <1>5, <1>6, <1>7, FlagConnectLanes, BroadcastLanes,
           ForwardLanes, HandleListLanes
        DEF ServerStep, ServerNext, AcceptExits, SendKillsServer

------------------------------------------------------------------------------
(* The theorem. *)

LEMMA InitOrder == Init => OInv
<1> SUFFICES ASSUME Init PROVE OInv
  OBVIOUS
<1>1. IInv /\ Typed
  BY InitInv DEF IInv
<1>2. /\ job.todo = <<>>
      /\ \A c \in Clients : s2c[c] = <<>> /\ c2s[c] = <<>> /\ outq[c] = <<>>
  BY DEF Init, TcpInit, ServerInit, ClientInit, NoJob
<1>3. \A c \in Clients : Stream(c) = <<>>
  BY <1>1, <1>2, IdleStreams
<1>4. \A n, from : Lane(<<>>, <<>>, <<>>, n, from)
  BY DEF Lane, Rising, Precedes, UpTo
<1>5. Lanes
  BY <1>2, <1>3, <1>4 DEF Lanes
<1>6. UnicastToOne
  <2>1. OneDst(<<>>)
    BY DEF OneDst
  <2> QED BY <1>2, <2>1 DEF UnicastToOne
<1> QED BY <1>1, <1>5, <1>6 DEF OInv

LEMMA NextOrder == OInv /\ [Next]_vars => OInv'
<1> SUFFICES ASSUME OInv, [Next]_vars PROVE OInv'
  OBVIOUS
<1>1. IInv' /\ Typed'
  BY NextInv DEF OInv, IInv
<1>2. ASSUME UNCHANGED vars
      PROVE  Lanes' /\ UnicastToOne'
  BY <1>2, StillLanes DEF vars, tcpVars, serverVars, clientVars
<1>3. ASSUME ServerStep
      PROVE  Lanes' /\ UnicastToOne'
  BY <1>1, <1>3, ServerLanes
<1>4. ASSUME NEW c \in Clients,
             \/ ConnectStep(c)
             \/ UserStep(c)
             \/ ProgramStep(c)
             \/ NetworkStep(c)
      PROVE  Lanes' /\ UnicastToOne'
  BY <1>4, ConnectLanes, UserLanes, ProgramLanes, NetworkLanes
<1>5. Lanes' /\ UnicastToOne'
  BY <1>2, <1>3, <1>4 DEF Next
<1> QED BY <1>1, <1>5 DEF OInv

\* Between any two clients the pieces stand in the order of their numbers, in each
\* queue and from one queue to the next, in every state: the server (server.c,
\* flagBroadcast to flagHandleList) and the client (cclient.c) take PDUs from the
\* front of a queue and add them at the end of the next.
THEOREM OrderInvariance == Spec => []OInv
BY InitOrder, NextOrder, PTL DEF Spec

\* Two queues in order make one in order.
LEMMA ConcatRises ==
  ASSUME NEW S, NEW s \in Seq(S), NEW t \in Seq(S), NEW from,
         Rising(s, from), Rising(t, from), Precedes(s, t, from)
  PROVE  Rising(s \o t, from)
<1>1. /\ Len(s) \in Nat /\ Len(t) \in Nat
      /\ DOMAIN s = 1 .. Len(s) /\ DOMAIN t = 1 .. Len(t)
      /\ DOMAIN (s \o t) = 1 .. Len(s) + Len(t)
      /\ \A i \in DOMAIN (s \o t) :
           \/ i \in DOMAIN s /\ (s \o t)[i] = s[i]
           \/ i - Len(s) \in DOMAIN t /\ (s \o t)[i] = t[i - Len(s)]
  BY ConcatElements
<1> DEFINE u == s \o t
           n == Len(s)
<1>2. DOMAIN u \subseteq Nat /\ DOMAIN s = 1 .. n /\ DOMAIN t \subseteq Nat \ {0} /\ n \in Nat
  BY <1>1
<1>3. \A i \in DOMAIN u :
        \/ i \in DOMAIN s /\ u[i] = s[i]
        \/ i - n \in DOMAIN t /\ u[i] = t[i - n]
  BY <1>1
<1> HIDE DEF u, n
<1> SUFFICES ASSUME NEW i \in DOMAIN u, NEW j \in DOMAIN u, i < j,
                    IsText(u[i], from), IsText(u[j], from)
             PROVE  Before(u[i], u[j])
  BY DEF Rising, u
<1>4. CASE i \in DOMAIN s /\ u[i] = s[i] /\ j \in DOMAIN s /\ u[j] = s[j]
  BY <1>4 DEF Rising
<1>5. CASE /\ i \in DOMAIN s /\ u[i] = s[i]
           /\ j - n \in DOMAIN t /\ u[j] = t[j - n]
  BY <1>5 DEF Precedes
<1>6. CASE /\ i - n \in DOMAIN t /\ u[i] = t[i - n]
           /\ j - n \in DOMAIN t /\ u[j] = t[j - n]
  <2>1. i - n < j - n
    BY <1>2
  <2> QED BY <1>6, <2>1 DEF Rising
<1>7. ~(i - n \in DOMAIN t /\ j \in DOMAIN s)
  BY <1>2
<1> QED BY <1>3, <1>4, <1>5, <1>6, <1>7

LEMMA ConcatPrecedes ==
  ASSUME NEW S, NEW s \in Seq(S), NEW t \in Seq(S), NEW u, NEW from,
         Precedes(s, u, from), Precedes(t, u, from)
  PROVE  Precedes(s \o t, u, from)
<1>1. \A i \in DOMAIN (s \o t) :
        \/ i \in DOMAIN s /\ (s \o t)[i] = s[i]
        \/ i - Len(s) \in DOMAIN t /\ (s \o t)[i] = t[i - Len(s)]
  BY ConcatElements
<1> DEFINE v == s \o t
<1> HIDE DEF v
<1>2. \A i \in DOMAIN v :
        \/ i \in DOMAIN s /\ v[i] = s[i]
        \/ i - Len(s) \in DOMAIN t /\ v[i] = t[i - Len(s)]
  BY <1>1 DEF v
<1>3. Precedes(v, u, from)
  BY <1>2 DEF Precedes
<1> QED BY <1>3 DEF v

LEMMA LaneRises ==
  ASSUME NEW S, NEW stream \in Seq(S), NEW socket \in Seq(S), NEW line \in Seq(S),
         NEW n, NEW from, Lane(stream, socket, line, n, from)
  PROVE  Rising(stream \o socket \o line, from)
<1> DEFINE way == stream \o socket
<1>1. way \in Seq(S)
  OBVIOUS
<1>2. Rising(way, from) /\ Precedes(way, line, from)
  BY ConcatRises, ConcatPrecedes DEF Lane
<1>3. Rising(line, from)
  BY DEF Lane
<1> HIDE DEF way
<1>4. Rising(way \o line, from)
  BY <1>1, <1>2, <1>3, ConcatRises
<1> QED BY <1>4 DEF way

LEMMA LanesInOrder == OInv => OrderedDelivery
<1> SUFFICES ASSUME OInv, NEW from \in Clients, NEW to \in Clients
             PROVE  Rising(Stream(to) \o c2s[from] \o outq[from], from)
  BY DEF OrderedDelivery, Rising, Before, IsText, Repeats
<1>1. Typed /\ Queues
  BY QueuesTyped DEF OInv, IInv
<1> DEFINE P == ServerPdu \cup ClientPdu \cup LinePdu
<1>2. /\ Stream(to) \in Seq(ServerPdu) /\ c2s[from] \in Seq(ClientPdu)
      /\ outq[from] \in Seq(LinePdu)
  BY <1>1, StreamParts DEF Queues
<1>3. \A A, B : A \subseteq B => Seq(A) \subseteq Seq(B)
  BY SeqMonotonic
<1>4. ServerPdu \subseteq P /\ ClientPdu \subseteq P /\ LinePdu \subseteq P
  OBVIOUS
<1> HIDE DEF P
<1>5. Stream(to) \in Seq(P) /\ c2s[from] \in Seq(P) /\ outq[from] \in Seq(P)
  BY <1>2, <1>3, <1>4
<1>6. Lane(Stream(to), c2s[from], outq[from], sent[from], from)
  BY DEF OInv, Lanes
<1> QED BY <1>5, <1>6, LaneRises

\* What a client reads, what is under way to it, and what another has still to
\* send it, hold that other client's pieces in the order in which its lines were
\* cut (cclient.c), and none of them twice, unless a multicast names the client
\* twice: neither the server's forwarding (flagBroadcast, flagUnicast and
\* flagMulticast in server.c) nor the end of a connection lets a piece overtake
\* another.
THEOREM TextsInOrder == Spec => []OrderedDelivery
BY OrderInvariance, LanesInOrder, PTL
==============================================================================
