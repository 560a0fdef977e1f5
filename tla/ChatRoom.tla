------------------------------- MODULE ChatRoom -------------------------------
(***************************************************************************)
(* What the server promises its clients: a room that handles one request   *)
(* at a time, in one step, in the order in which a client made them.  A    *)
(* member holds a handle nobody else holds; a message reaches, once and    *)
(* complete, exactly the members it is for; a list names the members of    *)
(* one moment, and nothing comes in between its parts.  Nobody is put out  *)
(* of the room who has not left it.                                        *)
(*                                                                         *)
(* An inbox holds what a client will read, in the order in which it will.  *)
(* What is on its way to a client that has left is of no interest.         *)
(***************************************************************************)
EXTENDS Integers, Sequences, FiniteSets, ChatPacket, LoopOrder

CONSTANT Clients

VARIABLES
  up,        \* the server runs
  members,   \* pairs <<handle, client>>
  left,      \* the clients that have gone
  requests,  \* the PDUs of each client not handled yet
  inbox      \* the PDUs each client has still to read

vars == <<up, members, left, requests, inbox>>

Held(name) == \E m \in members : m[1] = name
Member(c) == \E m \in members : m[2] = c

Init ==
  /\ up = TRUE
  /\ members = {}
  /\ left = {}
  /\ requests = [c \in Clients |-> <<>>]
  /\ inbox = [c \in Clients |-> <<>>]

\* A client makes a request, whatever it is.
Ask(c) ==
  /\ Len(requests'[c]) = Len(requests[c]) + 1
  /\ requests' = [requests EXCEPT ![c] =
       Append(@, requests'[c][Len(requests'[c])])]
  /\ UNCHANGED <<up, members, left, inbox>>

Read(c) ==
  /\ inbox[c] # <<>>
  /\ inbox' = [inbox EXCEPT ![c] = Tail(@)]
  /\ UNCHANGED <<up, members, left, requests>>

Leave(c) ==
  /\ left' = left \cup {c}
  /\ inbox' = [inbox EXCEPT ![c] = <<>>]
  /\ UNCHANGED <<up, members, requests>>

------------------------------------------------------------------------------
(* Requests. *)

Request(c) == Head(requests[c])

\* The room takes c's next request, which has this flag.
Take(c, flag) ==
  /\ up
  /\ requests[c] # <<>>
  /\ Request(c).flag = flag
  /\ requests' = [requests EXCEPT ![c] = Tail(@)]
  /\ UNCHANGED <<up, left>>

\* Every client that is still there gets what new has for it.
Deliver(new) ==
  inbox' = [c \in Clients |-> IF c \in left THEN <<>> ELSE inbox[c] \o new[c]]

DeliverTo(c, pdus) ==
  Deliver([d \in Clients |-> IF d = c THEN pdus ELSE <<>>])

Join(c) ==
  /\ Take(c, INIT_CONNECT_FLAG)
  /\ Request(c).handle \in LegalNames
  /\ ~Held(Request(c).handle)
  /\ members' = members \cup {<<Request(c).handle, c>>}
  /\ DeliverTo(c, <<ChatHeaderPacket(GOOD_CONNECT_FLAG)>>)

Refuse(c) ==
  /\ Take(c, INIT_CONNECT_FLAG)
  /\ Held(Request(c).handle)
  /\ ~Member(c)
  /\ DeliverTo(c, <<ChatHeaderPacket(BAD_CONNECT_FLAG)>>)
  /\ UNCHANGED members

Broadcast(c) ==
  /\ Take(c, BROADCAST_FLAG)
  /\ <<Request(c).src, c>> \in members
  /\ Deliver([d \in Clients |->
       IF d # c /\ Member(d) THEN <<Request(c)>> ELSE <<>>])
  /\ UNCHANGED members

\* What c's message brings to d: a member gets a copy for every time it is named,
\* c itself one flag 7 for every name nobody holds, in the order of the names.
Answers(c, d) ==
  LET pdu == Request(c)
      at == InOrder({k \in DOMAIN pdu.dsts :
              \/ <<pdu.dsts[k], d>> \in members
              \/ d = c /\ ~Held(pdu.dsts[k])})
  IN [i \in DOMAIN at |->
        IF Held(pdu.dsts[at[i]]) THEN pdu
        ELSE HandleOnlyPacket(HANDLE_ERR_FLAG, pdu.dsts[at[i]])]

Message(c, flag) ==
  /\ Take(c, flag)
  /\ <<Request(c).src, c>> \in members
  /\ Deliver([d \in Clients |-> Answers(c, d)])
  /\ UNCHANGED members

\* The members' handles come in any order.
List(c) ==
  /\ Take(c, HANDLE_LIST_FLAG)
  /\ Member(c)
  /\ LET n == Cardinality(members) IN
       \E order \in [1 .. n -> members] :
         /\ \A m \in members : \E i \in 1 .. n : order[i] = m
         /\ DeliverTo(c,
              <<ListCountPacket(n)>>
                \o [i \in 1 .. n |-> HandleOnlyPacket(HANDLE_ITEM_FLAG, order[i][1])]
                \o <<ChatHeaderPacket(HANDLE_FINISH_FLAG)>>)
  /\ UNCHANGED members

\* The room notices that a client has left; requests that have not reached it
\* by then are lost.
Forget(c) ==
  /\ up
  /\ c \in left
  /\ members' = {m \in members : m[2] # c}
  /\ requests' = [requests EXCEPT ![c] = <<>>]
  /\ UNCHANGED <<up, left, inbox>>

\* The server ends; what it had not handled and not sent yet is lost.
Crash ==
  /\ up
  /\ up' = FALSE
  /\ members' = {}
  /\ requests' = [c \in Clients |-> <<>>]
  /\ DOMAIN inbox' = Clients
  /\ \A c \in Clients : \E k \in 0 .. Len(inbox[c]) :
       inbox'[c] = SubSeq(inbox[c], 1, k)
  /\ UNCHANGED left

Next ==
  \/ Crash
  \/ \E c \in Clients :
       \/ Ask(c)
       \/ Read(c)
       \/ Leave(c)
       \/ Join(c)
       \/ Refuse(c)
       \/ Broadcast(c)
       \/ Message(c, UNICAST_FLAG)
       \/ Message(c, MULTICAST_FLAG)
       \/ List(c)
       \/ Forget(c)

Spec == Init /\ [][Next]_vars
==============================================================================
