------------------------------ MODULE HandleMap ------------------------------
(***************************************************************************)
(* What handleTable.h promises its callers, without the array behind it: a *)
(* finite registry that binds each handle name to one socket.              *)
(*                                                                         *)
(*   addHandle     binds a legal name that is not bound yet                *)
(*   removeHandle  forgets every name bound to a socket                    *)
(*   getHandleCount is the number of bindings                              *)
(***************************************************************************)
EXTENDS Integers, FiniteSets

CONSTANTS
  LegalNames,  \* the names of 1..HANDLE_NAME_MAX bytes
  Sockets      \* the socket numbers callers pass in

VARIABLES
  registry,    \* the set of bindings, pairs <<name, socket>>
  size         \* what getHandleCount returns

vars == <<registry, size>>

Bound == {b[1] : b \in registry}

TypeOK ==
  /\ registry \in SUBSET (LegalNames \X Sockets)
  /\ size \in Nat

Init ==
  /\ registry = {}
  /\ size = 0

Register(name, sock) ==
  /\ name \in LegalNames \ Bound
  /\ registry' = registry \cup {<<name, sock>>}
  /\ size' = size + 1

Release(sock) ==
  /\ registry' = {b \in registry : b[2] # sock}
  /\ size' = size - Cardinality({b \in registry : b[2] = sock})

Next ==
  \E sock \in Sockets :
    \/ \E name \in LegalNames : Register(name, sock)
    \/ Release(sock)

Spec == Init /\ [][Next]_vars
==============================================================================
