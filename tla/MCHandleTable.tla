---------------------------- MODULE MCHandleTable ----------------------------
(***************************************************************************)
(* HandleTable on three legal names, an empty and an overlong one, two     *)
(* sockets and an array that starts with one entry, so that it grows twice *)
(* (1, 2, 4) and freed slots are reused on both sides of a growth.  One of *)
(* the two garbage entries looks valid until growTable clears its flag.    *)
(***************************************************************************)
EXTENDS HandleTable

CONSTANTS n1, n2, n3, Empty, TooLong

MCLegalNames == {n1, n2, n3}
MCNames == MCLegalNames \cup {Empty, TooLong}
MCGarbage == {
  [handleName |-> Empty, socketNumber |-> 0, validFlag |-> 0],
  [handleName |-> n1, socketNumber |-> 4, validFlag |-> 1]}
==============================================================================
