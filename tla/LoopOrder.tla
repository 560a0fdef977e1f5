------------------------------ MODULE LoopOrder ------------------------------
(***************************************************************************)
(* The order in which a loop that counts up meets the indices it stops at. *)
(***************************************************************************)
EXTENDS Integers, FiniteSets

\* The numbers in S, a finite set, from the least to the greatest.
InOrder(S) ==
  [k \in 1 .. Cardinality(S) |->
     CHOOSE i \in S : Cardinality({j \in S : j < i}) = k - 1]
==============================================================================
