----------------------------- MODULE MCChatSystem -----------------------------
(***************************************************************************)
(* Instances of ChatSystem.  Fresh memory of the handle table is always    *)
(* zero here (MCHandleTable checks the table on other contents), and the   *)
(* table starts with one entry, so that it grows with the second client.   *)
(***************************************************************************)
EXTENDS ChatSystem, TLC

CONSTANTS c1, c2, c3, a, b, d, Empty

Two   == {c1, c2}
Three == {c1, c2, c3}

ab  == {a, b}
abd == {a, b, d}

\* Handles: two runs compete for a name; all different; one run is started
\* with the empty handle.
Rivals    == (c1 :> a) @@ (c2 :> a) @@ (c3 :> b)
Different == (c1 :> a) @@ (c2 :> b) @@ (c3 :> d)
Pair      == (c1 :> a) @@ (c2 :> b)
EmptyThird == (c1 :> a) @@ (c2 :> a) @@ (c3 :> Empty)

\* Budgets, the PDUs each run may send.
OneEach    == (c1 :> 1) @@ (c2 :> 1) @@ (c3 :> 1)
OnlyFirst  == (c1 :> 1) @@ (c2 :> 0) @@ (c3 :> 0)
FirstTwo   == (c1 :> 1) @@ (c2 :> 1) @@ (c3 :> 0)
TwoAndOne  == (c1 :> 2) @@ (c2 :> 1)
ThreeAndNone == (c1 :> 3) @@ (c2 :> 0)

Zeroed == {[handleName |-> Empty, socketNumber |-> 0, validFlag |-> 0]}

\* c1 and c2 have the same handle and the same budget wherever this is used.
RivalSymmetry == Permutations({c1, c2})
==============================================================================
