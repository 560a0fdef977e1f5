------------------------------ MODULE PolledSet ------------------------------
(***************************************************************************)
(* What the loops of server.c and cclient.c expect of pollLib: a set of    *)
(* descriptors, of which pollCall picks one that is ready, any one.  This  *)
(* is the set that Server calls polled.                                    *)
(***************************************************************************)
EXTENDS Integers

CONSTANT Fds

VARIABLES
  polled,  \* the descriptors asked about
  ready,   \* the descriptors with input, or at their end
  picked   \* {fd} from the return of pollCall to the next call, else {}

vars == <<polled, ready, picked>>

Init == polled = {} /\ ready = {} /\ picked = {}

Arrive(fd) ==
  /\ ready' = ready \cup {fd}
  /\ UNCHANGED <<polled, picked>>

\* Blocks while no polled descriptor is ready.
Pick(fd) ==
  /\ picked = {}
  /\ fd \in polled \cap ready
  /\ picked' = {fd}
  /\ UNCHANGED <<polled, ready>>

\* A descriptor is added before the loop begins, or in answer to another one.
Add(fd) ==
  /\ polled' = polled \cup {fd}
  /\ picked' = {}
  /\ ready' \in {ready, ready \ picked}

\* The descriptor picked has been served, and goes if that was its end.
Serve(fd) ==
  /\ picked = {fd}
  /\ picked' = {}
  /\ \/ UNCHANGED polled /\ ready' \in {ready, ready \ {fd}}
     \/ polled' = polled \ {fd} /\ ready' = ready \ {fd}

Next ==
  \E fd \in Fds : Arrive(fd) \/ Pick(fd) \/ Add(fd) \/ Serve(fd)

Spec == Init /\ [][Next]_vars
==============================================================================
