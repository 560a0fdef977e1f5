----------------------------- MODULE HandleTable -----------------------------
(***************************************************************************)
(* handleTable.c: the server's table of registered handles, an array of    *)
(* entries scanned from index 0, doubled when it is full.  A removed entry *)
(* keeps its name and socket number and only loses its valid flag, and the *)
(* entries realloc adds hold whatever was in memory until they are used.   *)
(*                                                                         *)
(* The operators of this module are the table's functions; the server      *)
(* module takes them by INSTANCE.  Init, Next and Spec at the end drive    *)
(* them with any sequence of calls.                                        *)
(***************************************************************************)
EXTENDS Integers, FiniteSets, FiniteSetsExt

CONSTANTS
  Names,           \* every string a caller may pass as a handle
  LegalNames,      \* those of 1..HANDLE_NAME_MAX bytes
  EmptyName,       \* the empty string, what calloc leaves in handleName
  Sockets,         \* the socket numbers callers pass in
  Garbage,         \* what memory realloc adds may hold, read as entries
  INIT_TABLE_SIZE  \* 10 in the code

HandleEntry == [handleName : Names, socketNumber : Int, validFlag : {0, 1}]

ASSUME HandleTableAssumption ==
  /\ LegalNames \subseteq Names
  /\ EmptyName \in Names \ LegalNames
  /\ Sockets \subseteq Nat
  /\ Garbage \subseteq HandleEntry
  /\ Garbage # {}
  /\ INIT_TABLE_SIZE \in Nat \ {0}

VARIABLES
  handleTable,     \* the array, a function on 0 .. tableCapacity - 1
  tableCapacity,
  tableCount

vars == <<handleTable, tableCapacity, tableCount>>

Slots == 0 .. tableCapacity - 1

ValidSlots == {i \in Slots : handleTable[i].validFlag = 1}
FreeSlots  == {i \in Slots : handleTable[i].validFlag = 0}

\* Mutant: the counter is taken for the index of the first free slot.
MutantFirstFree == tableCount

\* The slot addHandle's scan from index 0 stops at, when there is one.
FirstFree == Min(FreeSlots)

\* Mutant: removeHandle stops at the first entry of the socket.
MutantSlotsBoundTo(sock) ==
  LET match == {i \in ValidSlots : handleTable[i].socketNumber = sock}
  IN {i \in match : \A j \in match : i <= j}

\* The slots removeHandle's scan clears.
SlotsBoundTo(sock) == {i \in ValidSlots : handleTable[i].socketNumber = sock}

Entry(name, sock) ==
  [handleName |-> name, socketNumber |-> sock, validFlag |-> 1]

TypeOK ==
  /\ tableCapacity \in Nat \ {0}
  /\ handleTable \in [Slots -> HandleEntry]
  /\ tableCount \in Nat

------------------------------------------------------------------------------
(* Lookups. *)

SlotsOf(name) == {i \in ValidSlots : handleTable[i].handleName = name}

LookupSocket(name) ==
  IF SlotsOf(name) = {} THEN -1 ELSE handleTable[Min(SlotsOf(name))].socketNumber

\* lookupHandle is declared and documented but has no body beyond its return;
\* EmptyName stands for the NULL pointer.
LookupHandle(sock) == EmptyName

\* The out-parameters getHandleAtIndex fills in when it returns 1; no pair when
\* it returns 0, for an index out of bounds or an entry that is not valid.
GetHandleAtIndex(index) ==
  IF index \in ValidSlots
  THEN {<<handleTable[index].handleName, handleTable[index].socketNumber>>}
  ELSE {}

\* All that a caller's loop over getHandleAtIndex(0 .. getTableCapacity() - 1)
\* sees.
Bindings == UNION {GetHandleAtIndex(i) : i \in Slots}

------------------------------------------------------------------------------
(* Operations. *)

Init ==
  /\ tableCapacity = INIT_TABLE_SIZE
  /\ handleTable = [i \in 0 .. INIT_TABLE_SIZE - 1 |->
       [handleName |-> EmptyName, socketNumber |-> 0, validFlag |-> 0]]
  /\ tableCount = 0


\* Mutant: addHandle does not look for the name it was given.
MutantAcceptable(name) == name \in LegalNames

Acceptable(name) == name \in LegalNames /\ LookupSocket(name) = -1

\* Mutant: growTable does not clear the flags of the entries it adds.
MutantNewEntry(memory) == memory

\* growTable: old entries are kept, the new ones hold the memory they are made
\* of with the valid flag cleared.
NewEntry(memory) == [memory EXCEPT !.validFlag = 0]

\* growTable and the assignments after it in addHandle: the first new slot gets
\* the entry.
Grow(name, sock) ==
  /\ tableCapacity' = tableCapacity * 2
  /\ \E memory \in [tableCapacity .. tableCapacity * 2 - 1 -> Garbage] :
       handleTable' = [i \in 0 .. tableCapacity * 2 - 1 |->
         IF i < tableCapacity THEN handleTable[i]
         ELSE IF i = tableCapacity THEN Entry(name, sock)
         ELSE NewEntry(memory[i])]

\* The scan of addHandle found a slot, which is reused.
UseFreeSlot(name, sock) ==
  /\ handleTable' = [handleTable EXCEPT ![FirstFree] = Entry(name, sock)]
  /\ UNCHANGED tableCapacity

\* addHandle returning 0.
AddHandle(name, sock) ==
  /\ Acceptable(name)
  /\ \/ FreeSlots # {} /\ UseFreeSlot(name, sock)
     \/ FreeSlots = {} /\ Grow(name, sock)
  /\ tableCount' = tableCount + 1

\* addHandle returning -1: an empty or overlong name, or one already in use.
RejectHandle(name) ==
  /\ ~Acceptable(name)
  /\ UNCHANGED vars

\* Mutant: the counter is decremented once per call.
MutantRemoveHandle(sock) ==
  /\ handleTable' = [i \in Slots |->
       IF i \in SlotsBoundTo(sock) THEN [handleTable[i] EXCEPT !.validFlag = 0]
                                   ELSE handleTable[i]]
  /\ tableCount' = tableCount - 1
  /\ UNCHANGED tableCapacity

\* removeHandle does not stop at the first match; the other fields of the
\* entries it removes stay.
RemoveHandle(sock) ==
  /\ handleTable' = [i \in Slots |->
       IF i \in SlotsBoundTo(sock) THEN [handleTable[i] EXCEPT !.validFlag = 0]
                                   ELSE handleTable[i]]
  /\ tableCount' = tableCount - Cardinality(SlotsBoundTo(sock))
  /\ UNCHANGED tableCapacity

Next ==
  \/ \E name \in Names, sock \in Sockets : AddHandle(name, sock)
  \/ \E name \in Names : RejectHandle(name)
  \/ \E sock \in Sockets : RemoveHandle(sock)

Spec == Init /\ [][Next]_vars

------------------------------------------------------------------------------
(* Properties. *)

\* No two valid entries carry the same name, however slots were freed, reused
\* and added by growth in between: lookupSocket, which returns the first match
\* of its scan, names the only socket of a handle.
UniqueNames ==
  \A i, j \in ValidSlots :
    handleTable[i].handleName = handleTable[j].handleName => i = j

\* getHandleCount "will always be accurate" (handleTable.c:137): the counter
\* addHandle and removeHandle step is the number of valid entries, although
\* growTable adds entries whose flag was never written by addHandle.
CountExact == tableCount = Cardinality(ValidSlots)

\* A registration is never lost or rewritten by a call for another socket: a
\* valid entry keeps its index, name and socket in every step, also one that
\* reallocates the array, but the call of removeHandle for its own socket, which
\* leaves no entry of that socket behind.
StableSlots ==
  [][\A i \in ValidSlots :
       LET sock == handleTable[i].socketNumber
       IN \/ i \in ValidSlots' /\ handleTable'[i] = handleTable[i]
          \/ /\ RemoveHandle(sock)
             /\ \A j \in ValidSlots' : handleTable'[j].socketNumber # sock]_vars

\* The array, its scans and its counter implement the registry of HandleMap.
HM == INSTANCE HandleMap WITH registry <- Bindings, size <- tableCount

ImplementsHandleMap == HM!Spec
==============================================================================
