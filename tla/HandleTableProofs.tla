-------------------------- MODULE HandleTableProofs --------------------------
(***************************************************************************)
(* Theorems about HandleTable, for every set of names and sockets, every   *)
(* content of fresh memory and every initial size of the array.            *)
(*                                                                         *)
(* The inductive invariant is IInv.  Its parts need each other: the type   *)
(* of tableCount needs CountExact (the counter is a natural number because *)
(* it counts), UniqueNames needs ValidLegal (lookupSocket answers -1 both  *)
(* for "no such handle" and for a handle bound to socket -1, so the search *)
(* for a duplicate is sound only while no socket number is negative).      *)
(*                                                                         *)
(* Each operation is first summed up by what it does to the valid entries  *)
(* (AddHandleEffect, RemoveHandleEffect); the invariants, the action       *)
(* property and the refinement are all proved from those two lemmas.       *)
(***************************************************************************)
EXTENDS HandleTable, ScanLemmas, FiniteSetTheorems, FunctionTheorems, TLAPS

\* Only names and sockets that addHandle was given are in the valid entries.
ValidLegal ==
  \A i \in ValidSlots : /\ handleTable[i].handleName \in LegalNames
                        /\ handleTable[i].socketNumber \in Sockets

IInv == TypeOK /\ ValidLegal /\ UniqueNames /\ CountExact

------------------------------------------------------------------------------
(* The scans. *)

\* A name addHandle accepts is in no valid entry.
LEMMA AcceptableIsNew ==
  ASSUME TypeOK, ValidLegal, NEW name, Acceptable(name)
  PROVE  name \in LegalNames /\ SlotsOf(name) = {}
<1> SUFFICES ASSUME SlotsOf(name) # {} PROVE FALSE
  BY DEF Acceptable
<1>1. SlotsOf(name) \in SUBSET Nat
  BY DEF TypeOK, SlotsOf, ValidSlots, Slots
<1>2. Min(SlotsOf(name)) \in ValidSlots
  BY <1>1, MinInSet DEF SlotsOf
<1>3. handleTable[Min(SlotsOf(name))].socketNumber \in Nat
  BY <1>2, HandleTableAssumption DEF ValidLegal
<1> QED BY <1>3 DEF Acceptable, LookupSocket

\* The valid entries are finitely many.
LEMMA ValidSlotsFinite ==
  ASSUME TypeOK
  PROVE  IsFiniteSet(Slots) /\ IsFiniteSet(ValidSlots)
<1>1. IsFiniteSet(Slots)
  BY FS_Interval DEF TypeOK, Slots
<1> QED BY <1>1, FS_Subset DEF ValidSlots

------------------------------------------------------------------------------
(* What each operation does to the valid entries. *)

\* addHandle, with or without growth, makes one entry valid that was not and
\* leaves the valid ones alone.
LEMMA AddHandleEffect ==
  ASSUME TypeOK, NEW name \in LegalNames, NEW sock \in Sockets,
         AddHandle(name, sock)
  PROVE  /\ tableCapacity' \in Nat \ {0}
         /\ handleTable' \in [Slots' -> HandleEntry]
         /\ \E k \in Nat \ ValidSlots :
              /\ ValidSlots' = ValidSlots \cup {k}
              /\ handleTable'[k] = Entry(name, sock)
              /\ \A i \in ValidSlots : handleTable'[i] = handleTable[i]
<1> DEFINE e == Entry(name, sock)
<1>1. e \in HandleEntry /\ e.validFlag = 1
  BY HandleTableAssumption DEF HandleEntry, Entry
<1>2. \A g \in Garbage : /\ NewEntry(g) \in HandleEntry
                         /\ NewEntry(g).validFlag = 0
  BY HandleTableAssumption DEF HandleEntry, NewEntry
<1>3. CASE FreeSlots # {} /\ UseFreeSlot(name, sock)
  <2> DEFINE k == FirstFree
  <2>1. k \in FreeSlots
    <3>1. FreeSlots \in SUBSET Nat
      BY DEF TypeOK, FreeSlots, Slots
    <3> QED BY <3>1, <1>3, MinInSet DEF FirstFree
  <2>2. /\ handleTable' = [handleTable EXCEPT ![k] = e]
        /\ tableCapacity' = tableCapacity
        /\ Slots' = Slots
    BY <1>3 DEF UseFreeSlot, Slots
  <2> HIDE DEF e, k
  <2>3. k \in Nat \ ValidSlots /\ k \in Slots
    BY <2>1 DEF TypeOK, FreeSlots, ValidSlots, Slots
  <2>4. handleTable' \in [Slots -> HandleEntry]
    BY <1>1, <2>2 DEF TypeOK
  <2>5. /\ handleTable'[k] = e
        /\ \A i \in Slots \ {k} : handleTable'[i] = handleTable[i]
    BY <2>2, <2>3 DEF TypeOK
  <2>6. ValidSlots' = ValidSlots \cup {k}
    BY <1>1, <2>2, <2>3, <2>5 DEF ValidSlots
  <2>7. \A i \in ValidSlots : handleTable'[i] = handleTable[i]
    BY <2>3, <2>5 DEF ValidSlots
  <2>8. tableCapacity' \in Nat \ {0}
    BY <2>2 DEF TypeOK
  <2> QED BY <2>2, <2>3, <2>4, <2>5, <2>6, <2>7, <2>8 DEF e
<1>4. CASE FreeSlots = {} /\ Grow(name, sock)
  <2> DEFINE k == tableCapacity
  <2>1. PICK memory \in [tableCapacity .. tableCapacity * 2 - 1 -> Garbage] :
          handleTable' = [i \in 0 .. tableCapacity * 2 - 1 |->
            IF i < tableCapacity THEN handleTable[i]
            ELSE IF i = tableCapacity THEN e
            ELSE NewEntry(memory[i])]
    BY <1>4 DEF Grow
  <2>2. tableCapacity \in Nat \ {0} /\ tableCapacity' = tableCapacity * 2
    BY <1>4 DEF Grow, TypeOK
  <2>3. Slots' = 0 .. tableCapacity * 2 - 1 /\ Slots \subseteq Slots'
    BY <2>2 DEF Slots
  <2> HIDE DEF e
  <2>4. \A i \in Slots' \ Slots : i # k => /\ handleTable'[i] \in HandleEntry
                                           /\ handleTable'[i].validFlag = 0
    <3> SUFFICES ASSUME NEW i \in Slots' \ Slots, i # k
                 PROVE  /\ handleTable'[i] \in HandleEntry
                        /\ handleTable'[i].validFlag = 0
      OBVIOUS
    <3>1. i \in tableCapacity .. tableCapacity * 2 - 1 /\ i > tableCapacity
      BY <2>2, <2>3 DEF Slots
    <3>2. memory[i] \in Garbage
      BY <3>1
    <3>3. handleTable'[i] = NewEntry(memory[i])
      BY <2>1, <2>2, <3>1
    <3> QED BY <1>2, <3>2, <3>3
  <2>5. /\ k \in Slots' \ Slots
        /\ handleTable'[k] = e
        /\ \A i \in Slots : handleTable'[i] = handleTable[i]
    BY <2>1, <2>2, <2>3 DEF Slots
  <2>6. handleTable' \in [Slots' -> HandleEntry]
    <3>1. \A i \in Slots' : handleTable'[i] \in HandleEntry
      BY <1>1, <2>4, <2>5 DEF TypeOK
    <3>2. DOMAIN handleTable' = Slots' /\ handleTable' = [i \in Slots' |-> handleTable'[i]]
      BY <2>1, <2>3
    <3> QED BY <3>1, <3>2
  <2>7. ValidSlots' = ValidSlots \cup {k}
    <3>1. ValidSlots' = {i \in Slots' : handleTable'[i].validFlag = 1}
      BY DEF ValidSlots
    <3>2. \A i \in Slots : handleTable'[i].validFlag = 1 <=> i \in ValidSlots
      BY <2>5 DEF ValidSlots
    <3>3. handleTable'[k].validFlag = 1
      BY <1>1, <2>5
    <3>4. \A i \in Slots' \ Slots : i # k => ~(handleTable'[i].validFlag = 1)
      BY <2>4
    <3> QED BY <2>3, <2>5, <3>1, <3>2, <3>3, <3>4 DEF ValidSlots
  <2>8. \A i \in ValidSlots : handleTable'[i] = handleTable[i]
    BY <2>5 DEF ValidSlots
  <2>9. k \in Nat \ ValidSlots /\ tableCapacity' \in Nat \ {0}
    BY <2>2, <2>5 DEF ValidSlots
  <2> QED BY <2>5, <2>6, <2>7, <2>8, <2>9 DEF e
<1> QED BY <1>3, <1>4 DEF AddHandle

\* removeHandle makes exactly the entries of its socket invalid.
LEMMA RemoveHandleEffect ==
  ASSUME TypeOK, NEW sock \in Sockets, RemoveHandle(sock)
  PROVE  /\ tableCapacity' = tableCapacity
         /\ handleTable' \in [Slots' -> HandleEntry]
         /\ SlotsBoundTo(sock) \in SUBSET ValidSlots
         /\ ValidSlots' = ValidSlots \ SlotsBoundTo(sock)
         /\ \A i \in ValidSlots' : handleTable'[i] = handleTable[i]
<1>1. /\ handleTable' = [i \in Slots |->
           IF i \in SlotsBoundTo(sock)
           THEN [handleTable[i] EXCEPT !.validFlag = 0] ELSE handleTable[i]]
      /\ tableCapacity' = tableCapacity
      /\ Slots' = Slots
  BY DEF RemoveHandle, Slots
<1>2. SlotsBoundTo(sock) \in SUBSET ValidSlots /\ ValidSlots \in SUBSET Slots
  BY DEF SlotsBoundTo, ValidSlots
<1>3. \A i \in SlotsBoundTo(sock) : /\ handleTable'[i] \in HandleEntry
                                    /\ handleTable'[i].validFlag = 0
  <2> SUFFICES ASSUME NEW i \in SlotsBoundTo(sock)
               PROVE  /\ handleTable'[i] \in HandleEntry
                      /\ handleTable'[i].validFlag = 0
    OBVIOUS
  <2>1. handleTable'[i] = [handleTable[i] EXCEPT !.validFlag = 0]
    BY <1>1, <1>2
  <2>2. handleTable[i] \in HandleEntry
    BY <1>2 DEF TypeOK
  <2> QED BY <2>1, <2>2 DEF HandleEntry
<1>4. \A i \in Slots \ SlotsBoundTo(sock) : handleTable'[i] = handleTable[i]
  BY <1>1
<1>5. handleTable' \in [Slots -> HandleEntry]
  <2>1. \A i \in Slots : handleTable'[i] \in HandleEntry
    BY <1>3, <1>4 DEF TypeOK
  <2> QED BY <1>1, <2>1
<1>6. ValidSlots' = ValidSlots \ SlotsBoundTo(sock)
  <2>1. ValidSlots' = {i \in Slots : handleTable'[i].validFlag = 1}
    BY <1>1 DEF ValidSlots
  <2> QED BY <1>2, <1>3, <1>4, <2>1 DEF ValidSlots
<1> QED BY <1>1, <1>2, <1>4, <1>5, <1>6

------------------------------------------------------------------------------
(* The invariant. *)

LEMMA InitInv == Init => IInv
<1> SUFFICES ASSUME Init PROVE IInv
  OBVIOUS
<1> DEFINE blank == [handleName |-> EmptyName, socketNumber |-> 0, validFlag |-> 0]
<1>1. /\ tableCapacity = INIT_TABLE_SIZE
      /\ handleTable = [i \in Slots |-> blank]
      /\ tableCount = 0
  BY DEF Init, Slots
<1>2. blank \in HandleEntry /\ blank.validFlag = 0
  BY HandleTableAssumption DEF HandleEntry
<1> HIDE DEF blank
<1>3. ValidSlots = {}
  BY <1>1, <1>2 DEF ValidSlots
<1>4. TypeOK
  BY <1>1, <1>2, HandleTableAssumption DEF TypeOK
<1>5. CountExact
  BY <1>1, <1>3, FS_EmptySet DEF CountExact
<1> QED BY <1>3, <1>4, <1>5 DEF IInv, ValidLegal, UniqueNames

\* Registering a name keeps the invariant.
LEMMA AddHandleInv ==
  ASSUME IInv, NEW name \in Names, NEW sock \in Sockets, AddHandle(name, sock)
  PROVE  IInv'
<1>1. name \in LegalNames /\ SlotsOf(name) = {}
  BY AcceptableIsNew DEF IInv, AddHandle
<1>2. PICK k \in Nat \ ValidSlots :
        /\ ValidSlots' = ValidSlots \cup {k}
        /\ handleTable'[k] = Entry(name, sock)
        /\ \A i \in ValidSlots : handleTable'[i] = handleTable[i]
  BY <1>1, AddHandleEffect DEF IInv
<1>3. IsFiniteSet(ValidSlots) /\ tableCount' = tableCount + 1
  BY ValidSlotsFinite DEF IInv, AddHandle
<1>4. TypeOK'
  <2>1. tableCount' \in Nat
    BY <1>3 DEF IInv, TypeOK
  <2> QED BY <1>1, <2>1, AddHandleEffect DEF IInv, TypeOK
<1>5. /\ handleTable'[k].handleName = name
      /\ handleTable'[k].socketNumber = sock
  BY <1>2 DEF Entry
<1>6. ValidLegal'
  BY <1>1, <1>2, <1>5 DEF IInv, ValidLegal
<1>7. UniqueNames'
  <2>1. \A i \in ValidSlots : handleTable'[i].handleName # name
    BY <1>1, <1>2 DEF SlotsOf
  <2>2. \A i, j \in ValidSlots :
          handleTable'[i].handleName = handleTable'[j].handleName => i = j
    BY <1>2 DEF IInv, UniqueNames
  <2> QED BY <1>2, <1>5, <2>1, <2>2 DEF UniqueNames
<1>8. CountExact'
  BY <1>2, <1>3, FS_AddElement DEF IInv, CountExact
<1> QED BY <1>4, <1>6, <1>7, <1>8 DEF IInv

\* Removing every entry of a socket keeps the invariant.
LEMMA RemoveHandleInv ==
  ASSUME IInv, NEW sock \in Sockets, RemoveHandle(sock)
  PROVE  IInv'
<1>1. /\ tableCapacity' = tableCapacity
      /\ handleTable' \in [Slots' -> HandleEntry]
      /\ SlotsBoundTo(sock) \in SUBSET ValidSlots
      /\ ValidSlots' = ValidSlots \ SlotsBoundTo(sock)
      /\ \A i \in ValidSlots' : handleTable'[i] = handleTable[i]
  BY RemoveHandleEffect DEF IInv
<1>2. tableCount' = tableCount - Cardinality(SlotsBoundTo(sock))
  BY DEF RemoveHandle
<1>3. CountExact' /\ tableCount' \in Nat
  <2>1. IsFiniteSet(ValidSlots)
    BY ValidSlotsFinite DEF IInv
  <2>2. IsFiniteSet(ValidSlots')
    BY <1>1, <2>1, FS_Difference
  <2>3. ValidSlots \cap SlotsBoundTo(sock) = SlotsBoundTo(sock)
    BY <1>1
  <2>4. Cardinality(ValidSlots')
          = Cardinality(ValidSlots) - Cardinality(SlotsBoundTo(sock))
    BY <1>1, <2>1, <2>3, FS_Difference
  <2>5. CountExact'
    BY <1>2, <2>4 DEF IInv, CountExact
  <2> QED BY <2>2, <2>5, FS_CardinalityType DEF CountExact
<1>4. TypeOK'
  BY <1>1, <1>3 DEF IInv, TypeOK
<1>5. ValidLegal' /\ UniqueNames'
  BY <1>1 DEF IInv, ValidLegal, UniqueNames
<1> QED BY <1>3, <1>4, <1>5 DEF IInv

LEMMA NextInv == IInv /\ [Next]_vars => IInv'
<1> SUFFICES ASSUME IInv, [Next]_vars PROVE IInv'
  OBVIOUS
<1>1. ASSUME NEW name \in Names, NEW sock \in Sockets, AddHandle(name, sock)
      PROVE  IInv'
  BY <1>1, AddHandleInv
<1>2. ASSUME NEW sock \in Sockets, RemoveHandle(sock)
      PROVE  IInv'
  BY <1>2, RemoveHandleInv
<1>3. CASE UNCHANGED vars
  BY <1>3 DEF vars, IInv, TypeOK, ValidLegal, UniqueNames, CountExact,
              ValidSlots, Slots
<1>4. ASSUME NEW name \in Names, RejectHandle(name)
      PROVE  IInv'
  BY <1>3, <1>4 DEF RejectHandle
<1> QED BY <1>1, <1>2, <1>3, <1>4 DEF Next

\* Every reachable table satisfies the inductive invariant.
THEOREM Invariance == Spec => []IInv
BY InitInv, NextInv, PTL DEF Spec

\* Every function of the table leaves it well-typed; in particular tableCount
\* never goes below zero.
THEOREM TypeCorrect == Spec => []TypeOK
<1>1. IInv => TypeOK
  BY DEF IInv
<1> QED BY <1>1, Invariance, PTL

\* At any time a handle is in at most one valid entry, so lookupSocket's first
\* match is the only one.
THEOREM NamesUnique == Spec => []UniqueNames
<1>1. IInv => UniqueNames
  BY DEF IInv
<1> QED BY <1>1, Invariance, PTL

\* getHandleCount is the number of valid entries.
THEOREM CountCorrect == Spec => []CountExact
<1>1. IInv => CountExact
  BY DEF IInv
<1> QED BY <1>1, Invariance, PTL

------------------------------------------------------------------------------
(* No call disturbs the registrations of other sockets. *)

\* A valid entry stays where it is and as it is, growth included, in every step
\* but removeHandle for its own socket, which takes all entries of that socket.
THEOREM EntriesStable == Spec => StableSlots
<1> DEFINE Stable ==
      \A i \in ValidSlots :
        LET entrySock == handleTable[i].socketNumber
        IN \/ i \in ValidSlots' /\ handleTable'[i] = handleTable[i]
           \/ /\ RemoveHandle(entrySock)
              /\ \A j \in ValidSlots' : handleTable'[j].socketNumber # entrySock
<1>1. IInv /\ [Next]_vars => [Stable]_vars
  <2> SUFFICES ASSUME IInv, Next PROVE Stable
    OBVIOUS
  <2>1. ASSUME NEW name \in Names, NEW sock \in Sockets, AddHandle(name, sock)
        PROVE  Stable
    <3>1. name \in LegalNames
      BY <2>1, AcceptableIsNew DEF IInv, AddHandle
    <3> QED BY <2>1, <3>1, AddHandleEffect DEF IInv
  <2>2. ASSUME NEW sock \in Sockets, RemoveHandle(sock)
        PROVE  Stable
    <3>1. /\ ValidSlots' = ValidSlots \ SlotsBoundTo(sock)
          /\ \A i \in ValidSlots' : handleTable'[i] = handleTable[i]
      BY <2>2, RemoveHandleEffect DEF IInv
    <3>2. \A j \in ValidSlots' : handleTable'[j].socketNumber # sock
      BY <3>1 DEF SlotsBoundTo
    <3>3. \A i \in SlotsBoundTo(sock) : handleTable[i].socketNumber = sock
      BY DEF SlotsBoundTo
    <3> SUFFICES ASSUME NEW i \in ValidSlots, i \notin ValidSlots'
                 PROVE  handleTable[i].socketNumber = sock
      BY <2>2, <3>1, <3>2
    <3> QED BY <3>1, <3>3
  <2>3. ASSUME NEW name \in Names, RejectHandle(name)
        PROVE  Stable
    BY <2>3 DEF RejectHandle, vars, ValidSlots, Slots
  <2> QED BY <2>1, <2>2, <2>3 DEF Next
<1> QED BY <1>1, Invariance, PTL DEF Spec, StableSlots

------------------------------------------------------------------------------
(* The table implements the registry. *)

Binding(i) == <<handleTable[i].handleName, handleTable[i].socketNumber>>

\* A caller's walk over getHandleAtIndex sees the valid entries and no more.
LEMMA WalkSeesValid ==
  ASSUME TypeOK
  PROVE  Bindings = {Binding(i) : i \in ValidSlots}
BY DEF Bindings, GetHandleAtIndex, ValidSlots, Binding

LEMMA WalkSeesValidNext ==
  ASSUME TypeOK'
  PROVE  Bindings' = {Binding(i)' : i \in ValidSlots'}
BY DEF Bindings, GetHandleAtIndex, ValidSlots, Binding

\* One binding per valid entry of a socket: the walk finds as many names of the
\* socket as removeHandle clears entries.
LEMMA BindingsOfSocket ==
  ASSUME IInv, NEW sock
  PROVE  Cardinality({b \in Bindings : b[2] = sock})
           = Cardinality(SlotsBoundTo(sock))
<1> DEFINE S == SlotsBoundTo(sock)
           T == {b \in Bindings : b[2] = sock}
           f == [i \in S |-> Binding(i)]
<1>1. IsFiniteSet(S) /\ S \subseteq ValidSlots
  <2>1. S \in SUBSET ValidSlots
    BY DEF SlotsBoundTo
  <2> QED BY <2>1, ValidSlotsFinite, FS_Subset DEF IInv
<1>2. T = {Binding(i) : i \in S}
  BY WalkSeesValid DEF IInv, Binding, SlotsBoundTo
<1>3. \A i, j \in S : f[i] = f[j] => i = j
  BY <1>1 DEF IInv, UniqueNames, Binding
<1>4. f \in [S -> T] /\ \A t \in T : \E i \in S : f[i] = t
  BY <1>2
<1> HIDE DEF f, S, T
<1>5. f \in Bijection(S, T)
  BY <1>3, <1>4, Fun_IsBij
<1>6. ExistsBijection(S, T)
  BY <1>5 DEF ExistsBijection
<1> QED BY <1>1, <1>6, FS_Bijection DEF S, T

\* addHandle on the array is Register on the registry.
LEMMA AddHandleRegisters ==
  ASSUME IInv, NEW name \in Names, NEW sock \in Sockets, AddHandle(name, sock)
  PROVE  HM!Register(name, sock)
<1>1. name \in LegalNames /\ SlotsOf(name) = {}
  BY AcceptableIsNew DEF IInv, AddHandle
<1>2. PICK k \in Nat \ ValidSlots :
        /\ ValidSlots' = ValidSlots \cup {k}
        /\ handleTable'[k] = Entry(name, sock)
        /\ \A i \in ValidSlots : handleTable'[i] = handleTable[i]
  BY <1>1, AddHandleEffect DEF IInv
<1>3. IInv'
  BY AddHandleInv
<1>4. name \notin HM!Bound
  BY <1>1, WalkSeesValid DEF HM!Bound, IInv, Binding, SlotsOf
<1>5. Binding(k)' = <<name, sock>>
  BY <1>2 DEF Binding, Entry
<1>6. \A i \in ValidSlots : Binding(i)' = Binding(i)
  BY <1>2 DEF Binding
<1>7. Bindings' = Bindings \cup {<<name, sock>>}
  BY <1>2, <1>3, <1>5, <1>6, WalkSeesValid, WalkSeesValidNext DEF IInv
<1> QED BY <1>1, <1>4, <1>7 DEF HM!Register, AddHandle

\* removeHandle on the array is Release on the registry.
LEMMA RemoveHandleReleases ==
  ASSUME IInv, NEW sock \in Sockets, RemoveHandle(sock)
  PROVE  HM!Release(sock)
<1>1. /\ ValidSlots' = ValidSlots \ SlotsBoundTo(sock)
      /\ \A i \in ValidSlots' : handleTable'[i] = handleTable[i]
  BY RemoveHandleEffect DEF IInv
<1>2. IInv'
  BY RemoveHandleInv
<1>3. \A i \in ValidSlots' : Binding(i)' = Binding(i)
  BY <1>1 DEF Binding
<1>4. \A i \in ValidSlots : i \in ValidSlots' <=> Binding(i)[2] # sock
  BY <1>1 DEF SlotsBoundTo, Binding
<1>5. Bindings' = {b \in Bindings : b[2] # sock}
  <2>1. Bindings' = {Binding(i) : i \in ValidSlots'}
    BY <1>2, <1>3, WalkSeesValidNext DEF IInv
  <2>2. Bindings = {Binding(i) : i \in ValidSlots}
    BY WalkSeesValid DEF IInv
  <2>3. ValidSlots' \subseteq ValidSlots
    BY <1>1
  <2> HIDE DEF Binding
  <2> QED BY <1>4, <2>1, <2>2, <2>3
<1>6. tableCount' = tableCount
        - Cardinality({b \in Bindings : b[2] = sock})
  BY BindingsOfSocket DEF RemoveHandle
\* HandleMap has its own copy of the definition of Cardinality.
<1>7. HM!Cardinality({b \in Bindings : b[2] = sock})
        = Cardinality({b \in Bindings : b[2] = sock})
  BY DEF HM!Cardinality, Cardinality
<1> QED BY <1>5, <1>6, <1>7 DEF HM!Release

\* The table, with its scans, its reuse of slots and its growth, implements
\* the registry of HandleMap; a rejected addHandle is a stuttering step.
THEOREM TableImplementsMap == Spec => ImplementsHandleMap
<1>1. Init => HM!Init
  <2> SUFFICES ASSUME Init PROVE HM!Init
    OBVIOUS
  <2>1. IInv /\ tableCount = 0
    BY InitInv DEF Init
  <2>2. ValidSlots = {}
    BY <2>1, ValidSlotsFinite, FS_EmptySet DEF IInv, CountExact
  <2> QED BY <2>1, <2>2, WalkSeesValid DEF HM!Init, IInv
<1>2. IInv /\ [Next]_vars => [HM!Next]_HM!vars
  <2> SUFFICES ASSUME IInv, [Next]_vars PROVE [HM!Next]_HM!vars
    OBVIOUS
  <2>1. ASSUME NEW name \in Names, NEW sock \in Sockets, AddHandle(name, sock)
        PROVE  HM!Next
    <3>1. name \in LegalNames
      BY <2>1, AcceptableIsNew DEF IInv, AddHandle
    <3> QED BY <2>1, <3>1, AddHandleRegisters DEF HM!Next
  <2>2. ASSUME NEW sock \in Sockets, RemoveHandle(sock)
        PROVE  HM!Next
    BY <2>2, RemoveHandleReleases DEF HM!Next
  <2>3. CASE UNCHANGED vars
    BY <2>3 DEF vars, HM!vars, Bindings, GetHandleAtIndex, ValidSlots, Slots
  <2>4. ASSUME NEW name \in Names, RejectHandle(name)
        PROVE  UNCHANGED vars
    BY <2>4 DEF RejectHandle
  <2> QED BY <2>1, <2>2, <2>3, <2>4 DEF Next
<1> QED BY <1>1, <1>2, Invariance, PTL DEF Spec, HM!Spec, ImplementsHandleMap
==============================================================================
