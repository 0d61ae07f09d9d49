--------------------------- MODULE Tensor_proofs ---------------------------
(***************************************************************************)
(* For any tensors and any heap: whatever sequence of Create, Alias, Alloc,*)
(* Free and destruction a program makes, a block in use has one owner and  *)
(* no block is freed twice.                                                *)
(***************************************************************************)
EXTENDS Tensor, FiniteSetTheorems, TLAPS

Handles == [m_shm : Blocks \cup Screens \cup {NoShm}, m_isAlias : BOOLEAN]

Types ==
  /\ tensor \in [Tensors -> Handles]
  /\ allocated \subseteq Blocks /\ mine \subseteq allocated
  /\ badfree \in BOOLEAN

\* What a tensor would free is allocated, ...
OwnedIsAllocated == \A t \in Tensors : Owned(tensor[t]) \subseteq allocated

\* ... by no other tensor, ...
OwnedIsNotShared ==
  \A s, t \in Tensors : s # t => Owned(tensor[s]) \cap Owned(tensor[t]) = {}

\* ... and not by the program.
OwnedIsNotMine == \A t \in Tensors : Owned(tensor[t]) \cap mine = {}

NothingLeaks ==
  \A b \in allocated : b \in mine \/ \E t \in Tensors : b \in Owned(tensor[t])

IInv == /\ Types /\ OwnedIsAllocated /\ OwnedIsNotShared /\ OwnedIsNotMine
        /\ NothingLeaks /\ NoBadFree

LEMMA InitIInv == Init => IInv
  <1> SUFFICES ASSUME Init PROVE IInv OBVIOUS
  <1>1. \A t \in Tensors : tensor[t] = Absent BY DEF Init
  <1>2. Owned(Absent) = {} BY DEF Owned, Absent
  <1>3. Types BY DEF Init, Types, Handles, Absent
  <1>4. OwnedIsAllocated /\ OwnedIsNotShared /\ OwnedIsNotMine
    BY <1>1, <1>2 DEF OwnedIsAllocated, OwnedIsNotShared, OwnedIsNotMine
  <1>5. NothingLeaks /\ NoBadFree BY DEF Init, NothingLeaks, NoBadFree
  <1> QED BY <1>3, <1>4, <1>5 DEF IInv

\* What ~TENSOR, Create and Alias have in common: a tensor frees what it owns
\* and takes over a block that malloc just returned, one of the program, or
\* none.
LEMMA BecomeStep ==
  ASSUME IInv, NEW t \in Tensors, NEW r \in Handles, NEW new \in SUBSET Blocks,
         new \cap (allocated \ Owned(tensor[t])) = {},
         new \subseteq Owned(r), Owned(r) \subseteq new \cup mine,
         Become(t, r, Owned(tensor[t]), new), mine' = mine \ Owned(r)
  PROVE  IInv'
  <1> DEFINE freed == Owned(tensor[t])
  <1>0. /\ freed \subseteq allocated /\ freed \cap mine = {}
        /\ mine \subseteq allocated /\ allocated \subseteq Blocks
    BY DEF IInv, Types, OwnedIsAllocated, OwnedIsNotMine
  <1>1. \A s \in Tensors : Owned(tensor'[s]) = IF s = t THEN Owned(r) ELSE Owned(tensor[s])
    BY DEF IInv, Types, Become
  <1>2. allocated' = (allocated \ freed) \cup new BY DEF Become
  <1>3. \A s \in Tensors : s # t =>
          /\ Owned(tensor[s]) \subseteq allocated \ freed
          /\ Owned(tensor[s]) \cap mine = {}
          /\ Owned(tensor[s]) \cap Owned(r) = {}
    BY DEF IInv, OwnedIsAllocated, OwnedIsNotShared, OwnedIsNotMine
  <1>4. Types'
    <2>1. tensor' \in [Tensors -> Handles] BY DEF IInv, Types, Become
    <2>2. allocated' \subseteq Blocks /\ mine' \subseteq allocated' BY <1>0, <1>2
    <2>3. badfree' \in BOOLEAN BY DEF Become
    <2> QED BY <2>1, <2>2, <2>3 DEF Types
  <1>5. OwnedIsAllocated' BY <1>0, <1>1, <1>2, <1>3 DEF OwnedIsAllocated
  <1>6. OwnedIsNotShared'
    BY <1>1, <1>3 DEF IInv, OwnedIsNotShared
  <1>7. OwnedIsNotMine' BY <1>1, <1>3 DEF OwnedIsNotMine
  <1>8. NothingLeaks'
    <2> SUFFICES ASSUME NEW b \in allocated', b \notin mine'
                 PROVE  \E s \in Tensors : b \in Owned(tensor'[s])
      BY DEF NothingLeaks
    <2>1. CASE b \in Owned(r) BY <2>1, <1>1
    <2>2. CASE b \notin Owned(r)
      <3>1. b \in allocated /\ b \notin freed /\ b \notin mine BY <2>2, <1>2
      <3>2. PICK s \in Tensors : b \in Owned(tensor[s])
        BY <3>1 DEF IInv, NothingLeaks
      <3> QED BY <3>1, <3>2, <1>1
    <2> QED BY <2>1, <2>2
  <1>9. NoBadFree' BY <1>0 DEF IInv, NoBadFree, Become
  <1> QED BY <1>4, <1>5, <1>6, <1>7, <1>8, <1>9 DEF IInv

LEMMA NextIInv == IInv /\ [Next]_vars => IInv'
  <1> SUFFICES ASSUME IInv, [Next]_vars PROVE IInv' OBVIOUS
  <1>0. Absent \in Handles /\ Owned(Absent) = {} /\ Blank \in Handles /\ Owned(Blank) = {}
    BY DEF Handles, Absent, Blank, Owned
  <1>1. ASSUME NEW t \in Tensors, Construct(t) PROVE IInv'
    <2>1. tensor[t] = Absent BY <1>1 DEF Construct, Exists
    <2>2. Become(t, Blank, Owned(tensor[t]), {}) /\ mine' = mine \ Owned(Blank)
      BY <1>1, <1>0, <2>1 DEF Construct, Become, IInv, Types
    <2> QED BY <2>2, <1>0, BecomeStep
  <1>2. ASSUME NEW t \in Tensors, Destroy(t) PROVE IInv'
    BY <1>2, <1>0, BecomeStep DEF Destroy
  <1>3. ASSUME NEW t \in Tensors, NEW b \in Blocks, Create(t, b) PROVE IInv'
    <2> DEFINE r == [m_shm |-> b, m_isAlias |-> FALSE]
    <2>1. r \in Handles /\ Owned(r) = {b} BY ShmAssumption DEF Handles, Owned
    <2>2. b \notin mine
      BY <1>3 DEF Create, IInv, Types, OwnedIsNotMine
    <2>3. Become(t, r, Owned(tensor[t]), {b}) /\ mine' = mine \ Owned(r)
      BY <1>3, <2>1, <2>2 DEF Create
    <2>4. {b} \cap (allocated \ Owned(tensor[t])) = {} BY <1>3 DEF Create
    <2> HIDE DEF r
    <2> QED BY <2>1, <2>3, <2>4, BecomeStep
  <1>4. ASSUME NEW t \in Tensors, NEW b \in Blocks, CreateOn(t, b) PROVE IInv'
    <2> DEFINE r == [m_shm |-> b, m_isAlias |-> FALSE]
    <2>1. r \in Handles /\ Owned(r) = {b} BY ShmAssumption DEF Handles, Owned
    <2>2. b \in mine /\ Become(t, r, Owned(tensor[t]), {}) /\ mine' = mine \ Owned(r)
      BY <1>4, <2>1 DEF CreateOn
    <2> HIDE DEF r
    <2> QED BY <2>1, <2>2, BecomeStep
  <1>5. ASSUME NEW t \in Tensors, NEW o \in Tensors, AliasTensor(t, o) PROVE IInv'
    <2> DEFINE r == [m_shm |-> tensor[o].m_shm, m_isAlias |-> TRUE]
    <2>1. r \in Handles /\ Owned(r) = {} BY DEF Handles, Owned, IInv, Types
    <2>2. Become(t, r, Owned(tensor[t]), {}) /\ mine' = mine \ Owned(r)
      BY <1>5, <2>1 DEF AliasTensor
    <2> HIDE DEF r
    <2> QED BY <2>1, <2>2, BecomeStep
  <1>6. ASSUME NEW t \in Tensors, NEW s \in Screens, AliasShm(t, s) PROVE IInv'
    <2> DEFINE r == [m_shm |-> s, m_isAlias |-> TRUE]
    <2>1. r \in Handles /\ Owned(r) = {} BY DEF Handles, Owned
    <2>2. Become(t, r, Owned(tensor[t]), {}) /\ mine' = mine \ Owned(r)
      BY <1>6, <2>1 DEF AliasShm
    <2> HIDE DEF r
    <2> QED BY <2>1, <2>2, BecomeStep
  <1>7. ASSUME NEW b \in Blocks, Alloc(b) PROVE IInv'
    <2> USE <1>7 DEF Alloc
    <2>1. Types' BY DEF IInv, Types
    <2>2. OwnedIsAllocated' BY DEF IInv, OwnedIsAllocated
    <2>3. OwnedIsNotShared' BY DEF IInv, OwnedIsNotShared
    <2>4. OwnedIsNotMine' BY DEF IInv, OwnedIsAllocated, OwnedIsNotMine
    <2>5. NothingLeaks' BY DEF IInv, NothingLeaks
    <2> QED BY <2>1, <2>2, <2>3, <2>4, <2>5 DEF IInv, NoBadFree
  <1>8. ASSUME NEW b \in Blocks, Free(b) PROVE IInv'
    <2> USE <1>8 DEF Free
    <2>1. Types' BY DEF IInv, Types
    <2>2. OwnedIsAllocated' BY DEF IInv, OwnedIsAllocated, OwnedIsNotMine
    <2>3. OwnedIsNotShared' BY DEF IInv, OwnedIsNotShared
    <2>4. OwnedIsNotMine' BY DEF IInv, OwnedIsNotMine
    <2>5. NothingLeaks' BY DEF IInv, NothingLeaks
    <2>6. NoBadFree' BY DEF IInv, NoBadFree, Types
    <2> QED BY <2>1, <2>2, <2>3, <2>4, <2>5, <2>6 DEF IInv
  <1>9. CASE UNCHANGED vars
    BY <1>9 DEF vars, IInv, Types, OwnedIsAllocated, OwnedIsNotShared, OwnedIsNotMine,
                NothingLeaks, NoBadFree
  <1> QED BY <1>1, <1>2, <1>3, <1>4, <1>5, <1>6, <1>7, <1>8, <1>9 DEF Next

\* For any number of tensors and blocks, a block in use belongs to exactly one
\* tensor or to the program: Create, Alias and ~TENSOR neither leak nor share.
THEOREM OwnershipIsExclusive == Spec => []OneOwner
  <1>1. IInv => OneOwner
    <2> SUFFICES ASSUME IInv, NEW b \in allocated
                 PROVE  Cardinality({t \in Tensors : b \in Owned(tensor[t])})
                          + Cardinality({b} \cap mine) = 1
      BY DEF OneOwner
    <2>0. Cardinality({}) = 0 /\ \A x : Cardinality({x}) = 1
      BY FS_EmptySet, FS_Singleton
    <2> DEFINE owners == {t \in Tensors : b \in Owned(tensor[t])}
    <2>1. CASE b \in mine
      <3>1. owners = {} BY <2>1 DEF IInv, OwnedIsNotMine
      <3>2. {b} \cap mine = {b} BY <2>1
      <3>3. Cardinality(owners) = 0 /\ Cardinality({b} \cap mine) = 1
        BY <3>1, <3>2, <2>0, Zenon
      <3> QED BY <3>3
    <2>2. CASE b \notin mine
      <3>1. PICK t \in Tensors : b \in Owned(tensor[t])
        BY <2>2 DEF IInv, NothingLeaks
      <3>2. owners = {t} BY <3>1 DEF IInv, OwnedIsNotShared
      <3>3. {b} \cap mine = {} BY <2>2
      <3>4. Cardinality(owners) = 1 /\ Cardinality({b} \cap mine) = 0
        BY <3>2, <3>3, <2>0, Zenon
      <3> QED BY <3>4
    <2> QED BY <2>1, <2>2
  <1> QED BY InitIInv, NextIInv, <1>1, PTL DEF Spec

\* For any number of tensors and blocks, ztaFreeSharedMem is only called with
\* a block that is allocated: never twice, never with a camera's buffer.
THEOREM FreesAreGood == Spec => []NoBadFree
  <1>1. IInv => NoBadFree BY DEF IInv
  <1> QED BY InitIInv, NextIInv, <1>1, PTL DEF Spec
=============================================================================
