------------------------------- MODULE Tensor -------------------------------
(***************************************************************************)
(* Who owns a buffer: the TENSOR class (SW/base/tensor.cpp) over the shared*)
(* memory of ztaAllocSharedMem and ztaFreeSharedMem (SW/base/ztalib.c).  A *)
(* tensor owns its buffer or is an alias of one; nothing counts references.*)
(***************************************************************************)
EXTENDS Naturals, FiniteSets

CONSTANTS Tensors,
          Blocks,      \* what malloc can return
          Screens,     \* camera and display buffers, not from malloc
          NoShm        \* a null ZTA_SHARED_MEM

ASSUME ShmAssumption ==
  /\ Blocks \cap Screens = {} /\ NoShm \notin Blocks \cup Screens

VARIABLES tensor,      \* m_shm and m_isAlias of each tensor that exists
          allocated,   \* blocks malloc has handed out
          mine,        \* blocks the program allocated and keeps
          badfree      \* was a block freed that was not allocated?

vars == <<tensor, allocated, mine, badfree>>

Absent == [m_shm |-> NoShm, m_isAlias |-> TRUE]
Blank == [m_shm |-> NoShm, m_isAlias |-> FALSE]
Exists(t) == tensor[t] # Absent

Init ==
  /\ tensor = [t \in Tensors |-> Absent]
  /\ allocated = {} /\ mine = {}
  /\ badfree = FALSE

\* if(m_shm && !m_isAlias) ztaFreeSharedMem(m_shm).
\* Mutant: an alias frees what it refers to.
OwnedAlways(r) == {r.m_shm} \ {NoShm}

Owned(r) == IF r.m_isAlias THEN {} ELSE {r.m_shm} \ {NoShm}

\* Tensor t becomes r after freeing blocks, the heap first losing those and
\* then giving out new.
Become(t, r, freed, new) ==
  /\ tensor' = [tensor EXCEPT ![t] = r]
  /\ badfree' = (badfree \/ ~(freed \subseteq allocated))
  /\ allocated' = (allocated \ freed) \cup new

Construct(t) ==
  /\ ~Exists(t)
  /\ tensor' = [tensor EXCEPT ![t] = Blank]
  /\ UNCHANGED <<allocated, mine, badfree>>

\* ~TENSOR.
Destroy(t) ==
  /\ Exists(t)
  /\ Become(t, Absent, Owned(tensor[t]), {})
  /\ UNCHANGED mine

\* Create without a buffer, Clone, CreateWithBitmap: frees and allocates.
\* Mutant: the old buffer is not freed.
CreateLeaks(t, b) ==
  /\ Exists(t)
  /\ b \notin allocated
  /\ Become(t, [m_shm |-> b, m_isAlias |-> FALSE], {}, {b})
  /\ UNCHANGED mine

Create(t, b) ==
  /\ Exists(t)
  /\ b \notin allocated \ Owned(tensor[t])
  /\ Become(t, [m_shm |-> b, m_isAlias |-> FALSE], Owned(tensor[t]), {b})
  /\ UNCHANGED mine

\* Create with a buffer of the program: the tensor owns it from then on.
CreateOn(t, b) ==
  /\ Exists(t)
  /\ b \in mine
  /\ Become(t, [m_shm |-> b, m_isAlias |-> FALSE], Owned(tensor[t]), {})
  /\ mine' = mine \ {b}

\* Alias(other): other may be an alias itself, or this very tensor.
AliasTensor(t, o) ==
  /\ Exists(t) /\ Exists(o) /\ tensor[o].m_shm # NoShm
  /\ Become(t, [m_shm |-> tensor[o].m_shm, m_isAlias |-> TRUE], Owned(tensor[t]), {})
  /\ UNCHANGED mine

\* Alias(shm) of a camera or display buffer.
AliasShm(t, s) ==
  /\ Exists(t)
  /\ Become(t, [m_shm |-> s, m_isAlias |-> TRUE], Owned(tensor[t]), {})
  /\ UNCHANGED mine

\* The program allocates a block, or frees one it keeps.
Alloc(b) ==
  /\ b \notin allocated
  /\ allocated' = allocated \cup {b} /\ mine' = mine \cup {b}
  /\ UNCHANGED <<tensor, badfree>>

Free(b) ==
  /\ b \in mine
  /\ allocated' = allocated \ {b} /\ mine' = mine \ {b}
  /\ badfree' = (badfree \/ b \notin allocated)
  /\ UNCHANGED tensor

Next ==
  \/ \E t \in Tensors :
       \/ Construct(t) \/ Destroy(t)
       \/ \E b \in Blocks : Create(t, b) \/ CreateOn(t, b)
       \/ \E o \in Tensors : AliasTensor(t, o)
       \/ \E s \in Screens : AliasShm(t, s)
  \/ \E b \in Blocks : Alloc(b) \/ Free(b)

Spec == Init /\ [][Next]_vars
----------------------------------------------------------------------------
\* Every block in use has one owner, a tensor or the program: none leaks and
\* none is owned twice, whatever sequence of Create, Alias and destruction.
OneOwner ==
  \A b \in allocated :
    Cardinality({t \in Tensors : b \in Owned(tensor[t])})
      + Cardinality({b} \cap mine) = 1

\* No tensor frees a block that is not allocated: a block freed before, or a
\* camera or display buffer.
NoBadFree == ~badfree
=============================================================================
