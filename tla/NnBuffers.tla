----------------------------- MODULE NnBuffers -----------------------------
(***************************************************************************)
(* How a neural network shares memory between the results of its layers:   *)
(* NeuralNet::BufferAllocateCommit, BufferAllocate and BufferFreeAll       *)
(* (SW/apps/nn/nn_util.cpp).  A result is a buffer that is used from the   *)
(* first to the last layer that refers to it (nn.cpp 216-258); two buffers *)
(* may share memory when one is used only after the other.  A buffer is    *)
(* stored flat, interleaved or both, and one that a tensor of the          *)
(* application holds is a reference to that tensor's memory.               *)
(***************************************************************************)
EXTENDS Naturals, FiniteSets

CONSTANTS N,           \* number of buffers
          Layers,      \* number of layers
          MaxSize,
          Storage      \* how a buffer may be stored in the two formats

Buffers == 1 .. N
Times == 0 .. Layers - 1
Formats == {"flat", "interleaved"}
Kinds == {"absent", "own", "ref"}    \* not present, to allocate, a reference
None == 0                            \* the code's -1 for shmFlatReused

ASSUME SizesAssumption == N \in Nat \ {0} /\ Layers \in Nat /\ MaxSize \in Nat
ASSUME StorageAssumption == Storage \subseteq [Formats -> Kinds]

VARIABLES
  firstUsed, lastUsed0, size0, kind,   \* as BufferAllocatePrepare left them
  lastUsed, sz,                        \* updated by the loops
  reused,                              \* shmFlatReused, shmInterleaveReused
  owner,                               \* shmFlat, shmInterleave: the buffer
                                       \*   the memory was allocated for
  capacity,                            \* ghost: size of that memory
  fmt, pass, i                         \* format, loop, loop variable

inputs == <<firstUsed, lastUsed0, size0, kind>>
vars == <<inputs, lastUsed, sz, reused, owner, capacity, fmt, pass, i>>

Init ==
  /\ firstUsed \in [Buffers -> Times] /\ lastUsed0 \in [Buffers -> Times]
  /\ \A b \in Buffers : firstUsed[b] <= lastUsed0[b]
  /\ size0 \in [Buffers -> 1 .. MaxSize]
  /\ kind \in [Buffers -> Storage]
  /\ lastUsed = [b \in Buffers |-> [f \in Formats |-> lastUsed0[b]]]
  /\ sz = size0
  /\ reused = [b \in Buffers |-> [f \in Formats |-> None]]
  /\ owner = [b \in Buffers |-> [f \in Formats |-> None]]
  /\ capacity = [b \in Buffers |-> [f \in Formats |-> 0]]
  /\ fmt = "flat" /\ pass = "reuse" /\ i = 1

\* Buffer j's memory is free when i is first used.  Mutant: the layer that
\* reads j may already write i.
FreeForEarly(j) ==
  kind[j][fmt] = "own" /\ reused[j][fmt] = j /\ firstUsed[i] >= lastUsed[j][fmt]

FreeFor(j) ==
  kind[j][fmt] = "own" /\ reused[j][fmt] = j /\ firstUsed[i] > lastUsed[j][fmt]

\* The last such buffer before i.
Candidate(j) == j \in 1 .. i - 1 /\ FreeFor(j) /\ \A k \in j + 1 .. i - 1 : ~FreeFor(k)

\* Mutant: the memory is not made large enough.
GrownNot(j) == sz[j]

Grown(j) == IF sz[j] < sz[i] THEN sz[i] ELSE sz[j]

\* The loops' counter.
Advance(next) == IF i < N THEN i' = i + 1 /\ UNCHANGED <<fmt, pass>> ELSE i' = 1 /\ next

\* First loop, buffer i: shares j's memory, needs memory of its own, or none.
Share(j) ==
  /\ pass = "reuse" /\ kind[i][fmt] = "own"
  /\ Candidate(j)
  /\ lastUsed' = [lastUsed EXCEPT ![j][fmt] = lastUsed[i][fmt]]
  /\ sz' = [sz EXCEPT ![j] = Grown(j)]
  /\ reused' = [reused EXCEPT ![i][fmt] = j]
  /\ Advance(pass' = "allocate" /\ UNCHANGED fmt)
  /\ UNCHANGED <<inputs, owner, capacity>>

\* Mutant: it is not marked as needing memory.
KeepUnmarked ==
  /\ pass = "reuse" /\ kind[i][fmt] = "own"
  /\ ~\E j \in Buffers : Candidate(j)
  /\ Advance(pass' = "allocate" /\ UNCHANGED fmt)
  /\ UNCHANGED <<inputs, lastUsed, sz, reused, owner, capacity>>

Keep ==
  /\ pass = "reuse" /\ kind[i][fmt] = "own"
  /\ ~\E j \in Buffers : Candidate(j)
  /\ reused' = [reused EXCEPT ![i][fmt] = i]
  /\ Advance(pass' = "allocate" /\ UNCHANGED fmt)
  /\ UNCHANGED <<inputs, lastUsed, sz, owner, capacity>>

Pass ==
  /\ pass = "reuse" /\ kind[i][fmt] # "own"
  /\ Advance(pass' = "allocate" /\ UNCHANGED fmt)
  /\ UNCHANGED <<inputs, lastUsed, sz, reused, owner, capacity>>

\* Second loop: memory is allocated and given to all that share it.
\* Mutant: the buffer it is allocated for keeps its mark, as if it shared.
UnmarkedNot(r) == r

Unmarked(r) == [r EXCEPT ![i][fmt] = None]

Allocate ==
  /\ pass = "allocate"
  /\ IF reused[i][fmt] = i
       THEN /\ owner' = [b \in Buffers |->
                          IF reused[b][fmt] = i THEN [owner[b] EXCEPT ![fmt] = i]
                                                ELSE owner[b]]
            /\ capacity' = [capacity EXCEPT ![i][fmt] = sz[i]]
            /\ reused' = Unmarked(reused)
       ELSE UNCHANGED <<owner, reused, capacity>>
  /\ Advance(IF fmt = "flat" THEN fmt' = "interleaved" /\ pass' = "reuse"
                             ELSE pass' = "done" /\ UNCHANGED fmt)
  /\ UNCHANGED <<inputs, lastUsed, sz>>

Finished == pass = "done" /\ UNCHANGED vars

Next == (\E j \in Buffers : Share(j)) \/ Keep \/ Pass \/ Allocate \/ Finished

Spec == Init /\ [][Next]_vars
----------------------------------------------------------------------------
\* Type invariant.
TypeOK ==
  /\ firstUsed \in [Buffers -> Times] /\ lastUsed0 \in [Buffers -> Times]
  /\ size0 \in [Buffers -> 1 .. MaxSize]
  /\ kind \in [Buffers -> [Formats -> Kinds]]
  /\ lastUsed \in [Buffers -> [Formats -> Times]]
  /\ sz \in [Buffers -> 1 .. MaxSize]
  /\ reused \in [Buffers -> [Formats -> Buffers \cup {None}]]
  /\ owner \in [Buffers -> [Formats -> Buffers \cup {None}]]
  /\ capacity \in [Buffers -> [Formats -> 0 .. MaxSize]]
  /\ fmt \in Formats /\ pass \in {"reuse", "allocate", "done"} /\ i \in Buffers

\* Two buffers with the same memory are never in use in the same layer: a
\* result is not overwritten before the last layer that reads it.
SharersDisjoint ==
  \A f \in Formats : \A a, b \in Buffers :
    a # b /\ owner[a][f] # None /\ owner[a][f] = owner[b][f]
      => lastUsed0[a] < firstUsed[b] \/ lastUsed0[b] < firstUsed[a]

\* The size with which the memory was allocated is enough for every buffer
\* that shares it, although it is allocated in one loop and sized in another.
SharersFit ==
  \A f \in Formats, b \in Buffers :
    owner[b][f] # None => size0[b] <= capacity[owner[b][f]][f]

\* BufferFreeAll frees what is not a reference and not marked as sharing:
\* each memory that was allocated, exactly once.
Frees(b, f) == kind[b][f] # "ref" /\ owner[b][f] # None /\ reused[b][f] = None

FreedOnce ==
  pass = "done" => \A f \in Formats, b \in Buffers :
    owner[b][f] # None =>
      Cardinality({c \in Buffers : Frees(c, f) /\ owner[c][f] = owner[b][f]}) = 1

\* Every buffer that is to be stored gets memory, and no reference does.
AllGetMemory ==
  pass = "done" => \A f \in Formats, b \in Buffers :
    kind[b][f] = "own" <=> owner[b][f] # None
=============================================================================
