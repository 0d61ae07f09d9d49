----------------------------- MODULE KernelColor -----------------------------
(***************************************************************************)
(* cGraph's colouring and its registers (SW/compiler/graph.cpp): which     *)
(* variables of a kernel share a register, once it is known which of them  *)
(* are alive together.                                                     *)
(***************************************************************************)
EXTENDS Integers, Sequences, FiniteSets, SequencesExt

CONSTANTS MAX_INT_SIZE, MAX_POINTER_SIZE    \* registers for integers, for pointers

ASSUME RegistersAssumption == MAX_INT_SIZE \in Nat /\ MAX_POINTER_SIZE \in Nat

\* The number of edges of each variable of ids to others of them.
interference(edges, ids) ==
  [t \in ids |-> Cardinality({e \in edges : t \in e /\ e \subseteq ids})]

\* The first colour no coloured neighbour has goes to the k-th variable.
WithColour(order, edges, c, k) ==
  LET t == order[k]
      free == {n \in 1..k : \A u \in DOMAIN c : {t, u} \in edges => c[u] # n}
  IN  [u \in DOMAIN c \cup {t} |->
         IF u = t THEN CHOOSE n \in free : \A m \in free : n <= m ELSE c[u]]

color(order, edges) ==
  LET c[k \in 0..Len(order)] ==
        IF k = 0 THEN <<>> ELSE WithColour(order, edges, c[k - 1], k)
  IN  c[Len(order)]

\* allocateGraph: the wanted colours, from the highest register down.  a: the registers
\* given so far (-1: none) and how many of the space are taken.  Colours placed before
\* the space runs out keep their registers, but the count is not updated then.
Given(wanted, max, base, r, n) ==
  IF ~r.ok \/ r.off[n] # -1 \/ n \notin wanted THEN r
  ELSE IF r.size + 1 > max THEN [r EXCEPT !.ok = FALSE]
  ELSE [r EXCEPT !.off[n] = base - r.size, !.size = @ + 1]

allocateGraph(a, wanted, max, base) ==
  LET r[n \in 0..Len(a.off)] ==
        IF n = 0 THEN [off |-> a.off, size |-> a.size, ok |-> TRUE]
        ELSE Given(wanted, max, base, r[n - 1], n)
      last == r[Len(a.off)]
  IN  [last EXCEPT !.size = IF last.ok THEN @ ELSE a.size]

\* The registers of integers, by colour: of those that index no array in the registers
\* of pointers (failing is no error), then of the rest of them among the integers'.
\* intOnly: the colours of index variables; taken: registers of class integers.
InPointers(all, intOnly) ==
  allocateGraph([off |-> [n \in 1..Cardinality(all) |-> -1], size |-> 0],
                all \ intOnly, MAX_POINTER_SIZE, MAX_POINTER_SIZE + MAX_INT_SIZE - 1)

InIntegers(all, intOnly, taken) ==
  allocateGraph([InPointers(all, intOnly) EXCEPT !.size = 0],
                all \ intOnly, MAX_INT_SIZE - taken, MAX_INT_SIZE - 1)

\* Last the index variables.
InIndices(all, intOnly, taken) ==
  allocateGraph(InIntegers(all, intOnly, taken), intOnly, MAX_INT_SIZE - taken, MAX_INT_SIZE - 1)

\* The colours of the variables that index arrays.
IntOnly(colors, index) == {colors[t] : t \in {t \in DOMAIN colors : t.v \in index}}

\* buildFunc, of a class's first kernel, which indexes arrays with index.  If the index
\* variables do not fit, a class integer moves, and they are tried once more.
IntegerRegisters(colors, index, classInts) ==
  LET all == Range(colors)
      intOnly == IntOnly(colors, index)
      taken == Len(classInts)
      pointerAvail == MAX_POINTER_SIZE - InPointers(all, intOnly).size
      o == InIndices(all, intOnly, taken)
      movable == SelectInSeq(classInts, LAMBDA n : n \notin index)
      move == IF ~o.ok /\ pointerAvail > 0 THEN movable ELSE 0
      again == IF ~o.ok /\ pointerAvail > 0
               THEN allocateGraph(o, intOnly, MAX_INT_SIZE - taken + (IF move # 0 THEN 1 ELSE 0),
                                  MAX_INT_SIZE - 1)
               ELSE o
  IN  [ok |-> InIntegers(all, intOnly, taken).ok /\ again.ok, off |-> again.off, moved |-> move]
=============================================================================
