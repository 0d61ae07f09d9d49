----------------------------- MODULE KernelRegs -----------------------------
(***************************************************************************)
(* cGraph (SW/compiler/graph.cpp): which register or memory cell holds a   *)
(* kernel's variables.  Variables alive together are joined by an edge,    *)
(* the graph is coloured, and every colour gets a register.  Integers may  *)
(* also live in the registers of pointers, unless they index an array.     *)
(***************************************************************************)
EXTENDS KernelOpt, KernelColor

\* Live-in and live-out sets, iterated until nothing changes.  Mutant: one round
\* from the last instruction up, in which no value survives a jump back.
LiveInOnce(code) ==
  LET Up(in, n) ==
        LET k == Len(code) + 1 - n
            s == {getNextInstruction(code, k), getJumpInstruction(code, k)}
        IN  [in EXCEPT ![k] = getUse(code[k]) \cup (UNION {in[j] : j \in s \ {0}} \ getDef(code[k]))]
  IN  Scan(Up, [k \in DOMAIN code |-> {}], 1, Len(code))

LiveIn(code) ==
  LET Succ(k) == {s \in {getNextInstruction(code, k), getJumpInstruction(code, k)} : s # 0}
      RECURSIVE Iterate(_)
      Iterate(in) ==
        LET new == [k \in DOMAIN code |->
                      getUse(code[k]) \cup (UNION {in[s] : s \in Succ(k)} \ getDef(code[k]))]
        IN  IF new = in THEN in ELSE Iterate(new)
  IN  Iterate([k \in DOMAIN code |-> {}])

LiveOut(code) ==
  LET in == LiveIn(code)
      Succ(k) == {s \in {getNextInstruction(code, k), getJumpInstruction(code, k)} : s # 0}
  IN  [k \in DOMAIN code |-> UNION {in[s] : s \in Succ(k)}]

\* M_edge: both leave some instruction alive, or one is set while the other is.
EdgesOf(code) ==
  LET out == LiveOut(code)
  IN  {e \in SUBSET Vars(code) :
         /\ Cardinality(e) = 2
         /\ \E a, b \in e : /\ a # b
                            /\ \E k \in DOMAIN code : a \in out[k] /\ b \in out[k] \cup getDef(code[k])}

\* M_regLst: the variables in order of appearance.
RegLst(code) ==
  LET Add(s, t) == IF IsId(t) /\ t \notin Range(s) THEN Append(s, t) ELSE s
      AddOps(s, k) ==
        LET i == code[k]
            Y(q, op) == IF op.oc = "" THEN q ELSE Add(q, op.y)
            X(q, op) == IF op.oc = "" THEN q ELSE Add(Add(q, op.x1), op.x2)
        IN  X(X(Y(Y(s, i.alu), i.imu), i.alu), i.imu)
  IN  Scan(AddOps, <<>>, 1, Len(code))

\* lst, the variables with fewer edges first.
stack(lst, count) ==
  LET Before(j, k) == \/ count[lst[j]] < count[lst[k]]
                      \/ count[lst[j]] = count[lst[k]] /\ j < k
      at == SortSeq([k \in DOMAIN lst |-> k], Before)
  IN  [k \in DOMAIN lst |-> lst[at[k]]]

colorGraph(code, kind) ==
  LET lst == SelectSeq(RegLst(code), LAMBDA t : t \in kind /\ ~isFixed(t))
      Coloured(ids, edges) == color(stack(ids, interference(edges, Range(ids))), edges)
  IN  Coloured(lst, EdgesOf(code))

classInts == SetToSeq(ClassInts)

\* Every variable's cell: a class integer that moves goes to the
\* registers of pointers, the others close up.
Cells(code, ints, floats, regs) ==
  LET ClassReg(n) ==
        LET k == CHOOSE j \in DOMAIN classInts : classInts[j] = n
        IN  IF regs.moved = k THEN MAX_INT_SIZE
            ELSE IF regs.moved \in 1..(k - 1) THEN k - 2 ELSE k - 1
  IN  [t \in Vars(code) |->
         CASE t \in DOMAIN ints -> [v |-> "register", c |-> regs.off[ints[t]]]
           [] t.v \in ClassInts -> [v |-> "register", c |-> ClassReg(t.v)]
           [] t \in DOMAIN floats -> [v |-> "private", c |-> floats[t]]
           [] OTHER -> t]

buildFunc(code, index) ==
  LET Placed(ints, floats, regs) == [ok |-> regs.ok, home |-> Cells(code, ints, floats, regs)]
      Allocated(ints, floats) == Placed(ints, floats, IntegerRegisters(ints, index, classInts))
  IN  Allocated(colorGraph(code, {t \in Vars(code) : IsInteger(t)}),
                colorGraph(code, {t \in Vars(code) : IsStorage(t)}))
=============================================================================
