----------------------------- MODULE KernelCode -----------------------------
(***************************************************************************)
(* The compiler's intermediate code (SW/compiler/instruction.h): a list of *)
(* instructions, each with a float operation (m_alu1), an integer operation*)
(* (m_imu) and a control operation, and what the code does when it runs.   *)
(* No opcode of the table in config.cpp is for the second ALU, so m_alu2   *)
(* stays empty and is left out.                                            *)
(***************************************************************************)
EXTENDS Integers, Sequences, FiniteSets, SequencesExt

CONSTANTS ClassInts, LocalInts,       \* names of integers: of the class, of the kernel
          ClassFloats, LocalFloats,   \* names of float variables
          Params                      \* names of a kernel's integer parameters as passed

\* A term (term.h) is a variable, a temporary, RESULT, a constant, ZERO or NULL.
Var(name) == [v |-> name, c |-> 0]
IntTemp(n) == [v |-> "int temp", c |-> n]
FloatTemp(n) == [v |-> "float temp", c |-> n]
Const(n) == [v |-> "constant", c |-> n]
Zero == Var("zero")
Null == Var("null")
Result == Var("result")

IsConst(t) == t.v = "constant"
IsId(t) == t.v \notin {"constant", "zero", "null"}
IsInteger(t) == t.v \in ClassInts \cup LocalInts \cup {"int temp"}
IsStorage(t) == t.v \in ClassFloats \cup LocalFloats \cup Params \cup {"float temp"}
isFixed(t) == t.v \in ClassInts \cup ClassFloats \cup Params

NoOp == [oc |-> "", x1 |-> Null, x2 |-> Null, y |-> Null]
Op(oc, x1, x2, y) == [oc |-> oc, x1 |-> x1, x2 |-> x2, y |-> y]

Blank == [id |-> 0, alu |-> NoOp, imu |-> NoOp,
          ctl |-> "", br |-> 0, after |-> FALSE, dest |-> FALSE]

createIMU(oc, x1, x2, y) == [Blank EXCEPT !.imu = Op(oc, x1, x2, y)]
createMU(oc, x1, x2, y) == [Blank EXCEPT !.alu = Op(oc, x1, x2, y)]

createUnconditionalJump(ctl, br, after) ==
  [Blank EXCEPT !.ctl = ctl, !.br = br, !.after = after]

createConditionalJump(ctl, x1, x2, br, after) ==
  [createUnconditionalJump(ctl, br, after) EXCEPT !.imu = Op("SUB", x1, x2, Null)]

isNull(i) == i.alu.oc = "" /\ i.imu.oc = "" /\ i.ctl = ""

\* The operands stay behind when an operation is dropped.
setNOP(i) == [i EXCEPT !.alu.oc = "", !.imu.oc = "", !.ctl = ""]

Ids(ts) == {t \in ts : IsId(t)}
UsedBy(op) == IF op.oc = "" THEN {} ELSE Ids({op.x1, op.x2})
DefinedBy(op) == IF op.oc = "" THEN {} ELSE Ids({op.y})
getUse(i) == UsedBy(i.alu) \cup UsedBy(i.imu)
getDef(i) == DefinedBy(i.alu) \cup DefinedBy(i.imu)

CondJumps == {"LT", "LE", "GT", "GE", "EQ", "NE"}

reverseLogic(ctl) ==
  CASE ctl = "LT" -> "GE" [] ctl = "GE" -> "LT"
    [] ctl = "LE" -> "GT" [] ctl = "GT" -> "LE"
    [] ctl = "EQ" -> "NE" [] ctl = "NE" -> "EQ"
    [] OTHER -> ctl

Pos(code, id) == CHOOSE k \in DOMAIN code : code[k].id = id

\* Where control goes besides the next instruction; 0: nowhere.
getBranch(code, k) ==
  LET i == code[k]
  IN  IF i.ctl \in {"", "RETURN"} THEN 0
      ELSE Pos(code, i.br) + (IF i.after THEN 1 ELSE 0)

getNextInstruction(code, k) ==
  IF k = Len(code) \/ code[k].ctl \in {"RETURN", "JUMP"} THEN 0 ELSE k + 1

getJumpInstruction(code, k) ==
  LET b == getBranch(code, k)
  IN  IF b = getNextInstruction(code, k) THEN 0 ELSE b

-----------------------------------------------------------------------------
\* What the code does.  The operations of an instruction read what the
\* instructions before it left, write together, and a conditional jump tests the
\* integer operation's result.  home says which cell holds a variable.
Holds(rel, d) ==
  CASE rel = "LT" -> d < 0 [] rel = "LE" -> d <= 0
    [] rel = "GT" -> d > 0 [] rel = "GE" -> d >= 0
    [] rel = "EQ" -> d = 0 [] rel = "NE" -> d # 0

Apply(oc, a, b) ==
  CASE oc = "ADD" -> a + b
    [] oc = "SUB" -> a - b
    [] oc \in {"ASSIGN", "ASSIGN_RAW"} -> a
    [] OTHER -> IF Holds(oc, a - b) THEN 1 ELSE 0     \* CMP_LT, ...

Vars(code) == UNION {getUse(code[k]) \cup getDef(code[k]) : k \in DOMAIN code}

Spins == [end |-> "spins", out |-> <<>>]

RECURSIVE RunFrom(_, _, _, _, _)
RunFrom(code, home, store, k, fuel) ==
  LET i == code[k]
      Value(t) == IF IsId(t) THEN store[home[t]] ELSE t.c
      Done(op) == Apply(op.oc, Value(op.x1), Value(op.x2))
      Put(s, op) == IF DefinedBy(op) = {} THEN s ELSE [s EXCEPT ![home[op.y]] = Done(op)]
      after == Put(Put(store, i.alu), i.imu)
      taken == i.ctl = "JUMP" \/ (i.ctl \in CondJumps /\ Holds(i.ctl, Done(i.imu)))
  IN  IF fuel = 0 THEN Spins
      ELSE IF i.ctl = "RETURN" THEN [end |-> "returns", out |-> after]
      ELSE RunFrom(code, home, after, IF taken THEN getBranch(code, k) ELSE k + 1, fuel - 1)

\* The class's variables when the kernel returns, started with those of input.
\* A cell nobody has written holds what the last thread left there.
Run(code, home, input, fuel) ==
  LET start == [cell \in {home[t] : t \in DOMAIN home} |->
                  IF \E t \in DOMAIN home : home[t] = cell /\ t.v \in DOMAIN input
                  THEN input[(CHOOSE t \in DOMAIN home : home[t] = cell /\ t.v \in DOMAIN input).v]
                  ELSE 0]
      r == RunFrom(code, home, start, 1, fuel)
  IN  IF r = Spins THEN Spins
      ELSE [end |-> "returns",
            out |-> [n \in ClassInts \cup ClassFloats |->
                       IF Var(n) \in DOMAIN home THEN r.out[home[Var(n)]] ELSE input[n]]]
=============================================================================
