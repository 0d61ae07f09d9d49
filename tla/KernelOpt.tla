----------------------------- MODULE KernelOpt ------------------------------
(***************************************************************************)
(* The optimizer's passes (SW/compiler/instruction.cpp), each a function   *)
(* from code to code.  A pass that is repeated until it changes nothing    *)
(* returns [code, rc], rc as the C++ function returns it.                  *)
(***************************************************************************)
EXTENDS KernelGen

\* The first instruction from k on that is not empty; 0: none before the end.
SkipNull(code, k) ==
  LET real == {j \in k..Len(code) : ~isNull(code[j])}
  IN  IF real = {} THEN 0 ELSE CHOOSE j \in real : \A m \in real : j <= m

\* ... or the last instruction.
SkipToEnd(code, k) ==
  IF k > Len(code) \/ SkipNull(code, k) = 0 THEN Len(code) ELSE SkipNull(code, k)

\* f(acc, k) for each k of lo..hi in this order.  The bound a makes TLC evaluate each
\* before the next.
RECURSIVE Scan(_, _, _, _)
Scan(f(_, _), acc, lo, hi) ==
  IF lo > hi THEN acc
  ELSE CHOOSE r \in {Scan(f, a, lo + 1, hi) : a \in {f(acc, lo)}} : TRUE

-----------------------------------------------------------------------------
\* compress_jump, its four loops one after the other.

\* A jump to where control goes anyway is dropped.  Mutant: it is only counted.
DropJumpCounted(r, k) ==
  LET c == r.code
      to == getJumpInstruction(c, k)
      gone == to # 0 /\ (IF c[k].after THEN to = k ELSE to = SkipNull(c, k + 1))
  IN  [code |-> [c EXCEPT ![k].dest = FALSE], rc |-> r.rc \/ gone]

DropJump(r, k) ==
  LET c == r.code
      to == getJumpInstruction(c, k)
      gone == to # 0 /\ (IF c[k].after THEN to = k ELSE to = SkipNull(c, k + 1))
  IN  [code |-> [c EXCEPT ![k] = [IF gone THEN setNOP(@) ELSE @ EXCEPT !.dest = FALSE]],
       rc |-> r.rc \/ gone]

\* A jump goes to the first instruction that is not empty, which is marked.
Resolve(r, k) ==
  LET c == r.code
      to == SkipToEnd(c, getBranch(c, k))
  IN  IF c[k].ctl \in {"", "RETURN"} THEN r
      ELSE [r EXCEPT !.code = [[c EXCEPT ![k].br = c[to].id, ![k].after = FALSE]
                                 EXCEPT ![to].dest = TRUE]]

\* A branch around a single jump becomes the opposite branch.
InvertBranch(r, k) ==
  LET c == r.code
      over == IF k + 2 > Len(c) THEN 0 ELSE SkipToEnd(c, k + 2)
      fits == /\ k + 1 <= Len(c)
              /\ getBranch(c, k) # 0 /\ getBranch(c, k) = over
              /\ c[k + 1].ctl = "JUMP"
  IN  IF ~fits THEN r
      ELSE [code |-> [c EXCEPT ![k].ctl = reverseLogic(@), ![k].br = c[k + 1].br,
                               ![k + 1] = setNOP(@)],
            rc |-> TRUE]

\* A jump to a jump goes to the latter's destination.
ThreadJump(r, k) ==
  LET c == r.code
      b == getBranch(c, k)
  IN  IF c[k].ctl = "JUMP" /\ c[b].ctl = "JUMP"
      THEN [code |-> [c EXCEPT ![k].br = c[b].br], rc |-> TRUE]
      ELSE r

compress_jump(code) ==
  LET Each(f(_, _), r) == Scan(f, r, 1, Len(code))
  IN  Each(ThreadJump, Each(InvertBranch, Each(Resolve, Each(DropJump,
        [code |-> code, rc |-> FALSE]))))

-----------------------------------------------------------------------------
\* getInstructionBlock: the last instruction of the smallest block that starts
\* at k, is entered only there and left only at its end; 0: there is none.
\* Mutant: up to the branch's destination, wherever it is entered.
BlockToBranch(code, k) == IF getBranch(code, k) > k THEN getBranch(code, k) ELSE 0

getInstructionBlock(code, k) ==
  LET n == Len(code)
      Entered(e) == \E j \in (1..n) \ (k..e) : getBranch(code, j) \in k..e
      RECURSIVE Grow(_, _)
      Grow(j, e) ==
        LET b == getBranch(code, j)
            e1 == IF j > e THEN j ELSE e
            e2 == IF b > e1 THEN b ELSE e1
        IN  IF j > n THEN 0
            ELSE IF b = j THEN Grow(j + 1, e)
            ELSE IF b # 0 /\ b < k THEN 0
            ELSE IF ~Entered(e2) /\ j = e2 THEN e2
            ELSE Grow(j + 1, e2)
  IN  Grow(k, k)

\* The stretches of code after k over which a value computed at k is followed:
\* single instructions and, when global, blocks that start with a control
\* operation.  Step(r, m, e) says what is done with the stretch m..e and whether
\* to go on (r.go).  A jump's destination ends the walk.
RECURSIVE Follow(_, _, _, _)
Follow(Step(_, _, _), r, m, global) ==
  LET ctl == m <= Len(r.code) /\ r.code[m].ctl # ""
      e == IF global /\ ctl THEN getInstructionBlock(r.code, m) ELSE m
      s == Step(r, m, e)
  IN  IF m > Len(r.code) \/ r.code[m].dest \/ e = 0 THEN r
      ELSE IF ~s.go \/ (~global /\ ctl) THEN s
      ELSE Follow(Step, s, e + 1, global)

Changes(code, m, e, ids) == \E j \in m..e : getDef(code[j]) \cap ids # {}

\* Instructions m..e with each integer operand (float operand) t replaced by u.
Subst(op, t, u) ==
  IF op.oc = "" THEN op
  ELSE [op EXCEPT !.x1 = IF @ = t THEN u ELSE @, !.x2 = IF @ = t THEN u ELSE @]

InRange(code, m, e, F(_)) == [j \in DOMAIN code |-> IF j \in m..e THEN F(code[j]) ELSE code[j]]

\* substituteAssignment's first loop: after X = RESULT, X is read from RESULT.
IsResultCopy(i) ==
  /\ i.imu.oc = "ADD" /\ i.ctl = "" /\ IsInteger(i.imu.y)
  /\ {i.imu.x1, i.imu.x2} = {Result, Zero}

FollowResult(r0, k, global) ==
  LET i == r0.code[k]
      Step(r, m, e) ==
        LET new == InRange(r.code, m, e, LAMBDA j : [j EXCEPT !.imu = Subst(@, i.imu.y, Result)])
        IN  IF Changes(r.code, m, e, getDef(i) \cup getUse(i)) THEN [r EXCEPT !.go = FALSE]
            ELSE [r EXCEPT !.code = new, !.rc = @ \/ new # r.code]
  IN  IF IsResultCopy(i) THEN Follow(Step, [r0 EXCEPT !.go = TRUE], k + 1, global) ELSE r0

\* Its second loop: after a float X = Z, X is read from Z, and after X = op, a
\* copy Y = X computes op itself.
FollowFloat(r0, k, global) ==
  LET i == r0.code[k]
      x == i.alu.y
      copy == i.alu.oc = "ASSIGN"
      Rewrite(j) ==
        IF copy
        THEN LET s == [j EXCEPT !.alu = Subst(@, x, i.alu.x1)]
             IN  IF ~IsStorage(i.alu.x1) \/ j.alu.oc = "" THEN j
                 ELSE IF s.alu.oc = "ASSIGN" /\ s.alu.x1 = s.alu.y /\ IsStorage(s.alu.y)
                 THEN setNOP(s) ELSE s
        ELSE IF /\ j.alu.oc = "ASSIGN" /\ IsStorage(j.alu.y) /\ j.alu.x1 = x
                /\ getDef(i) \cap getUse(i) = {}
        THEN [j EXCEPT !.alu.oc = i.alu.oc, !.alu.x1 = i.alu.x1, !.alu.x2 = i.alu.x2]
        ELSE j
      Step(r, m, e) ==
        LET hit == Changes(r.code, m, e, getDef(i) \cup getUse(i))
            new == InRange(r.code, m, e, Rewrite)
            touched == \E j \in m..e :
                         \/ new[j] # r.code[j]
                         \/ copy /\ x = i.alu.x1 /\ x \in UsedBy(r.code[j].alu)
            done == [r EXCEPT !.code = new, !.rc = @ \/ touched, !.go = ~hit]
        IN  IF hit /\ e # m THEN [r EXCEPT !.go = FALSE] ELSE done
  IN  IF i.alu.oc # "" /\ IsStorage(x)
      THEN Follow(Step, [r0 EXCEPT !.go = TRUE], k + 1, global) ELSE r0

substituteAssignment(code, global) ==
  LET n == Len(code)
      r == Scan(LAMBDA q, k : FollowResult(q, k, global),
                [code |-> code, rc |-> FALSE, go |-> TRUE], 1, n)
  IN  Scan(LAMBDA q, k : FollowFloat(q, k, global), r, 1, n)

-----------------------------------------------------------------------------
\* simplifyIMU: an operation on constants becomes its result, x + 0 assigned to x
\* is dropped, and a condition on constants becomes a jump or nothing.
IsZero(t) == t = Zero \/ t = Const(0)
Known(t) == IsConst(t) \/ t = Zero

simplifyIMU(i) ==
  LET o == i.imu
      value == Apply(o.oc, o.x1.c, o.x2.c)
  IN  IF o.oc = "" THEN i
      ELSE IF i.ctl = ""
      THEN IF IsConst(o.x1) /\ IsConst(o.x2)
           THEN [i EXCEPT !.imu = Op("ADD", Const(value), Zero, o.y)]
           ELSE IF o.oc = "ADD" /\ ((IsZero(o.x1) /\ o.y = o.x2) \/ (IsZero(o.x2) /\ o.y = o.x1))
           THEN [i EXCEPT !.imu.oc = ""]
           ELSE i
      ELSE IF Known(o.x1) /\ Known(o.x2)
      THEN [i EXCEPT !.imu.oc = "", !.ctl = IF Holds(i.ctl, value) THEN "JUMP" ELSE ""]
      ELSE i

simplifyMU(i) ==
  LET o == i.alu
  IN  IF o.oc = "" THEN i
      ELSE IF IsConst(o.x1) /\ IsConst(o.x2)
      THEN [i EXCEPT !.alu = Op(IF o.oc \in CondJumps THEN "ASSIGN_RAW" ELSE "ASSIGN",
                                Const(Apply(o.oc, o.x1.c, o.x2.c)), Null, o.y)]
      ELSE IF o.oc = "ADD" /\ ((o.x1 = Const(0) /\ o.y = o.x2) \/ (o.x2 = Const(0) /\ o.y = o.x1))
      THEN [i EXCEPT !.alu.oc = ""]
      ELSE i

simplify(code) == [k \in DOMAIN code |-> simplifyIMU(simplifyMU(code[k]))]

\* The variable an instruction sets to a constant, and the constant.
getConstantAssignment(i) ==
  IF i.alu.oc \in {"ASSIGN", "ASSIGN_RAW"} /\ IsConst(i.alu.x1) THEN <<i.alu.y, i.alu.x1>>
  ELSE IF i.imu.oc = "ADD" /\ i.ctl = "" /\ i.imu.x2 = Zero /\ IsConst(i.imu.x1)
  THEN <<i.imu.y, i.imu.x1>>
  ELSE IF i.imu.oc = "ADD" /\ i.ctl = "" /\ i.imu.x1 = Zero /\ IsConst(i.imu.x2)
  THEN <<i.imu.y, i.imu.x2>>
  ELSE <<>>

FollowConstant(r0, k, global) ==
  LET yc == getConstantAssignment(r0.code[k])
      Step(r, m, e) ==
        LET new == InRange(r.code, m, e, LAMBDA j :
                     [j EXCEPT !.alu = Subst(@, yc[1], yc[2]), !.imu = Subst(@, yc[1], yc[2])])
        IN  IF Changes(r.code, m, e, Ids({yc[1]})) THEN [r EXCEPT !.go = FALSE]
            ELSE [r EXCEPT !.code = new, !.rc = @ \/ new # r.code]
  IN  IF r0.code[k].ctl # "" \/ yc = <<>> THEN r0
      ELSE Follow(Step, [r0 EXCEPT !.go = TRUE], k + 1, global)

\* Rounds of simplify and propagation until one changes nothing; loop counts them.
RECURSIVE FoldRounds(_, _, _)
FoldRounds(code, global, loop) ==
  LET s == simplify(code)
      r == Scan(LAMBDA q, k : FollowConstant(q, k, global),
                [code |-> s, rc |-> s # code, go |-> TRUE], 1, Len(s) - 1)
  IN  IF r.rc THEN FoldRounds(r.code, global, loop + 1)
      ELSE [code |-> r.code, rc |-> loop > 1]

constantFolding(code, global) == FoldRounds(code, global, 1)

-----------------------------------------------------------------------------
\* removeDeadCode: what no path from the first instruction reaches is emptied.
Reached(code) ==
  LET Next(k) == {j \in {getBranch(code, k), getNextInstruction(code, k)} : j # 0}
      RECURSIVE Grow(_)
      Grow(S) == LET T == S \cup UNION {Next(k) : k \in S} IN IF T = S THEN S ELSE Grow(T)
  IN  Grow({1})

removeDeadCode(code) ==
  LET live == Reached(code)
  IN  [k \in DOMAIN code |-> IF k \in live THEN code[k] ELSE setNOP(code[k])]

-----------------------------------------------------------------------------
\* findCommonExpression.  Both count instructions.
m_useCount(code, t) == Cardinality({k \in DOMAIN code : t \in getUse(code[k])})
m_defCount(code, t) == Cardinality({k \in DOMAIN code : t \in getDef(code[k])})

\* The variable instruction i only copies, and the slot that does it.
Copied(i) ==
  IF i.alu.oc = "ASSIGN" /\ IsStorage(i.alu.x1) THEN <<i.alu.x1, i.alu.y>>
  ELSE IF i.ctl = "" /\ i.imu.oc = "ADD" /\ i.imu.x2 = Zero /\ IsInteger(i.imu.x1)
  THEN <<i.imu.x1, i.imu.y>>
  ELSE IF i.ctl = "" /\ i.imu.oc = "ADD" /\ i.imu.x1 = Zero /\ IsInteger(i.imu.x2)
  THEN <<i.imu.x2, i.imu.y>>
  ELSE <<>>

\* T = ...; Y = T with T used nowhere else: the first instruction sets Y, the
\* second goes.  What lies between must not set Y; that it does not read Y is not
\* asked: the second call of getDef at line 1698 fills use3.
RemoveAlias(code0, code, k) ==
  LET i == code[k]
      slot == IF i.alu.oc # "" /\ IsStorage(i.alu.y) THEN "alu"
              ELSE IF i.imu.oc # "" /\ IsInteger(i.imu.y) THEN "imu" ELSE ""
      t == IF slot = "alu" THEN i.alu.y ELSE i.imu.y
      \* the walk stops at a destination and after a control operation
      reach == {m \in (k + 1)..Len(code) :
                  /\ \A j \in (k + 1)..m : ~code[j].dest
                  /\ \A j \in (k + 1)..(m - 1) : code[j].ctl = ""}
      copies == {m \in reach : Copied(code[m]) # <<>> /\ Copied(code[m])[1] = t}
      m == CHOOSE c \in copies : \A d \in copies : c <= d
      y == Copied(code[m])[2]
      clear == \A j \in (k + 1)..(m - 1) : getDef(code[j]) \cap getDef(code[m]) = {}
  IN  IF \/ i.ctl # "" \/ slot = "" \/ getDef(i) # {t} \/ isFixed(t)
         \/ m_useCount(code0, t) # 1 \/ m_defCount(code0, t) # 1
         \/ copies = {} \/ ~clear
      THEN code
      ELSE [code EXCEPT ![k] = IF slot = "alu" THEN [@ EXCEPT !.alu.y = y]
                               ELSE [@ EXCEPT !.imu.y = y],
                        ![m] = setNOP(@)]

\* The counts are those of the code the pass starts with.
findCommonExpression(code) ==
  LET s == simplify(code)
      a == Scan(LAMBDA c, k : RemoveAlias(code, c, k), s, 1, Len(s) - 1)
      Unused(i) == /\ i.ctl = "" /\ Cardinality(getDef(i)) = 1
                   /\ \A t \in getDef(i) : m_useCount(code, t) = 0 /\ ~isFixed(t)
  IN  [k \in DOMAIN a |-> IF Unused(a[k]) THEN setNOP(a[k]) ELSE a[k]]

-----------------------------------------------------------------------------
\* combine: can operation op of slot kind be moved into instruction to?
Needs(x, y) == IsId(x) /\ x = y       \* !x->independent(y)

combine(to, kind, op) ==
  LET tos == {to.alu, to.imu}
      late == \E o \in tos : Needs(op.x1, o.y) \/ Needs(op.x2, o.y) \/ Needs(op.y, o.y)
      last == \/ to.dest \/ kind = "ctl"
              \/ \E o \in tos : Needs(o.x1, op.y) \/ Needs(o.x2, op.y)
      full == (kind = "alu" /\ to.alu.oc # "") \/ (kind = "imu" /\ to.imu.oc # "")
  IN  IF to.ctl # "" \/ late THEN "FAIL"
      ELSE IF full THEN IF last THEN "FAIL" ELSE "FAIL_CONT"
      ELSE IF last THEN "OK_LAST" ELSE "OK_CONT"

can_fit(i, j) ==
  /\ ~(i.alu.oc # "" /\ j.alu.oc # "")
  /\ ~(i.imu.oc # "" /\ j.imu.oc # "")
  /\ ~(i.ctl # "" /\ j.ctl # "")

\* All operations of i move into to, or none.
Merge(i, to) ==
  LET rcs == (IF i.alu.oc # "" THEN {combine(to, "alu", i.alu)} ELSE {})
               \cup (IF i.imu.oc # "" THEN {combine(to, "imu", i.imu)} ELSE {})
               \cup (IF i.ctl # "" THEN {combine(to, "ctl", NoOp)} ELSE {})
      all == IF "FAIL" \in rcs \/ {"FAIL_CONT", "OK_LAST"} \subseteq rcs THEN "FAIL"
             ELSE IF "FAIL_CONT" \in rcs THEN "FAIL_CONT"
             ELSE IF "OK_LAST" \in rcs THEN "OK_LAST" ELSE "OK_CONT"
      room == ~isNull(to) /\ can_fit(i, to)
  IN  IF all = "OK_LAST" /\ ~room THEN "FAIL"
      ELSE IF all = "OK_CONT" /\ ~room THEN "FAIL_CONT"
      ELSE all

\* Instruction k moves up into the first instruction that takes it; a control
\* operation only into the one before.
compressInstruction(code, k) ==
  LET i == code[k]
      into == {j \in 1..(k - 1) :
                 /\ Merge(i, code[j]) \in {"OK_LAST", "OK_CONT"}
                 /\ \A m \in (j + 1)..(k - 1) : Merge(i, code[m]) = "FAIL_CONT"
                 /\ i.ctl # "" => j = k - 1}
      j == CHOOSE j \in into : TRUE
      With(to) == [to EXCEPT !.alu = IF i.alu.oc # "" THEN i.alu ELSE @,
                             !.imu = IF i.imu.oc # "" THEN i.imu ELSE @,
                             !.ctl = IF i.ctl # "" THEN i.ctl ELSE @,
                             !.br = IF i.ctl # "" THEN i.br ELSE @,
                             !.after = IF i.ctl # "" THEN i.after ELSE @]
  IN  IF i.dest \/ into = {} THEN code
      ELSE RemoveAt([code EXCEPT ![j] = With(@)], k)

\* From the last instruction to the second, those with a control operation or
\* those without.
RECURSIVE Sweep(_, _, _)
Sweep(code, k, ctl) ==
  IF k <= 1 THEN code
  ELSE Sweep(IF (code[k].ctl # "") = ctl THEN compressInstruction(code, k) ELSE code, k - 1, ctl)

RECURSIVE Sweeps(_)
Sweeps(code) ==
  LET s == Sweep(code, Len(code), FALSE)
  IN  IF Len(s) = Len(code) THEN code ELSE Sweeps(s)

compressFunction(code) == LET s == Sweeps(code) IN Sweep(s, Len(s), TRUE)

\* The last loop of Optimize: an empty first instruction goes, and makes the next one
\* the first.
DropFirst(code) ==
  LET k == SelectInSeq(Front(code), LAMBDA i : ~isNull(i) \/ i.dest)
  IN  IF k = 0 THEN <<Last(code)>> ELSE SubSeq(code, k, Len(code))
=============================================================================
