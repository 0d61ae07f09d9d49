----------------------------- MODULE MCCompiler -----------------------------
(***************************************************************************)
(* Small kernels: control flow in loops, switches, straight code and code  *)
(* around joins, parameters, and integers that compete for registers.      *)
(***************************************************************************)
EXTENDS Compiler

A == Var("a")
B == Var("b")
T == Var("t")
N == Var("n")
M == Var("m")
F == Var("f")
G == Var("g")
H == Var("h")

Plain(body) == [params |-> <<>>, body |-> body, index |-> {}]
WithParam(body) == [params |-> <<[id |-> "p", alias |-> "n"]>>, body |-> body, index |-> {}]

IncA == Post(Null, A, "ADD")
IncB == SetOp(B, "ADD", Const(1))
Low == Rel("LT", A, Const(2))
IsZeroB == Rel("EQ", B, Const(0))

\* Every loop around every selection that may leave it.  Left out: a block of
\* if and else both empty, and an else block that starts with a jump after a
\* block that is not empty (ElseLeaves).
Conds == {Low, And(<<Low, IsZeroB>>), Or(<<IsZeroB, Low>>), Rel("LT", F, Const(1))}
Blocks == {<<>>, <<IncB>>, <<Break>>, <<Continue>>, <<IncB, Break>>, <<Return>>}
LeavesAtOnce(blk) == blk # <<>> /\ Head(blk) \in {Break, Continue}
Selections ==
  {If(IsZeroB, t) : t \in Blocks} \cup
  {IfElse(IsZeroB, q[1], q[2]) : q \in {q \in Blocks \X Blocks :
     IF q[1] = <<>> THEN q[2] # <<>> ELSE ~LeavesAtOnce(q[2])}}

LoopsAround(c, s) ==
  {Plain(<<While(c, <<s, IncA>>)>>), Plain(<<DoWhile(<<s, IncA>>, c)>>),
   Plain(<<For(<<c>>, <<IncA>>, <<s>>)>>),
   Plain(<<For(<<>>, <<IncA>>, <<If(c, <<Break>>), s>>)>>)}

Loops == UNION {LoopsAround(c, s) : c \in Conds, s \in Selections}

Bodies == {<<>>, <<IncB>>, <<IncB, Break>>, <<Return>>, <<Continue>>}
Switches ==
  {Plain(<<DoWhile(<<IncA, Switch(A, cases)>>, Rel("LT", A, Const(3)))>>) :
     cases \in UNION {{<<Case(1, p), Case(2, q), Default(<<IncB>>)>>,
                       <<Default(p), Case(2, q), Case(1, <<IncB>>)>>,
                       <<Case(1, p), Case(2, q)>>} : p, q \in Bodies}}

\* Loops to unroll, up and down, with and without a round.  Left out: a bound
\* already passed, by less than a step.
UnrolledBodies ==
  {<<Calc(B, B, "ADD", T)>>, <<Calc(B, B, "ADD", T), SetOp(T, "ADD", Const(1))>>,
   <<If(Rel("EQ", T, Const(1)), <<Break>>), IncB>>,
   <<IfElse(Rel("NE", T, A), <<Calc(B, T, "ADD", B)>>, <<IncB, Continue>>), IncA>>}
Unrolled ==
  {Plain(<<Unroll(T, q[1], q[2], q[3], q[4], b)>>) :
     b \in UnrolledBodies,
     q \in {q \in {0, 2} \X {"LT", "LE", "GT", "GE"} \X {0, 1, 3} \X {-2, -1, 1, 2} :
             Holds(q[2], q[1] - q[3]) \/ q[1] = q[3] \/ Abs(q[1] - q[3]) >= Abs(q[4])}}

\* ++ and ?: in front of and behind what they could disturb.  Left out: y += c ? u : v.
Expressions ==
  {Post(B, A, "ADD"), Pre(B, A, "SUB"), Choose(B, Low, A, Const(1)), Choose(A, IsZeroB, B, A),
   Choose(F, Low, G, Const(1)), Choose(G, IsZeroB, F, G), Calc(F, Const(0), "SUB", G)}
Evaluated == {Plain(<<Set(G, F)>> \o s) : s \in [1..3 -> Expressions]}

\* Assignments in any order that sets a local variable before it is used.  Left
\* out: T = ...; a statement that reads Y; Y = T.
Moves ==
  {Set(T, Const(1)), Set(T, A), Set(A, T), Calc(T, A, "ADD", B), Calc(N, T, "ADD", A),
   SetOp(T, "ADD", Const(1)), Calc(B, A, "SUB", N), Set(A, Const(0)),
   Set(G, F), Set(F, G), Calc(G, F, "ADD", Const(1)), Calc(H, G, "ADD", F), Set(F, H)}
FewMoves ==
  {Set(T, Const(1)), Set(T, A), Set(A, T), SetOp(T, "ADD", Const(1)), Calc(B, T, "ADD", A),
   Set(G, F), Set(F, G), Calc(G, F, "ADD", Const(1))}
Reads(s) == Ids({s.x1, s.x2}) \cup (IF s.k = "update" THEN {s.y} ELSE {})
SetsBeforeUse(ss) ==
  \A k \in DOMAIN ss : \A t \in Reads(ss[k]) \cap {T, N, G, H} : \E j \in 1..(k - 1) : ss[j].y = t
Swaps(ss) ==
  \E i, j, k \in DOMAIN ss : /\ i < j /\ j < k /\ ss[k].k = "set" /\ ss[k].x1 = ss[i].y
                             /\ ss[k].y \in Reads(ss[j])
Sequences(moves, n) == {ss \in [1..n -> moves] : SetsBeforeUse(ss) /\ ~Swaps(ss)}

Straight == {Plain(ss) : ss \in Sequences(Moves, 3)}
Joins ==
  UNION {{Plain(<<s[1], If(IsZeroB, <<s[2]>>), s[3], s[4]>>),
          Plain(<<s[1], IfElse(IsZeroB, <<s[2]>>, <<s[3]>>), s[4]>>),
          Plain(<<s[1], While(Low, <<s[2], IncA>>), s[3], s[4]>>),
          Plain(<<s[1], DoWhile(<<s[2], s[3], IncA>>, Low), s[4]>>)} :
           s \in {s \in Sequences(FewMoves, 4) :
                   /\ isFixed(s[4].y)
                   /\ SetsBeforeUse(<<s[1], s[3]>>) /\ SetsBeforeUse(<<s[1], s[4]>>)}}

ParamMoves == {Set(A, N), SetOp(N, "ADD", Const(1)), Set(N, A), Calc(B, A, "ADD", N), Return}
Parameters ==
  UNION {{WithParam(s),
          WithParam(<<s[1], If(Rel("LT", N, Const(1)), <<s[2]>>), s[3]>>),
          WithParam(<<s[1], While(Rel("GT", N, Const(0)), <<SetOp(N, "SUB", Const(1)), s[2]>>), s[3]>>)} :
           s \in [1..3 -> ParamMoves]}

\* Three integers alive together, some of them an index.
Computes == {<<Calc(T, A, "ADD", B), Calc(N, A, "SUB", B), Calc(M, B, "SUB", A)>>,
             <<Calc(T, A, "ADD", B), Calc(N, A, "SUB", T), Calc(M, B, "SUB", N)>>}
Consumes == {<<Calc(A, T, "ADD", N), Calc(B, A, "ADD", M)>>,
             <<Calc(A, T, "ADD", M), Calc(A, A, "ADD", N), If(IsZeroB, <<Calc(A, M, "SUB", T)>>)>>,
             <<Calc(A, T, "ADD", M), Calc(A, A, "SUB", N), Calc(B, A, "SUB", M)>>}
Indexed == {[params |-> <<>>, body |-> p \o q, index |-> ix] :
              p \in Computes, q \in Consumes, ix \in SUBSET {"t", "n", "m", "a", "b"}}

\* A value carried round a loop past another variable's.
Carried ==
  UNION {{Plain(<<Calc(T, B, "ADD", Const(1)), While(Low, s)>>),
          Plain(<<Calc(T, B, "ADD", Const(1)), DoWhile(s, Low)>>)} :
           s \in {s \in [1..3 -> {Calc(B, B, "ADD", T), Calc(N, A, "ADD", Const(1)), Set(A, N),
                                  Calc(T, B, "SUB", N)}] :
                   SetsBeforeUse(<<Set(T, B)>> \o s)}}

\* What the sets above leave out: kernels whose compiled code does something else.  An
\* else block that leaves the loop, an exchange, an if with nothing in it, a loop to
\* unroll whose bound is passed by less than a step, and y += c ? u : v.
ElseLeaves == {Plain(<<While(Low, <<IncA, IfElse(IsZeroB, <<IncB>>, <<b>>), IncB>>)>>) :
                 b \in {Break, Continue}}
Exchanges == {Plain(<<Set(T, A), Set(A, B), Set(B, T)>>)}
EmptyIfs == {Plain(<<IfElse(IsZeroB, <<>>, <<>>), IncA>>)}
PassedBounds == {Plain(<<Unroll(T, 1, "LT", 0, 2, <<IncB>>)>>)}
ChosenUpdates == {Plain(<<ChooseOp(A, "ADD", IsZeroB, Const(3), Const(5))>>)}

AllKernels ==
  Loops \cup Switches \cup Unrolled \cup Evaluated \cup Straight \cup Joins \cup Parameters
    \cup Carried \cup Indexed

\* No kernel uses both a float and a parameter.
Bits == {in \in [ClassInts \cup ClassFloats \cup Params -> {0, 1}] : in["f"] = 0 \/ in["p"] = 0}
=============================================================================
