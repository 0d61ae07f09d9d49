---------------------------- MODULE KernelSource ----------------------------
(***************************************************************************)
(* Kernels as their author writes them, in the compiler's C subset, and    *)
(* what they mean.  This is the reference the compiled code is checked     *)
(* against.  A kernel is                                                   *)
(*   [params, body, index]                                                 *)
(* params pairs each parameter with the integer it becomes, body is a      *)
(* sequence of statements and index the integers used as array index.      *)
(***************************************************************************)
EXTENDS KernelCode

\* Conditions.
Rel(op, x, y) == [k |-> "rel", op |-> op, x |-> x, y |-> y, args |-> <<>>]
And(args) == [k |-> "and", op |-> "", x |-> Null, y |-> Null, args |-> args]
Or(args) == [k |-> "or", op |-> "", x |-> Null, y |-> Null, args |-> args]

\* Statements.
Stmt(k) == [k |-> k, op |-> "", y |-> Null, x1 |-> Null, x2 |-> Null, cond |-> <<>>,
            then |-> <<>>, else |-> <<>>]
Set(y, x) == [Stmt("set") EXCEPT !.op = "=", !.y = y, !.x1 = x]           \* y = x
SetOp(y, oc, x) == [Stmt("update") EXCEPT !.op = oc, !.y = y, !.x1 = x]   \* y += x
Calc(y, x1, oc, x2) ==                                                    \* y = x1 + x2
  [Stmt("calc") EXCEPT !.op = oc, !.y = y, !.x1 = x1, !.x2 = x2]
Choose(y, c, x1, x2) ==                                                   \* y = c ? x1 : x2
  [Stmt("choose") EXCEPT !.op = "=", !.y = y, !.cond = <<c>>, !.x1 = x1, !.x2 = x2]
ChooseOp(y, oc, c, x1, x2) == [Choose(y, c, x1, x2) EXCEPT !.op = oc]      \* y += c ? x1 : x2
Post(y, x, oc) == [Stmt("post") EXCEPT !.op = oc, !.y = y, !.x1 = x]       \* y = x++, or x++
Pre(y, x, oc) == [Stmt("pre") EXCEPT !.op = oc, !.y = y, !.x1 = x]         \* y = ++x, or ++x
If(c, t) == [Stmt("if") EXCEPT !.cond = <<c>>, !.then = t]
IfElse(c, t, e) == [Stmt("ifelse") EXCEPT !.cond = <<c>>, !.then = t, !.else = e]
While(c, b) == [Stmt("while") EXCEPT !.cond = <<c>>, !.then = b]
DoWhile(b, c) == [Stmt("dowhile") EXCEPT !.cond = <<c>>, !.then = b]
\* for( ; c; step) {b}, or for( ; ; step) {b} when c is <<>>
For(c, step, b) == [Stmt("for") EXCEPT !.cond = c, !.then = b, !.else = step]
\* #pragma unroll: for(i = from; i rel to; i += step) {b}
Unroll(i, from, rel, to, step, b) ==
  [For(<<Rel(rel, i, Const(to))>>, <<SetOp(i, "ADD", Const(step))>>, b)
     EXCEPT !.k = "unroll", !.y = i, !.x1 = Const(from)]
\* switch(x) { case n: ... default: ... }: bodies fall through.  A label is
\* [k |-> "case", c |-> n, body] or [k |-> "default", ...].
Switch(x, cases) == [Stmt("switch") EXCEPT !.x1 = x, !.then = cases]
Case(n, body) == [k |-> "case", c |-> n, body |-> body]
Default(body) == [k |-> "default", c |-> 0, body |-> body]
Break == Stmt("break")
Continue == Stmt("continue")
Return == Stmt("return")

-----------------------------------------------------------------------------
ValueOf(t, st) == IF IsId(t) THEN st[t.v] ELSE t.c

RECURSIVE IsTrue(_, _)
IsTrue(c, st) ==
  CASE c.k = "rel" -> Holds(c.op, ValueOf(c.x, st) - ValueOf(c.y, st))
    [] c.k = "and" -> \A a \in DOMAIN c.args : IsTrue(c.args[a], st)
    [] c.k = "or" -> \E a \in DOMAIN c.args : IsTrue(c.args[a], st)

\* The outcome of a statement list: how it ends, the variables, the fuel left.
RECURSIVE Exec(_, _, _)
RECURSIVE ExecOne(_, _, _)
RECURSIVE Loop(_, _, _, _)

Exec(ss, st, fuel) ==
  IF ss = <<>> THEN [end |-> "next", st |-> st, fuel |-> fuel]
  ELSE LET r == ExecOne(Head(ss), st, fuel)
       IN  IF r.end = "next" THEN Exec(Tail(ss), r.st, r.fuel) ELSE r

\* Rounds of a loop; first: the condition is not asked before the first one.
Loop(s, st, fuel, first) ==
  IF fuel = 0 THEN [end |-> "spins", st |-> st, fuel |-> 0]
  ELSE IF ~first /\ s.cond # <<>> /\ ~IsTrue(s.cond[1], st)
  THEN [end |-> "next", st |-> st, fuel |-> fuel]
  ELSE LET b == Exec(s.then, st, fuel - 1)
           e == IF b.end \in {"next", "continue"} THEN Exec(s.else, b.st, b.fuel) ELSE b
       IN  IF e.end = "break" THEN [e EXCEPT !.end = "next"]
           ELSE IF e.end = "next" THEN Loop(s, e.st, e.fuel, FALSE) ELSE e

ExecOne(s, st, fuel) ==
  LET X1 == ValueOf(s.x1, st)
      Becomes(n) == [end |-> "next", st |-> [st EXCEPT ![s.y.v] = n], fuel |-> fuel]
      hit == SelectInSeq(s.then, LAMBDA a : a.k = "case" /\ a.c = X1)
      from == IF hit # 0 THEN hit ELSE SelectInSeq(s.then, LAMBDA a : a.k = "default")
      rest == IF from = 0 THEN <<>>
              ELSE FlattenSeq([j \in 1..(Len(s.then) - from + 1) |-> s.then[from + j - 1].body])
      body == Exec(rest, st, fuel)
  IN  CASE s.k = "set" -> Becomes(X1)
        [] s.k = "update" -> Becomes(Apply(s.op, st[s.y.v], X1))
        [] s.k = "calc" -> Becomes(Apply(s.op, X1, ValueOf(s.x2, st)))
        [] s.k = "choose" ->
             Becomes(LET x == IF IsTrue(s.cond[1], st) THEN X1 ELSE ValueOf(s.x2, st)
                     IN  IF s.op = "=" THEN x ELSE Apply(s.op, st[s.y.v], x))
        [] s.k \in {"pre", "post"} ->
             LET stepped == Apply(s.op, X1, 1)
                 both == [st EXCEPT ![s.x1.v] = stepped]
             IN  [end |-> "next", fuel |-> fuel,
                  st |-> IF s.y = Null THEN both
                         ELSE [both EXCEPT ![s.y.v] = IF s.k = "pre" THEN stepped ELSE X1]]
        [] s.k \in {"if", "ifelse"} ->
             Exec(IF IsTrue(s.cond[1], st) THEN s.then ELSE s.else, st, fuel)
        [] s.k \in {"while", "for"} -> Loop(s, st, fuel, FALSE)
        [] s.k = "dowhile" -> Loop(s, st, fuel, TRUE)
        [] s.k = "unroll" -> Loop(s, Becomes(X1).st, fuel, FALSE)
        [] s.k = "switch" -> IF body.end = "break" THEN [body EXCEPT !.end = "next"] ELSE body
        [] OTHER -> [end |-> s.k, st |-> st, fuel |-> fuel]

\* The class's variables when kernel p returns, started with those of input.
Means(p, input, fuel) ==
  LET aliases == {p.params[j].alias : j \in DOMAIN p.params}
      start == [n \in ClassInts \cup ClassFloats \cup LocalInts \cup LocalFloats |->
                  IF n \in aliases
                  THEN input[(CHOOSE q \in Range(p.params) : q.alias = n).id]
                  ELSE IF n \in DOMAIN input THEN input[n] ELSE 0]
      r == Exec(p.body, start, fuel)
  IN  IF r.end = "spins" THEN Spins
      ELSE [end |-> "returns", out |-> [n \in ClassInts \cup ClassFloats |-> r.st[n]]]
=============================================================================
