----------------------------- MODULE KernelGen ------------------------------
(***************************************************************************)
(* cGEN (SW/compiler/gen.cpp): the code a kernel is first translated to.   *)
(* g is the instruction list so far and the next instruction's identity; a *)
(* jump names the instruction it goes to, or the one it goes after.        *)
(***************************************************************************)
EXTENDS KernelSource

Emit(g, i) == [code |-> Append(g.code, [i EXCEPT !.id = g.n]), n |-> g.n + 1]
Place(g, i, id) == [g EXCEPT !.code = Append(@, [i EXCEPT !.id = id])]
LastId(g) == g.code[Len(g.code)].id
Reserve(g, ids) == [g EXCEPT !.n = @ + ids]

\* The list with seq placed after the instruction called id.
InsertAfter(g, id, seq) ==
  LET k == Pos(g.code, id)
  IN  [g EXCEPT !.code = SubSeq(@, 1, k) \o seq \o SubSeq(@, k + 1, Len(@))]

\* y = x.
Assign(g, y, x) ==
  IF IsStorage(y) THEN Emit(g, createMU("ASSIGN", x, Null, y))
  ELSE Emit(g, createIMU("ADD", Zero, x, y))

\* A condition that branches to br when it holds or, reversed, when it does not.
RECURSIVE genCondition(_, _, _, _, _)
genCondition(g, c, rev, br, after) ==
  LET rel == IF rev THEN reverseLogic(c.op) ELSE c.op
      label == g.n
      RECURSIVE All(_, _), Chain(_, _)
      All(h, args) ==            \* every part branches to br
        IF args = <<>> THEN h
        ELSE All(genCondition(h, Head(args), rev, br, after), Tail(args))
      Chain(h, args) ==          \* all but the last branch around it
        IF Len(args) = 1 THEN genCondition(h, args[1], rev, br, after)
        ELSE Chain(genCondition(h, Head(args), ~rev, label, TRUE), Tail(args))
  IN  CASE c.k = "rel" /\ IsStorage(c.x) ->
             Emit(Emit(g, createMU(rel, c.x, c.y, Result)),
                  createConditionalJump("NE", Result, Const(0), br, after))
        [] c.k = "rel" /\ ~IsStorage(c.x) ->
             Emit(g, createConditionalJump(rel, c.x, c.y, br, after))
        [] (c.k = "or" /\ ~rev) \/ (c.k = "and" /\ rev) -> All(g, c.args)
        [] OTHER -> Place(Chain(Reserve(g, 1), c.args), Blank, label)

\* x1 into y when the condition holds, else x2 into y.
genTermConditionalExpression(g, s) ==
  LET end == g.n
      jump == g.n + 1
      Copy(h, x) == Emit(h, IF IsStorage(s.y) THEN createMU("ASSIGN", x, Null, s.y)
                            ELSE createIMU("ADD", x, Zero, s.y))
      true == Copy(genCondition(Reserve(g, 2), s.cond[1], TRUE, jump, TRUE), s.x1)
      false == Copy(Place(true, createUnconditionalJump("JUMP", end, FALSE), jump), s.x2)
  IN  Place(false, Blank, end)

genTermPostIncrementDecrement(g, s) ==
  Emit(Emit(g, createIMU("ADD", s.x1, Zero, IntTemp(g.n))), createIMU(s.op, s.x1, Const(1), s.x1))

genTermPreIncrementDecrement(g, s) == Emit(g, createIMU(s.op, s.x1, Const(1), s.x1))

\* y = x, y op= x and y = x1 op x2, the last through a temporary.  A conditional
\* expression is put into y itself, and y op= then finds it there.
genTermAssignmentExpression(g, s) ==
  LET Create(oc, x1, x2, y) ==
        IF IsStorage(s.y) THEN createMU(oc, x1, x2, y) ELSE createIMU(oc, x1, x2, y)
      temp == IF IsStorage(s.y) THEN FloatTemp(g.n) ELSE IntTemp(g.n)
      chosen == genTermConditionalExpression(g, s)
      stepped == IF s.k = "post" THEN genTermPostIncrementDecrement(g, s)
                 ELSE genTermPreIncrementDecrement(g, s)
  IN  CASE s.k = "set" -> Assign(g, s.y, s.x1)
        [] s.k = "update" -> Emit(g, Create(s.op, s.y, s.x1, s.y))
        [] s.k = "calc" -> Assign(Emit(g, Create(s.op, s.x1, s.x2, temp)), s.y, temp)
        [] s.k = "choose" /\ s.op = "=" -> chosen
        [] s.k = "choose" /\ s.op # "=" -> Emit(chosen, Create(s.op, s.y, s.y, s.y))
        [] s.k \in {"pre", "post"} /\ s.y = Null -> stepped
        [] s.k = "post" /\ s.y # Null -> Assign(stepped, s.y, temp)
        [] s.k = "pre" /\ s.y # Null -> Assign(stepped, s.y, s.x1)

RECURSIVE genBlock(_, _, _)
RECURSIVE genStatement(_, _, _)

\* env: where break, continue and return go (0: return is a RETURN).
genBlock(g, ss, env) ==
  IF ss = <<>> THEN g ELSE genBlock(genStatement(g, Head(ss), env), Tail(ss), env)

\* The true block, a jump over the false one, the false block; the condition
\* goes in front when both are there.
genSelectionStatement(g, s, env) ==
  LET start == LastId(g)
      t == genBlock(g, s.then, env)
      e == genBlock(t, s.else, env)
      jump == e.n
      j == InsertAfter(Reserve(e, 1), LastId(t),
             <<[createUnconditionalJump("JUMP", LastId(e), TRUE) EXCEPT !.id = jump]>>)
      \* h: the list without the condition, end: the end of the true block
      Tested(h, end) ==
        LET c == genCondition([code |-> <<>>, n |-> h.n], s.cond[1], TRUE, end, TRUE)
        IN  InsertAfter([h EXCEPT !.n = c.n], start, c.code)
  IN  IF s.k = "ifelse" THEN Tested(j, jump)
      ELSE IF LastId(t) = start THEN t ELSE Tested(t, LastId(t))

genLoop(g, s, env) ==
  LET exit == g.n
      cont == g.n + 1
      top == g.n + 2
      in == [env EXCEPT !.exit = exit, !.cont = cont]
      Backward(h, to) ==
        IF s.cond = <<>> THEN Emit(h, createUnconditionalJump("JUMP", to, TRUE))
        ELSE genCondition(h, s.cond[1], FALSE, to, TRUE)
      r == Reserve(g, 3)
      entered == Place(r, Blank, top)
      body == genBlock(IF s.k = "dowhile" THEN r ELSE entered, s.then, in)
      stepped == genBlock(Place(body, Blank, cont), s.else, in)
      \* the first jump goes after to
      Enter(h, to) ==
        [h EXCEPT !.code[Pos(h.code, top)] =
            [createUnconditionalJump("JUMP", to, TRUE) EXCEPT !.id = top]]
      looped ==
        CASE s.k = "dowhile" -> Backward(stepped, LastId(g))
          [] s.k = "for" -> Backward(Enter(stepped, LastId(stepped)), top)
          [] s.k = "while" ->
               Backward(IF LastId(body) = top THEN stepped ELSE Enter(stepped, LastId(body)), top)
  IN  Place(looped, Blank, exit)

-----------------------------------------------------------------------------
\* Unrolled loops.  Inside(F, s): F of some statement of s or inside one.
RECURSIVE Inside(_, _)
Inside(F(_), ss) ==
  \E k \in DOMAIN ss :
    \/ F(ss[k])
    \/ IF ss[k].k = "switch" THEN \E j \in DOMAIN ss[k].then : Inside(F, ss[k].then[j].body)
       ELSE Inside(F, ss[k].then) \/ Inside(F, ss[k].else)

identifierIsMod(ss, id) ==
  Inside(LAMBDA s : s.y = id \/ (s.k \in {"pre", "post"} /\ s.x1 = id), ss)

\* A division as C does it, towards zero.
Abs(n) == IF n < 0 THEN -n ELSE n
Quotient(a, b) == (IF (a < 0) = (b < 0) THEN 1 ELSE -1) * (Abs(a) \div Abs(b))

\* The index of the last round, and whether the loop is unrolled at all.
loopUnroll(s) ==
  LET from == s.x1.c
      to == s.cond[1].y.c
      step == s.else[1].x1.c
      up == s.cond[1].op \in {"LT", "LE"}
      whole == from + Quotient(to - from, step) * step
      last == IF s.cond[1].op \in {"LT", "GT"} /\ whole = to THEN whole - step ELSE whole
  IN  [last |-> last,
       ok |-> /\ IF up THEN step >= 0 /\ last >= from ELSE step < 0 /\ last <= from
              /\ ~identifierIsMod(s.then, s.y)]

\* Statements with variable id replaced by the index n.
RECURSIVE InCondition(_, _, _)
InCondition(c, id, n) ==
  [c EXCEPT !.x = IF @ = id THEN Const(n) ELSE @, !.y = IF @ = id THEN Const(n) ELSE @,
            !.args = [k \in DOMAIN @ |-> InCondition(@[k], id, n)]]

RECURSIVE substituteGenIdentifier(_, _, _)
substituteGenIdentifier(ss, id, n) ==
  [k \in DOMAIN ss |->
     [ss[k] EXCEPT
        !.x1 = IF @ = id THEN Const(n) ELSE @,
        !.x2 = IF @ = id THEN Const(n) ELSE @,
        !.cond = [j \in DOMAIN @ |-> InCondition(@[j], id, n)],
        !.then = IF ss[k].k = "switch"
                 THEN [j \in DOMAIN @ |->
                         [@[j] EXCEPT !.body = substituteGenIdentifier(@, id, n)]]
                 ELSE substituteGenIdentifier(@, id, n),
        !.else = substituteGenIdentifier(@, id, n)]]

genUnrolled(g, s, env) ==
  LET exit == g.n
      u == loopUnroll(s)
      step == s.else[1].x1.c
      RECURSIVE Rolls(_, _)
      Rolls(h, n) ==
        LET body == genBlock(Reserve(h, 1), substituteGenIdentifier(s.then, s.y, n),
                             [env EXCEPT !.exit = exit, !.cont = h.n])
            done == Place(body, Blank, h.n)
        IN  IF n = u.last THEN done ELSE Rolls(done, n + step)
  IN  IF u.ok THEN Place(Rolls(Reserve(g, 1), s.x1.c), Blank, exit)
      ELSE genLoop(Assign(g, s.y, s.x1), [s EXCEPT !.k = "for"], env)

-----------------------------------------------------------------------------
genSwitchStatement(g, s, env) ==
  LET exit == g.n
      Label(j) == g.n + j
      default == SelectInSeq(s.then, LAMBDA a : a.k = "default")
      in == [env EXCEPT !.exit = exit]
      RECURSIVE Tests(_, _), Bodies(_, _)
      Tests(h, j) ==
        IF j > Len(s.then) THEN h
        ELSE Tests(IF s.then[j].k = "default" THEN h
                   ELSE Emit(h, createConditionalJump("EQ", s.x1, Const(s.then[j].c),
                                                      Label(j), FALSE)), j + 1)
      Bodies(h, j) ==
        IF j > Len(s.then) THEN h
        ELSE Bodies(genBlock(Place(h, Blank, Label(j)), s.then[j].body, in), j + 1)
      tests == Tests(Reserve(g, Len(s.then) + 1), 1)
      otherwise == Emit(tests, createUnconditionalJump("JUMP",
                                 IF default = 0 THEN exit ELSE Label(default), FALSE))
  IN  Place(Bodies(otherwise, 1), Blank, exit)

genStatement(g, s, env) ==
  CASE s.k \in {"set", "update", "calc", "choose", "pre", "post"} ->
         genTermAssignmentExpression(g, s)
    [] s.k \in {"if", "ifelse"} -> genSelectionStatement(g, s, env)
    [] s.k \in {"while", "dowhile", "for"} -> genLoop(g, s, env)
    [] s.k = "unroll" -> genUnrolled(g, s, env)
    [] s.k = "switch" -> genSwitchStatement(g, s, env)
    [] s.k = "break" -> Emit(g, createUnconditionalJump("JUMP", env.exit, FALSE))
    [] s.k = "continue" -> Emit(g, createUnconditionalJump("JUMP", env.cont, FALSE))
    [] s.k = "return" /\ env.return # 0 ->
         Emit(g, createUnconditionalJump("JUMP", env.return, FALSE))
    [] s.k = "return" /\ env.return = 0 -> Emit(g, createUnconditionalJump("RETURN", 0, FALSE))

\* The parameters, passed in memory, go through RESULT to their integers.
RECURSIVE process_func_entry(_, _)
process_func_entry(g, params) ==
  IF params = <<>> THEN g
  ELSE process_func_entry(
         Emit(Emit(g, createMU("ASSIGN_RAW", Var(Head(params).id), Null, Result)),
              createIMU("ADD", Result, Zero, Var(Head(params).alias))), Tail(params))

gen(p) ==
  LET exit == 1
      entry == process_func_entry(Emit([code |-> <<>>, n |-> 2], Blank), p.params)
      body == genBlock(entry, p.body,
                [exit |-> 0, cont |-> 0, return |-> IF p.params = <<>> THEN 0 ELSE exit])
  IN  Place(body, createUnconditionalJump("RETURN", 0, FALSE), exit).code
=============================================================================
