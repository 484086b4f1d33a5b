------------------------------- MODULE Affine -------------------------------
(***************************************************************************)
(* Ownership analysis (crates/rend/src/affine.rs): a walk over a function  *)
(* that follows which bindings of a type that cannot be copied have been   *)
(* moved, and refuses the use of a moved one.  The walk carries            *)
(* [env, ok, ty]: the scopes, innermost last, with the type of each name   *)
(* and whether it was moved; whether all went well; and the type of the    *)
(* last expression.  Interp describes the trees.                           *)
(***************************************************************************)
EXTENDS Prefetch

TInt      == <<"int">>
TResource == <<"resource">>

Typed(x, ty) == [x EXCEPT !.ty = ty]
Bad(x)       == [x EXCEPT !.ok = FALSE]
Pushed(x)    == [x EXCEPT !.env = Append(@, <<>>)]
Popped(x)    == [x EXCEPT !.env = Front(@)]
Bind(x, name, ty) == [x EXCEPT !.env[Len(x.env)] = (name :> [ty |-> ty, moved |-> FALSE]) @@ @]
BindInts(x, names) == FoldLeft(LAMBDA y, n : Bind(y, n, TInt), x, names)

\* The innermost and the outermost scope with a name; 0 if there is none.
Holder(env, name) == SelectLastInSeq(env, LAMBDA scope : Has(scope, name))
Outermost(env, name) == SelectInSeq(env, LAMBDA scope : Has(scope, name))

\* Mutant: what the first branch moved is forgotten.
merge_second(a, b) == b

\* After a branch a binding counts as moved if either side moved it.
merge(a, b) ==
    [i \in DOMAIN a |-> [n \in DOMAIN a[i] |->
        [a[i][n] EXCEPT !.moved = @ \/ (Has(b[i], n) /\ b[i][n].moved)]]]

\* The use of a name.  States and constants are never moved.
Use(x, name, mod) ==
    LET i == Holder(x.env, name)
    IN  IF i > 0 THEN IF x.env[i][name].moved THEN Bad(x)
                      ELSE [x EXCEPT !.ty = x.env[i][name].ty,
                                     !.env[i][name].moved = ~is_copy(x.env[i][name].ty)]
        ELSE IF Has(mod.states, name) THEN Typed(x, mod.states[name])
        ELSE IF Has(mod.consts, name) THEN Typed(x, TInt) ELSE Bad(x)

\* build_sigs: a function of the module, or a builtin; those that return
\* something else than a resource return something that is copied.
ReturnType(mod, name) ==
    IF Has(mod.fns, name) THEN mod.fns[name].ret ELSE IF name = "resource" THEN TResource ELSE TInt

RECURSIVE check_stmt(_, _, _), check_if(_, _, _), check_expr(_, _, _), field_peek(_, _, _)

check_stmts(x, ss, mod) == FoldLeft(LAMBDA y, st : check_stmt(y, st, mod), x, ss)
check_exprs(x, es, mod) == FoldLeft(LAMBDA y, e : check_expr(y, e, mod), x, es)

\* The statements of a block, without the tail; and an expression's with it.
check_block(x, b, mod) == Popped(check_stmts(Pushed(x), b[1], mod))
Whole(x, b, mod) == Popped(check_exprs(check_stmts(Pushed(x), b[1], mod), b[2], mod))

\* The body of a loop is looked at once; what it moves counts as not moved
\* after it.
LoopBody(x, names, b, mod) == [check_block(BindInts(Pushed(x), names), b, mod) EXCEPT !.env = x.env]

\* Of an assignment's target the key.  A parallel block binds in the scope
\* around it.
check_stmt(x, st, mod) ==
    IF ~x.ok THEN x
    ELSE CASE st[1] = "Let" -> LET y == check_expr(x, st[3], mod) IN Bind(y, st[2], y.ty)
           [] st[1] = "LetTuple" -> BindInts(check_expr(x, st[3], mod), st[2])
           [] st[1] = "Assign" -> check_exprs(x, (IF st[2][1] = "Index" THEN <<st[2][3]>> ELSE <<>>) \o <<st[3]>>, mod)
           [] st[1] = "Return" -> check_exprs(x, st[2], mod)
           [] st[1] = "If" -> check_if(x, st, mod)
           [] st[1] = "While" -> LoopBody(check_expr(x, st[2], mod), <<>>, st[3], mod)
           [] st[1] = "For" -> LoopBody(check_expr(x, st[3], mod), <<st[2]>>, st[4], mod)
           [] st[1] = "ForRange" -> LoopBody(check_exprs(x, <<st[3], st[4]>>, mod), <<st[2]>>, st[6], mod)
           [] st[1] \in {"Expr", "Emit", "Delete"} -> check_expr(x, st[2], mod)
           [] st[1] = "Parallel" -> check_stmts(x, st[2], mod)
           [] st[1] = "ParallelForTo" ->
                  LoopBody(check_exprs(x, <<st[4], <<"Ident", st[5]>>>>, mod), <<st[2]>>, st[6], mod)
           [] OTHER -> x

check_if(x, n, mod) ==
    LET y == check_expr(x, n[2], mod)
        then == check_block(y, n[3], mod)
        from == [y EXCEPT !.ok = then.ok]
        else == CASE n[4][1] = "Else" -> check_block(from, n[4][2], mod)
                  [] n[4][1] = "ElseIf" -> check_if(from, n[4][2], mod)
    IN  IF n[4][1] = "None" THEN [from EXCEPT !.env = merge(y.env, then.env)]
        ELSE [else EXCEPT !.env = merge(then.env, else.env)]

\* The target of a field access is looked at, not moved.
field_peek(x, e, mod) ==
    LET i == Outermost(x.env, e[2])
    IN  CASE e[1] = "Ident" -> IF i > 0 /\ x.env[i][e[2]].moved THEN Bad(x) ELSE x
          [] e[1] = "Field" -> field_peek(x, e[2], mod)
          [] OTHER -> check_expr(x, e, mod)

\* Clauses up to the leaves of a comprehension, each For in a scope of its own.
Comprehension(x, cs, leaves, mod) ==
    LET Clause(y, c) == LET z == check_expr(y, Last(c), mod)
                        IN  IF c[1] = "For" THEN Bind(Pushed(z), c[2], TInt) ELSE z
        y == check_exprs(FoldLeft(Clause, x, cs), leaves, mod)
    IN  [y EXCEPT !.env = SubSeq(@, 1, Len(x.env))]

\* The arms of a match, and the branches of an if that is an expression, one
\* after the other.
Arms(x, arms, mod) ==
    FoldLeft(LAMBDA y, arm : Popped(check_expr(BindInts(Pushed(y), arm[2]), arm[3], mod)), x, arms)

IfExpr(x, e, mod) ==
    LET y == Whole(check_expr(x, e[2], mod), e[3], mod)
    IN  CASE e[4][1] = "None" -> y
          [] e[4][1] = "Else" -> Whole(y, e[4][2], mod)
          [] e[4][1] = "ElseIf" -> check_expr(y, e[4][2], mod)

check_expr(x, e, mod) ==
    IF ~x.ok THEN x
    ELSE CASE e[1] = "Ident" -> Use(x, e[2], mod)
           [] e[1] = "Call" -> Typed(check_exprs(x, e[3], mod), ReturnType(mod, e[2]))
           [] e[1] = "Index" ->
                  LET y == check_exprs(x, <<e[3], e[2]>>, mod)
                      map == e[2][1] = "Ident" /\ Has(mod.states, e[2][2]) /\ mod.states[e[2][2]][1] = "map"
                  IN  Typed(y, IF map THEN mod.states[e[2][2]][3] ELSE TInt)
           [] e[1] = "Field" -> Typed(field_peek(x, e[2], mod), TInt)
           [] e[1] \in {"ListComp", "SetComp"} -> Typed(Comprehension(x, e[3], <<e[2]>>, mod), TInt)
           [] e[1] = "DictComp" -> Typed(Comprehension(x, e[4], <<e[2], e[3]>>, mod), TInt)
           [] e[1] = "Match" -> Typed(Arms(check_expr(x, e[2], mod), e[3], mod), TInt)
           [] e[1] = "Block" -> Typed(Whole(x, e[2], mod), TInt)
           [] e[1] = "If" -> Typed(IfExpr(x, e, mod), TInt)
           [] OTHER -> Typed(check_exprs(x, Operands(e), mod), TInt)

\* A function with its parameters bound.
check_fn(f, mod) ==
    LET params == FoldLeft(LAMBDA x, i : Bind(x, f.params[i], f.types[i]),
                           [env |-> <<<<>>>>, ok |-> TRUE, ty |-> TInt], [i \in DOMAIN f.params |-> i])
    IN  check_block(params, f.body, mod).ok
=============================================================================
