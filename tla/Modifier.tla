------------------------------ MODULE Modifier ------------------------------
(***************************************************************************)
(* Modifier expansion (crates/rend/src/modifier.rs): a function with       *)
(* modifiers gets the body of each of them around its own, the leftmost    *)
(* outermost, with the arguments written in the place of the parameters.   *)
(* A modifier is [params, body], its body a sequence of statements of      *)
(* which some are <<"Placeholder">>.  A function lists its modifiers as    *)
(* <<name, arguments>>.  Interp describes the trees.                       *)
(***************************************************************************)
EXTENDS Prefetch

\* Statements that no function may have.
Refused == <<<<"Placeholder">>>>

\* An expression with other operands (see Operands).
Rebuilt(e, xs) ==
    CASE e[1] \in {"Binary", "Index"} -> SubSeq(e, 1, Len(e) - 2) \o xs
      [] e[1] \in {"Unary", "ArrayAlloc"} -> [e EXCEPT ![3] = xs[1]]
      [] e[1] \in {"Field", "TupleIndex", "Reserve"} -> [e EXCEPT ![2] = xs[1]]
      [] e[1] \in {"Array", "SetLit", "TupleLit"} -> [e EXCEPT ![2] = xs]
      [] e[1] = "DictLit" -> [e EXCEPT ![2] = [i \in DOMAIN e[2] |-> <<xs[2 * i - 1], xs[2 * i]>>]]
      [] e[1] = "StructLit" -> [e EXCEPT ![3] = [i \in DOMAIN e[3] |-> <<e[3][i][1], xs[i]>>]]
      [] e[1] = "Pipe" -> <<"Pipe">> \o xs
      [] e[1] \in {"Call", "CallMod", "Bind"} -> [e EXCEPT ![3] = xs]
      [] e[1] \in {"EnumCtor", "DynCall"} -> [e EXCEPT ![4] = xs]
      [] e[1] = "Match" -> [e EXCEPT ![2] = xs[1],
                                     ![3] = [i \in DOMAIN e[3] |-> [e[3][i] EXCEPT ![3] = xs[i + 1]]]]
      [] OTHER -> e

RECURSIVE substitute_params_in_stmt(_, _), substitute_in_if(_, _), substitute_in_expr(_, _)

Stmts(ss, args) == [i \in DOMAIN ss |-> substitute_params_in_stmt(ss[i], args)]
Exprs(es, args) == [i \in DOMAIN es |-> substitute_in_expr(es[i], args)]

\* A block of a statement, whose tail stays; and one of an expression.
Body(b, args)  == <<Stmts(b[1], args), b[2]>>
Whole(b, args) == <<Stmts(b[1], args), Exprs(b[2], args)>>

substitute_in_if(n, args) ==
    <<n[1], substitute_in_expr(n[2], args), Body(n[3], args),
      CASE n[4][1] = "None" -> n[4]
        [] n[4][1] = "Else" -> <<"Else", Body(n[4][2], args)>>
        [] n[4][1] = "ElseIf" -> <<"ElseIf", substitute_in_if(n[4][2], args)>>>>

\* Names that are bound inside do not hide a parameter; the limit of a for stays.
substitute_params_in_stmt(st, args) ==
    LET X(e) == substitute_in_expr(e, args)
    IN  CASE st[1] \in {"Let", "LetTuple"} -> [st EXCEPT ![3] = X(@)]
          [] st[1] = "Assign" -> <<"Assign", X(st[2]), X(st[3])>>
          [] st[1] = "Return" -> <<"Return", Exprs(st[2], args)>>
          [] st[1] = "If" -> substitute_in_if(st, args)
          [] st[1] = "While" -> <<"While", X(st[2]), Body(st[3], args)>>
          [] st[1] = "For" -> [st EXCEPT ![3] = X(@), ![4] = Body(@, args)]
          [] st[1] = "ForRange" -> [st EXCEPT ![3] = X(@), ![4] = X(@), ![6] = Body(@, args)]
          [] st[1] \in {"Expr", "Emit", "Delete"} -> <<st[1], X(st[2])>>
          [] st[1] = "Parallel" -> <<"Parallel", Stmts(st[2], args)>>
          [] st[1] = "ParallelForTo" -> [st EXCEPT ![4] = X(@), ![5] = X(<<"Ident", @>>)[2],
                                                   ![6] = Body(@, args)]
          [] OTHER -> st

substitute_in_expr(e, args) ==
    LET Clauses(cs) == [i \in DOMAIN cs |-> [cs[i] EXCEPT ![Len(cs[i])] = substitute_in_expr(@, args)]]
        Else(n) == CASE n[1] = "None" -> n
                     [] n[1] = "Else" -> <<"Else", Whole(n[2], args)>>
                     [] n[1] = "ElseIf" -> <<"ElseIf", substitute_in_if(n[2], args)>>
    IN  CASE e[1] = "Ident" -> IF Has(args, e[2]) THEN args[e[2]] ELSE e
          [] e[1] \in {"ListComp", "SetComp"} -> <<e[1], substitute_in_expr(e[2], args), Clauses(e[3])>>
          [] e[1] = "DictComp" -> <<e[1]>> \o Exprs(<<e[2], e[3]>>, args) \o <<Clauses(e[4])>>
          [] e[1] = "Block" -> <<"Block", Whole(e[2], args)>>
          [] e[1] = "If" -> <<"If", substitute_in_expr(e[2], args), Whole(e[3], args), Else(e[4])>>
          [] OTHER -> Rebuilt(e, Exprs(Operands(e), args))

\* One modifier around statements; refused if it is unknown, takes another
\* number of arguments or has no placeholder.
Wrapped(stmts, use, mod) ==
    LET m == mod.modifiers[use[1]]
        args == [p \in Range(m.params) |-> use[2][SelectLastInSeq(m.params, LAMBDA q : q = p)]]
        Part(st) == IF st[1] = "Placeholder" THEN stmts ELSE <<substitute_params_in_stmt(st, args)>>
    IN  IF /\ Has(mod.modifiers, use[1]) /\ Len(use[2]) = Len(m.params)
           /\ \E i \in DOMAIN m.body : m.body[i][1] = "Placeholder"
        THEN FlattenSeq([i \in DOMAIN m.body |-> Part(m.body[i])])
        ELSE Refused

\* Looks into if, while and for, not into the other blocks.
RECURSIVE ensure_no_placeholders(_), check_if_for_placeholder(_)
ensure_no_placeholders(stmts) ==
    \A i \in DOMAIN stmts :
        LET st == stmts[i]
        IN  /\ st[1] # "Placeholder"
            /\ st[1] = "If" => check_if_for_placeholder(st)
            /\ st[1] = "While" => ensure_no_placeholders(st[3][1])
            /\ st[1] = "For" => ensure_no_placeholders(st[4][1])
check_if_for_placeholder(n) ==
    /\ ensure_no_placeholders(n[3][1])
    /\ n[4][1] = "Else" => ensure_no_placeholders(n[4][2][1])
    /\ n[4][1] = "ElseIf" => check_if_for_placeholder(n[4][2])

\* The statements of a function with its modifiers around them.
expand_fn(f, mod) ==
    FoldLeft(LAMBDA stmts, use : Wrapped(stmts, use, mod), f.body[1], Reverse(f.modifiers))

\* The module after the pass.  The code refuses the module as a whole; here
\* the functions it refuses are left out.
expand(mod) ==
    LET stmts == [n \in DOMAIN mod.fns |-> expand_fn(mod.fns[n], mod)]
        accepted == {n \in DOMAIN mod.fns : ensure_no_placeholders(stmts[n])}
    IN  [mod EXCEPT !.fns = [n \in accepted |->
            [mod.fns[n] EXCEPT !.body = <<stmts[n], @[2]>>, !.modifiers = <<>>]]]
=============================================================================
