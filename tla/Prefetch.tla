------------------------------ MODULE Prefetch ------------------------------
(***************************************************************************)
(* Loop prefetching (crates/rend/src/prefetch.rs): the maps that the body  *)
(* of a loop indexes with exactly the loop variable, found by walking the  *)
(* syntax tree.  Interp describes the trees.  Every walk returns the names *)
(* in the order it meets them; each is prefetched once.                    *)
(***************************************************************************)
EXTENDS Tx

\* The operands of an expression, in source order (ast.rs).
Operands(e) ==
    CASE e[1] \in {"Binary", "Index"} -> SubSeq(e, Len(e) - 1, Len(e))
      [] e[1] \in {"Unary", "ArrayAlloc"} -> <<e[3]>>
      [] e[1] \in {"Field", "TupleIndex", "Reserve"} -> <<e[2]>>
      [] e[1] \in {"Array", "SetLit", "TupleLit"} -> e[2]
      [] e[1] = "DictLit" -> FlattenSeq(e[2])
      [] e[1] = "StructLit" -> [i \in DOMAIN e[3] |-> e[3][i][2]]
      [] e[1] = "Pipe" -> <<e[2], e[3]>>
      [] e[1] \in {"Call", "CallMod", "Bind"} -> e[3]
      [] e[1] \in {"EnumCtor", "DynCall"} -> e[4]
      [] e[1] = "Match" -> <<e[2]>> \o [i \in DOMAIN e[3] |-> e[3][i][3]]
      [] OTHER -> <<>>

\* A map that x indexes with an identifier of the given name; "" if none.
MapIndexedBy(mod, x, name) ==
    IF /\ x[1] = "Index" /\ x[2][1] = "Ident" /\ x[3] = <<"Ident", name>>
       /\ Has(mod.states, x[2][2]) /\ mod.states[x[2][2]][1] = "map"
    THEN x[2][2] ELSE ""

\* single_map_read: the body is `return map[p]' for a parameter p.
single_map_read(mod, f) ==
    /\ Len(f.body[1]) = 1 /\ f.body[1][1][1] = "Return" /\ f.body[1][1][2] # <<>>
    /\ \E i \in DOMAIN f.params : MapIndexedBy(mod, f.body[1][1][2][1], f.params[i]) # ""

\* summarize_fns: <<map, parameter index>> of each function of that shape.
summarize_fns(mod) ==
    [n \in {g \in DOMAIN mod.fns : single_map_read(mod, mod.fns[g])} |->
        LET x == mod.fns[n].body[1][1][2][1]
        IN  <<x[2][2], SelectInSeq(mod.fns[n].params, LAMBDA p : x[3] = <<"Ident", p>>)>>]

RECURSIVE scan_stmt(_, _, _), scan_expr(_, _, _), scan_if(_, _, _), scan_block(_, _, _),
          scan_clauses(_, _, _)

scan_stmts(mod, var, stmts) == FlattenSeq([i \in DOMAIN stmts |-> scan_stmt(mod, var, stmts[i])])
scan_exprs(mod, var, es)    == FlattenSeq([i \in DOMAIN es |-> scan_expr(mod, var, es[i])])

\* Of a loop inside, the body only if it does not rebind the variable; of a
\* nested block the statements, not the tail.
scan_stmt(mod, var, st) ==
    LET Xs(es) == scan_exprs(mod, var, es)
        Body(b) == scan_stmts(mod, var, b[1])
    IN  CASE st[1] \in {"Let", "LetTuple"} -> Xs(<<st[3]>>)
          [] st[1] = "Assign" -> Xs(<<st[2], st[3]>>)
          [] st[1] = "Return" -> Xs(st[2])
          [] st[1] = "If" -> scan_if(mod, var, st)
          [] st[1] = "While" -> Xs(<<st[2]>>) \o Body(st[3])
          [] st[1] = "For" -> Xs(<<st[3]>>) \o IF st[2] = var THEN <<>> ELSE Body(st[4])
          [] st[1] = "ForRange" -> Xs(<<st[3], st[4]>>) \o IF st[2] = var THEN <<>> ELSE Body(st[6])
          [] st[1] \in {"Expr", "Emit", "Delete"} -> Xs(<<st[2]>>)
          [] st[1] = "Parallel" -> scan_stmts(mod, var, st[2])
          [] st[1] = "ParallelForTo" -> Xs(<<st[4]>>) \o Body(st[6])
          [] OTHER -> <<>>

scan_if(mod, var, n) ==
    scan_expr(mod, var, n[2]) \o scan_stmts(mod, var, n[3][1])
        \o CASE n[4][1] = "None" -> <<>>
             [] n[4][1] = "Else" -> scan_stmts(mod, var, n[4][2][1])
             [] n[4][1] = "ElseIf" -> scan_if(mod, var, n[4][2])

\* A block that is an expression, its tail included.
scan_block(mod, var, b) == scan_stmts(mod, var, b[1]) \o scan_exprs(mod, var, b[2])

\* The clauses up to one that rebinds the variable.
scan_clauses(mod, var, cs) ==
    IF cs = <<>> THEN <<>>
    ELSE scan_expr(mod, var, Last(cs[1]))
         \o IF cs[1][1] = "For" /\ cs[1][2] = var THEN <<>> ELSE scan_clauses(mod, var, Tail(cs))

\* map[var], or f(.. var ..) for a summarised f; then the operands.
scan_expr(mod, var, e) ==
    LET m == MapIndexedBy(mod, e, var)
        sum == summarize_fns(mod)
        Else(n) == CASE n[1] = "None" -> <<>>
                     [] n[1] = "Else" -> scan_block(mod, var, n[2])
                     [] n[1] = "ElseIf" -> scan_if(mod, var, n[2])
    IN  CASE e[1] \in {"ListComp", "SetComp"} ->
                 scan_expr(mod, var, e[2]) \o scan_clauses(mod, var, e[3])
          [] e[1] = "DictComp" -> scan_exprs(mod, var, <<e[2], e[3]>>) \o scan_clauses(mod, var, e[4])
          [] e[1] = "Block" -> scan_block(mod, var, e[2])
          [] e[1] = "If" -> scan_expr(mod, var, e[2]) \o scan_block(mod, var, e[3])
                            \o Else(e[4])
          [] e[1] = "Call" /\ Has(sum, e[2]) /\ e[3][sum[e[2]][2]] = <<"Ident", var>> ->
                 <<sum[e[2]][1]>> \o scan_exprs(mod, var, e[3])
          [] OTHER -> (IF m = "" THEN <<>> ELSE <<m>>) \o scan_exprs(mod, var, Operands(e))

Once(names) == FoldLeft(LAMBDA acc, n : IF Holds(acc, n) THEN acc ELSE Append(acc, n), <<>>, names)

scan_loop_body(mod, var, body) == Once(scan_stmts(mod, var, body[1]))

\* The clauses that follow the first For, up to the next one, and the leaves.
scan_comp_inner(mod, var, clauses, leaves) ==
    LET n == SelectInSeq(clauses, LAMBDA c : c[1] = "For")
        seen == IF n = 0 THEN clauses ELSE SubSeq(clauses, 1, n)
    IN  Once(scan_exprs(mod, var, [i \in DOMAIN seen |-> Last(seen[i])])
             \o scan_exprs(mod, var, leaves))
=============================================================================
