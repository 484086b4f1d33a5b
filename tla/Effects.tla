------------------------------ MODULE Effects ------------------------------
(***************************************************************************)
(* Effect classification (crates/rend/src/effects.rs).  A class is the set *)
(* of the effects it admits, so that the join of two classes is a union.   *)
(* Interp describes the trees.                                             *)
(***************************************************************************)
EXTENDS Prefetch

Pure      == {}
ReadOnly  == {"reads"}
WriteOnly == {"writes"}
ReadWrite == ReadOnly \cup WriteOnly
Impure    == ReadWrite \cup {"impure"}

RECURSIVE classify_stmt(_, _), classify_expr(_, _), classify_if(_, _)

\* The walks have the context x: the module and the classes found so far.
Stmts(ss, x) == UNION {classify_stmt(ss[i], x) : i \in DOMAIN ss}
Exprs(es, x) == UNION {classify_expr(es[i], x) : i \in DOMAIN es}

\* The statements of a block, not its tail.
classify_block(b, x) == Stmts(b[1], x)

\* Mutant: only the assignment of a whole state counts as a write.
whole_state_assigned(t, x) == t[1] = "Ident" /\ Has(x.mod.states, t[2])

RECURSIVE assign_target_is_state(_, _)
assign_target_is_state(t, x) ==
    CASE t[1] = "Ident" -> Has(x.mod.states, t[2])
      [] t[1] \in {"Index", "Field"} -> assign_target_is_state(t[2], x)
      [] OTHER -> FALSE

\* Of an assignment the value, not the keys of the target; of a for the
\* iterator, not the limit.
classify_stmt(st, x) ==
    CASE st[1] \in {"Let", "LetTuple"} -> classify_expr(st[3], x)
      [] st[1] = "Assign" -> classify_expr(st[3], x)
                             \cup IF assign_target_is_state(st[2], x) THEN WriteOnly ELSE Pure
      [] st[1] = "Return" -> Exprs(st[2], x)
      [] st[1] = "If" -> classify_if(st, x)
      [] st[1] = "While" -> classify_expr(st[2], x) \cup classify_block(st[3], x)
      [] st[1] = "For" -> classify_expr(st[3], x) \cup classify_block(st[4], x)
      [] st[1] = "ForRange" -> Exprs(<<st[3], st[4]>>, x) \cup classify_block(st[6], x)
      [] st[1] \in {"Break", "Continue"} -> Pure
      [] st[1] = "Expr" -> classify_expr(st[2], x)
      [] st[1] \in {"Delete", "Emit"} -> WriteOnly \cup classify_expr(st[2], x)
      [] st[1] = "Parallel" -> Stmts(st[2], x)
      [] st[1] = "ParallelForTo" -> Exprs(<<st[4], <<"Ident", st[5]>>>>, x) \cup classify_block(st[6], x)

classify_if(n, x) ==
    Exprs(<<n[2]>>, x) \cup classify_block(n[3], x)
        \cup CASE n[4][1] = "None" -> Pure
               [] n[4][1] = "Else" -> classify_block(n[4][2], x)
               [] n[4][1] = "ElseIf" -> classify_if(n[4][2], x)

\* The builtins taken as pure, whatever function of the module has the name.
is_pure_builtin(name, x) ==
    \/ name \in Builtins \cup {"resource", "unwrap", "len", "i64", "u64"} \cup DOMAIN x.mod.context
    \/ name \in {"pmap_contains", "pvec_len", "pmap_entries", "pmap_keys", "pmap_values",
                 "pvec_to_array", "pbtree_contains", "pbtree_range"}

\* The effect of a call beyond that of its arguments.
CallClass(e, x) ==
    CASE e[1] = "Bind" -> Pure
      [] e[1] = "CallMod" -> IF e[2] \in x.mod.readers THEN ReadOnly ELSE Impure
      [] e[1] = "DynCall" -> IF e[3] \in x.mod.readers THEN ReadOnly ELSE Impure
      [] e[1] = "Call" -> IF is_pure_builtin(e[2], x) THEN Pure
                          ELSE IF Has(x.locals, e[2]) THEN x.locals[e[2]] ELSE Impure

\* A block that is an expression counts with its tail, an else-if without.
classify_expr(e, x) ==
    LET Whole(b) == Stmts(b[1], x) \cup Exprs(b[2], x)
        Else(n) == CASE n[1] = "None" -> Pure
                     [] n[1] = "Else" -> Whole(n[2])
                     [] n[1] = "ElseIf" -> classify_if(n[2], x)
        Clauses(cs) == UNION {classify_expr(Last(cs[i]), x) : i \in DOMAIN cs}
    IN  CASE e[1] = "Ident" -> IF Has(x.mod.states, e[2]) THEN ReadOnly ELSE Pure
          [] e[1] = "Reserve" -> WriteOnly \cup classify_expr(e[2], x)
          [] e[1] \in {"ListComp", "SetComp"} -> Clauses(e[3]) \cup classify_expr(e[2], x)
          [] e[1] = "DictComp" -> Clauses(e[4]) \cup Exprs(<<e[2], e[3]>>, x)
          [] e[1] \in {"Bind", "Call", "CallMod", "DynCall"} -> Exprs(Operands(e), x) \cup CallClass(e, x)
          [] e[1] = "Block" -> Whole(e[2])
          [] e[1] = "If" -> classify_expr(e[2], x) \cup Whole(e[3])
                            \cup Else(e[4])
          [] OTHER -> Exprs(Operands(e), x)

classify_fn(f, x) == classify_block(f.body, x)

\* classify: all pure at first, then to the fixed point.
RECURSIVE Stable(_, _)
Stable(mod, locals) ==
    LET next == [n \in DOMAIN mod.fns |-> classify_fn(mod.fns[n], [mod |-> mod, locals |-> locals])]
    IN  IF next = locals THEN locals ELSE Stable(mod, next)
classify(mod) == Stable(mod, [n \in DOMAIN mod.fns |-> Pure])

\* verify_purity_annotations, for one function: a pure one is Pure, a view one
\* at most ReadOnly.
verify_purity_annotation(f, class) ==
    (f.pure => class = Pure) /\ (f.view => class \subseteq ReadOnly)
=============================================================================
