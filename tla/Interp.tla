------------------------------- MODULE Interp -------------------------------
(***************************************************************************)
(* The tree interpreter (crates/rend/src/interp.rs), the serial reference  *)
(* semantics.  A world w is [mod, kv]: the source module and the store.    *)
(* An interpreter s is [tx, scopes, pipe].  An evaluation returns the      *)
(* interpreter after it with a value or an error; a statement's value is   *)
(* the flow it ends with.                                                  *)
(*                                                                         *)
(* Syntax trees are tuples with the variant first, e.g.                    *)
(* <<"Binary", op, l, r>>, <<"Call", name, args>>, <<"Let", name, e>>.     *)
(* A block is <<statements, tail>>, its tail <<>> or <<e>>.                *)
(***************************************************************************)
EXTENDS Collections

OkS(s, v)  == [s |-> s, ok |-> TRUE, v |-> v]
ErrS(s, k) == [s |-> s, ok |-> FALSE, v |-> <<k>>]
Lift(s, res) == [s |-> s, ok |-> res.ok, v |-> res.v]
Then(r, F(_, _)) == IF r.ok THEN F(r.s, r.v) ELSE r
SetTx(s, tx) == [s EXCEPT !.tx = tx]

Normal(v) == <<"normal", v>>
Returns(v) == <<"return", v>>
Breaks    == <<"break">>
Continues == <<"continue">>

Push(s) == [s EXCEPT !.scopes = Append(@, <<>>)]
Pop(r)  == [r EXCEPT !.s.scopes = Front(@)]
Bind(s, name, v) == [s EXCEPT !.scopes[Len(s.scopes)] = Put(@, name, v)]

\* The innermost scope that holds a name; 0 if it is not a local.
ScopeOf(s, name) == SelectLastInSeq(s.scopes, LAMBDA sc : Has(sc, name))
IsState(w, name) == name \in DOMAIN w.mod.states

read_state(w, s, name) ==
    LET r == read_typed(s.tx, <<name>>, w.mod.states[name], w.kv) IN OkS(SetTx(s, r.tx), r.v)

write_state(w, s, name, v) ==
    SetTx(s, write_typed(s.tx, <<name>>, w.mod.states[name], v, w.kv).tx)

\* try_state_field_path: <<state, field, ...>> for a chain of fields that ends
\* at a state no local shadows, otherwise <<>>.
RECURSIVE try_state_field_path(_, _, _)
try_state_field_path(w, s, e) ==
    CASE e[1] = "Ident" -> IF ScopeOf(s, e[2]) = 0 /\ IsState(w, e[2]) THEN <<e[2]>> ELSE <<>>
      [] e[1] = "Field" -> LET p == try_state_field_path(w, s, e[2])
                           IN  IF p = <<>> THEN p ELSE Append(p, e[3])
      [] OTHER -> <<>>

\* with_state_path: the type of the cell at the end of a path.  The path is a
\* chain of child cells whatever groups the struct declares.
with_state_path(w, path) == FoldLeft(FieldType, w.mod.states[path[1]], Tail(path))

-----------------------------------------------------------------------------
(* Secondary indexes.                                                        *)

walk_field_path(path, v) == FoldLeft(FieldValue, v, path)

\* One ascending field is the key itself; otherwise the components are packed,
\* the descending ones complemented.
project_index_key(idx, v) ==
    LET Part(f) == LET b == bytes_builtin("to_be_bytes", <<walk_field_path(f.path, v)>>).v
                   IN  IF f.desc THEN bytes_builtin("bit_not_bytes", <<b>>).v ELSE b
    IN  IF Len(idx.fields) = 1 /\ ~idx.fields[1].desc THEN walk_field_path(idx.fields[1].path, v)
        ELSE FoldLeft(LAMBDA acc, f : bytes_builtin("bytes_concat", <<acc, Part(f)>>).v,
                      <<"bytes", <<>>>>, idx.fields)

IndexesOn(w, state) == SelectSeq(w.mod.indexes, LAMBDA x : x.on = state)

\* One index operation: read the root, refuse or change, write the root.
IndexOp(w, r, idx, op, proj, key, always) ==
    LET ty == w.mod.states[idx.name]
        o  == Opened(r.s, <<idx.name>>, ty, w.kv)
        e  == Changed(op, o.e, proj, key)
    IN  IF ~r.ok THEN r
        ELSE IF Refused(op, o.e, proj, key) THEN ErrS(SetTx(r.s, o.tx), "unique")
        ELSE IF e = o.e /\ ~(always /\ Has(o.e, proj)) THEN OkS(SetTx(r.s, o.tx), r.v)
        ELSE OkS(SetTx(r.s, Replanted(o.tx, <<idx.name>>, ty[1], e, w.kv).tx), r.v)

maintain_indexes(w, s, state, key, v) ==
    FoldLeft(LAMBDA r, idx :
                 IndexOp(w, r, idx, IF idx.kind = "unique" THEN "PutUnique" ELSE "AppendUnique",
                         project_index_key(idx, v), key, FALSE),
             OkS(s, VUnit), IndexesOn(w, state))

\* The entry of a list index is written back even when it did not change.
unmaintain_indexes(w, s, state, key, prior) ==
    FoldLeft(LAMBDA r, idx :
                 IndexOp(w, r, idx, IF idx.kind = "unique" THEN "RemoveUnique" ELSE "RemoveFromList",
                         project_index_key(idx, prior), key, idx.kind = "multi"),
             OkS(s, VUnit), IndexesOn(w, state))

\* exec_delete, the key evaluated: only a value that was there leaves indexes.
exec_delete(w, s, state, key) ==
    LET ty == w.mod.states[state]
        o  == Opened(s, <<state>>, ty, w.kv)
        t  == SetTx(s, Replanted(o.tx, <<state>>, ty[1], Without(o.e, key), w.kv).tx)
    IN  IF ty[1] \notin {"pmap", "pbtree"} THEN ErrS(s, "type")
        ELSE IF Has(o.e, key) THEN unmaintain_indexes(w, t, state, key, o.e[key])
        ELSE OkS(t, VUnit)

-----------------------------------------------------------------------------
(* Reads and writes of state, the operands evaluated.                        *)

\* state[k]
IndexState(w, s, state, k) ==
    LET ty == w.mod.states[state]
        c  == read(s.tx, child(<<state>>, k), ty[3], w.kv)
        o  == Opened(s, <<state>>, ty, w.kv)
        v  == read_vec(s, <<state>>, ty, w.kv)
    IN  CASE ty[1] = "map" -> IF is_keyable_value(k) THEN OkS(SetTx(s, c.tx), c.v)
                              ELSE ErrS(s, "type")
          [] ty[1] = "pvec" -> IF k[1] # "int" THEN ErrS(s, "type")
                               ELSE IF k[2] + 1 \notin DOMAIN v.s THEN ErrS(s, "bounds")
                               ELSE OkS(SetTx(s, v.tx), v.s[k[2] + 1])
          [] ty[1] \in {"pmap", "pbtree"} ->
                 OkS(SetTx(s, o.tx), IF Has(o.e, k) THEN o.e[k] ELSE default_for(ty[3]))

\* state[k] = x: only an assignment to a pmap maintains indexes.
AssignIndex(w, s, state, k, x) ==
    LET ty == w.mod.states[state]
        o  == Opened(s, <<state>>, ty, w.kv)
        v  == read_vec(s, <<state>>, ty, w.kv)
        t  == SetTx(s, Replanted(o.tx, <<state>>, ty[1], Put(o.e, k, x), w.kv).tx)
    IN  CASE ty[1] = "map" -> IF is_keyable_value(k)
                              THEN OkS(SetTx(s, write(s.tx, child(<<state>>, k), x, w.kv).tx), VUnit)
                              ELSE ErrS(s, "type")
          [] ty[1] = "pvec" -> IF k[1] # "int" THEN ErrS(s, "type")
                               ELSE IF k[2] + 1 \notin DOMAIN v.s THEN ErrS(s, "bounds")
                               ELSE OkS(SetTx(s, write_vec(v.tx, <<state>>,
                                                           [v.s EXCEPT ![k[2] + 1] = x], w.kv).tx), VUnit)
          [] ty[1] = "pmap" -> maintain_indexes(w, t, state, k, x)
          [] ty[1] = "pbtree" -> OkS(t, VUnit)

\* Builtins that walk a collection.  The root has been read before the other
\* arguments a were evaluated: c is what it stood for then.
StateBuiltins == {"pvec_push", "pvec_len", "pvec_to_array", "pmap_contains", "pbtree_contains",
                  "pbtree_range", "pmap_entries", "pmap_keys", "pmap_values"}

NodesRead(w, s, c) == SetTx(s, read_node(s.tx, c, w.kv))
VecRead(w, s, c)   == SetTx(s, read_vnode(s.tx, c, w.kv))

pvec_push(w, s, name, state, c, a) ==
    OkS(IF name = "pvec_len" THEN s
        ELSE SetTx(s, write_vec(VecRead(w, s, c).tx, <<state>>, Append(c, a[1]), w.kv).tx), VU64(Len(c)))
pvec_to_array(w, s, c) == OkS(VecRead(w, s, c), VArray(c))

pmap_contains(w, s, c, a)   == OkS(NodesRead(w, s, c), VBool(Has(c, a[1])))
pbtree_contains(w, s, c, a) == OkS(NodesRead(w, s, c), VBool(Has(c, a[1])))

pbtree_range(w, s, c, a) ==
    LET ks == KeysWithin(c, a[1], a[2])
    IN  OkS(NodesRead(w, s, c), VArray([i \in DOMAIN ks |-> c[ks[i]]]))

pmap_entries(w, s, name, c) ==
    LET ks == SortedKeys(c)
    IN  OkS(NodesRead(w, s, c),
            VArray([i \in DOMAIN ks |-> CASE name = "pmap_keys" -> ks[i]
                                          [] name = "pmap_values" -> c[ks[i]]
                                          [] name = "pmap_entries" -> VTuple(<<ks[i], c[ks[i]]>>)]))

StateBuiltin(w, s, name, state, c, a) ==
    CASE name \in {"pvec_push", "pvec_len"} -> pvec_push(w, s, name, state, c, a)
      [] name = "pvec_to_array" -> pvec_to_array(w, s, c)
      [] name = "pmap_contains" -> pmap_contains(w, s, c, a)
      [] name = "pbtree_contains" -> pbtree_contains(w, s, c, a)
      [] name = "pbtree_range" -> pbtree_range(w, s, c, a)
      [] OTHER -> pmap_entries(w, s, name, c)

\* try_builtin: the builtins on values.
Conversions == [i64 |-> "int", u64 |-> "u64"]
ValueBuiltins == Builtins \cup {"resource", "unwrap", "len"} \cup DOMAIN Conversions

try_builtin(name, a) ==
    CASE name = "resource" -> ToResource(a[1])
      [] name = "unwrap" -> IF a[1][1] = "resource" THEN Ok(VInt(a[1][2])) ELSE Err("type")
      [] name = "len" -> IF a[1][1] \in {"array", "set", "dict"} THEN Ok(VInt(Len(a[1][2]))) ELSE Err("type")
      [] name \in DOMAIN Conversions -> convert(a[1], Conversions[name])
      [] name \in Builtins -> call_builtin(name, a)

-----------------------------------------------------------------------------
(* Expressions and statements.                                               *)

RECURSIVE eval(_, _, _), EvalRest(_, _, _), eval_all(_, _, _), call(_, _, _, _), lookup(_, _, _), EvalIndex(_, _, _),
          EvalCall(_, _, _), EvalIf(_, _, _), EvalBlock(_, _, _), EvalMatch(_, _, _, _),
          eval_iter_to_array(_, _, _), walk_comp_clauses(_, _, _, _, _), assign_path(_, _, _, _),
          exec_stmt(_, _, _), exec_stmts(_, _, _), ExecRest(_, _, _), exec_block_with_tail(_, _, _, _), exec_if(_, _, _),
          ExecWhile(_, _, _, _), ExecFor(_, _, _, _, _, _), ExecParallelFor(_, _, _, _, _)

\* Expressions from left to right.
EvalRest(w, r, es) ==
    IF es = <<>> \/ ~r.ok THEN r
    ELSE EvalRest(w, Then(eval(w, r.s, Head(es)), LAMBDA s1, v : OkS(s1, Append(r.v, v))), Tail(es))
eval_all(w, s, es) == EvalRest(w, OkS(s, <<>>), es)

\* A local, else a state, else a constant, evaluated where it is used.
lookup(w, s, name) ==
    IF ScopeOf(s, name) # 0 THEN OkS(s, s.scopes[ScopeOf(s, name)][name])
    ELSE IF IsState(w, name) THEN read_state(w, s, name)
    ELSE IF name \in DOMAIN w.mod.consts THEN eval(w, s, w.mod.consts[name])
    ELSE ErrS(s, "undefined")

ArrayAt(s, a, k) ==
    IF a[1] # "array" \/ k[1] # "int" THEN ErrS(s, "type")
    ELSE IF k[2] + 1 \in DOMAIN a[2] THEN OkS(s, a[2][k[2] + 1]) ELSE ErrS(s, "bounds")

\* A state of a keyed kind is meant even where a local has its name.
IsKeyed(w, e) == /\ e[1] = "Ident" /\ IsState(w, e[2])
                 /\ w.mod.states[e[2]][1] \in {"map", "pmap", "pbtree", "pvec"}

EvalIndex(w, s, e) ==
    IF IsKeyed(w, e[2]) THEN Then(eval(w, s, e[3]), LAMBDA s1, k : IndexState(w, s1, e[2][2], k))
    ELSE Then(eval_all(w, s, <<e[2], e[3]>>), LAMBDA s1, vs : ArrayAt(s1, vs[1], vs[2]))

EvalField(w, s, e) ==
    LET p == try_state_field_path(w, s, e)
        r == read_typed(s.tx, p, with_state_path(w, p), w.kv)
    IN  IF p # <<>> THEN OkS(SetTx(s, r.tx), r.v)
        ELSE Then(eval(w, s, e[2]), LAMBDA s1, v :
                  IF v[1] = "struct" /\ HasField(v, e[3]) THEN OkS(s1, FieldValue(v, e[3]))
                  ELSE ErrS(s1, "type"))

EvalArrayAlloc(w, s, e) ==
    Then(eval(w, s, e[3]), LAMBDA s1, n :
         IF n[2] < 0 THEN ErrS(s1, "range") ELSE OkS(s1, VArray([i \in 1..n[2] |-> default_for(e[2])])))

\* reserve n from counter
EvalReserve(w, s, e, state) ==
    LET Ids(s1, p, n) == OkS(write_state(w, s1, state, VU64(Wrap(p + n))),
                             VArray([i \in 1..n |-> VU64(Wrap(p + i))]))
    IN  Then(eval(w, s, e), LAMBDA s1, n :
             IF n[2] < 0 THEN ErrS(s1, "type")
             ELSE Then(read_state(w, s1, state), LAMBDA s2, p : Ids(s2, p[2], n[2])))

EvalTupleIndex(w, s, e) ==
    Then(eval(w, s, e[2]), LAMBDA s1, v :
         IF v[1] # "tuple" \/ e[3] \notin DOMAIN v[2] THEN ErrS(s1, "type") ELSE OkS(s1, v[2][e[3]]))

\* The right side sees the value of the left one as `prev'.
EvalPipe(w, s, e) ==
    Then(eval(w, s, e[2]), LAMBDA s1, v :
         [eval(w, [s1 EXCEPT !.pipe = Append(@, v)], e[3]) EXCEPT !.s.pipe = s.pipe])

EvalCall(w, s, e) ==
    LET state == e[3][1][2]
        r == Root(s, <<state>>, w.mod.states[state], w.kv)
    IN  IF e[2] \in StateBuiltins
        THEN Then(eval_all(w, SetTx(s, r.tx), Tail(e[3])), LAMBDA s1, a :
                  StateBuiltin(w, s1, e[2], state, r.v[2], a))
        ELSE Then(eval_all(w, s, e[3]), LAMBDA s1, a : call(w, s1, e[2], a))

\* A `return' inside ends the block with its value, not the function.
EvalBlock(w, s, b) ==
    LET r == exec_stmts(w, Push(s), b[1])
    IN  IF ~r.ok THEN r
        ELSE IF r.v[1] = "return" THEN Pop(OkS(r.s, r.v[2]))
        ELSE IF r.v[1] # "normal" THEN ErrS(r.s, "flow")
        ELSE Pop(IF b[2] = <<>> THEN OkS(r.s, VUnit) ELSE eval(w, r.s, b[2][1]))

EvalIf(w, s, e) ==
    Then(eval(w, s, e[2]), LAMBDA s1, c :
         IF c = VBool(TRUE) THEN EvalBlock(w, s1, e[3])
         ELSE CASE e[4][1] = "None" -> ErrS(s1, "no_else")
                [] e[4][1] = "Else" -> EvalBlock(w, s1, e[4][2])
                [] e[4][1] = "ElseIf" -> EvalIf(w, s1, e[4][2]))

\* Arms are <<variant, bindings, body>>; the variant "_" is the wildcard.
EvalMatch(w, s, v, arms) ==
    LET i == SelectInSeq(arms, LAMBDA a : a[1] \in {"_", v[3]})
        s1 == FoldLeft(LAMBDA t, j : Bind(t, arms[i][2][j], v[4][j]), Push(s),
                       [j \in DOMAIN arms[i][2] |-> j])
    IN  IF v[1] # "enum" THEN ErrS(s, "type")
        ELSE IF i = 0 THEN ErrS(s, "match")
        ELSE Pop(eval(w, s1, arms[i][3]))

\* A state collection is materialised, in key or push order.
eval_iter_to_array(w, s, e) ==
    LET o == Opened(s, <<e[2]>>, w.mod.states[e[2]], w.kv)
        v == read_vec(s, <<e[2]>>, w.mod.states[e[2]], w.kv)
        ks == SortedKeys(o.e)
    IN  IF ~IsKeyed(w, e) \/ w.mod.states[e[2]][1] = "map" THEN eval(w, s, e)
        ELSE IF w.mod.states[e[2]][1] = "pvec" THEN OkS(SetTx(s, v.tx), VArray(v.s))
        ELSE OkS(SetTx(s, o.tx), VArray([i \in DOMAIN ks |-> o.e[ks[i]]]))

\* Clauses are <<"For", var, e>> and <<"If", e>>; at the innermost point the
\* leaves are evaluated and appended to acc.
walk_comp_clauses(w, s, clauses, leaves, acc) ==
    IF clauses = <<>> THEN Then(eval_all(w, s, leaves), LAMBDA s1, vs : OkS(s1, Append(acc, vs)))
    ELSE IF Head(clauses)[1] = "If"
    THEN Then(eval(w, s, Head(clauses)[2]), LAMBDA s1, c :
              IF c[1] # "bool" THEN ErrS(s1, "type")
              ELSE IF c[2] THEN walk_comp_clauses(w, s1, Tail(clauses), leaves, acc) ELSE OkS(s1, acc))
    ELSE Then(eval_iter_to_array(w, s, Head(clauses)[3]), LAMBDA s1, a :
              IF a[1] # "array" THEN ErrS(s1, "type")
              ELSE FoldLeft(LAMBDA r, x :
                                Then(r, LAMBDA s2, out :
                                     Pop(walk_comp_clauses(w, Bind(Push(s2), Head(clauses)[2], x),
                                                           Tail(clauses), leaves, out))),
                            OkS(s1, acc), a[2]))

Distinct(vs) == FoldLeft(LAMBDA acc, v : IF Holds(acc, v) THEN acc ELSE Append(acc, v), <<>>, vs)
Pairs(rows) == FoldLeft(LAMBDA acc, p : PutPair(acc, p[1], p[2]), <<>>, rows)

\* The fields of a struct literal are evaluated in the order of the declaration.
DeclaredOrder(mod, e) ==
    [i \in DOMAIN mod.structs[e[2]] |->
        e[3][SelectInSeq(e[3], LAMBDA f : f[1] = mod.structs[e[2]][i])][2]]

EvalSetLit(w, s, es) == Then(eval_all(w, s, es), LAMBDA s1, vs : OkS(s1, VSet(Distinct(vs))))

EvalDictLit(w, s, ps) ==
    Then(eval_all(w, s, FlattenSeq(ps)), LAMBDA s1, vs :
         OkS(s1, VDict(Pairs([i \in DOMAIN ps |-> <<vs[2*i - 1], vs[2*i]>>]))))

EvalStructLit(w, s, e) ==
    Then(eval_all(w, s, DeclaredOrder(w.mod, e)), LAMBDA s1, vs :
         OkS(s1, VStruct(e[2], [i \in DOMAIN vs |-> <<w.mod.structs[e[2]][i], vs[i]>>])))

EvalComp(w, s, e) ==
    LET leaves == IF e[1] = "DictComp" THEN <<e[2], e[3]>> ELSE <<e[2]>>
        Firsts(rows) == [i \in DOMAIN rows |-> rows[i][1]]
    IN  Then(walk_comp_clauses(w, s, Last(e), leaves, <<>>), LAMBDA s1, rows :
             OkS(s1, CASE e[1] = "ListComp" -> VArray(Firsts(rows))
                       [] e[1] = "SetComp" -> VSet(Distinct(Firsts(rows)))
                       [] e[1] = "DictComp" -> VDict(Pairs(rows))))

eval(w, s, e) ==
    LET Values(es, Make(_)) == Then(eval_all(w, s, es), LAMBDA s1, vs : OkS(s1, Make(vs)))
    IN  CASE e[1] = "Int" -> OkS(s, VInt(e[2]))
          [] e[1] = "U64" -> OkS(s, VU64(e[2]))
          [] e[1] = "Bool" -> OkS(s, VBool(e[2]))
          [] e[1] = "Ident" -> lookup(w, s, e[2])
          [] e[1] = "Binary" -> Then(eval_all(w, s, <<e[3], e[4]>>), LAMBDA s1, vs :
                                     Lift(s1, eval_binary(e[2], vs[1], vs[2])))
          [] e[1] = "Unary" -> Then(eval(w, s, e[3]), LAMBDA s1, v : Lift(s1, eval_unary(e[2], v)))
          [] e[1] = "Index" -> EvalIndex(w, s, e)
          [] e[1] = "Field" -> EvalField(w, s, e)
          [] e[1] = "Array" -> Values(e[2], VArray)
          [] e[1] = "TupleLit" -> Values(e[2], VTuple)
          [] e[1] = "SetLit" -> EvalSetLit(w, s, e[2])
          [] e[1] = "DictLit" -> EvalDictLit(w, s, e[2])
          [] e[1] = "StructLit" -> EvalStructLit(w, s, e)
          [] e[1] = "EnumCtor" -> Values(e[4], LAMBDA vs : VEnum(e[2], e[3], vs))
          [] e[1] = "ArrayAlloc" -> EvalArrayAlloc(w, s, e)
          [] e[1] = "Reserve" -> EvalReserve(w, s, e[2], e[3])
          [] e[1] = "Prev" -> OkS(s, Last(s.pipe))
          [] e[1] = "Pipe" -> EvalPipe(w, s, e)
          [] e[1] \in {"ListComp", "SetComp", "DictComp"} -> EvalComp(w, s, e)
          [] e[1] = "Call" -> EvalCall(w, s, e)
          [] e[1] = "TupleIndex" -> EvalTupleIndex(w, s, e)
          [] e[1] = "Block" -> EvalBlock(w, s, e[2])
          [] e[1] = "If" -> EvalIf(w, s, e)
          [] e[1] = "Match" -> Then(eval(w, s, e[2]), LAMBDA s1, v : EvalMatch(w, s1, v, e[3]))

\* assign_path: a local or a state, an entry of a state, or a field: of a state
\* its leaf cell, of a local the whole struct, rebuilt up the chain.
assign_path(w, s, t, x) ==
    LET i == ScopeOf(s, t[2])
        p == try_state_field_path(w, s, t)
    IN  CASE t[1] = "Ident" -> OkS(IF i # 0 THEN [s EXCEPT !.scopes[i] = Put(@, t[2], x)]
                                   ELSE write_state(w, s, t[2], x), VUnit)
          [] t[1] = "Index" -> Then(eval(w, s, t[3]), LAMBDA s1, k : AssignIndex(w, s1, t[2][2], k, x))
          [] t[1] = "Field" ->
                 IF p # <<>> THEN OkS(SetTx(s, write_typed(s.tx, p, with_state_path(w, p), x, w.kv).tx), VUnit)
                 ELSE Then(eval(w, s, t[2]), LAMBDA s1, v :
                      assign_path(w, s1, t[2], VStruct(v[2], [j \in DOMAIN v[3] |->
                          IF v[3][j][1] = t[3] THEN <<t[3], x>> ELSE v[3][j]])))

-----------------------------------------------------------------------------
(* Statements run until one does not end normally.                           *)
ExecRest(w, r, stmts) ==
    IF stmts = <<>> \/ ~r.ok THEN r
    ELSE IF r.v[1] # "normal" THEN r
    ELSE ExecRest(w, exec_stmt(w, r.s, Head(stmts)), Tail(stmts))
exec_stmts(w, s, stmts) == ExecRest(w, OkS(s, Normal(VUnit)), stmts)

\* The tail is the value of the block or, of a function body, what it returns.
exec_block_with_tail(w, s, b, returns) ==
    LET r == exec_stmts(w, Push(s), b[1])
        t == eval(w, r.s, b[2][1])
    IN  IF ~r.ok \/ r.v[1] # "normal" \/ b[2] = <<>> THEN Pop(r)
        ELSE IF ~t.ok THEN t
        ELSE Pop(OkS(t.s, IF returns THEN Returns(t.v) ELSE Normal(t.v)))

exec_block(w, s, b) == exec_block_with_tail(w, s, b, FALSE)

exec_if(w, s, st) ==
    Then(eval(w, s, st[2]), LAMBDA s1, c :
         IF c[1] # "bool" THEN ErrS(s1, "type")
         ELSE IF c[2] THEN exec_block(w, s1, st[3])
         ELSE CASE st[4][1] = "None" -> OkS(s1, Normal(VUnit))
                [] st[4][1] = "Else" -> exec_block(w, s1, st[4][2])
                [] st[4][1] = "ElseIf" -> exec_if(w, s1, st[4][2]))

\* What a loop makes of the flow of its body.
Loops(r) == r.ok /\ r.v[1] \in {"normal", "continue"}
LoopEnd(r) == IF r.ok /\ r.v[1] = "break" THEN OkS(r.s, Normal(VUnit)) ELSE r

ExecWhile(w, s, cond, body) ==
    Then(eval(w, s, cond), LAMBDA s1, c :
         LET r == exec_block(w, s1, body)
         IN  IF c[1] # "bool" THEN ErrS(s1, "type")
             ELSE IF ~c[2] THEN OkS(s1, Normal(VUnit))
             ELSE IF Loops(r) THEN ExecWhile(w, r.s, cond, body) ELSE LoopEnd(r))

ExecFor(w, s, var, elems, remaining, body) ==
    LET r == Pop(exec_block(w, Bind(Push(s), var, elems[1]), body))
    IN  IF elems = <<>> \/ remaining = 0 THEN OkS(s, Normal(VUnit))
        ELSE IF Loops(r) THEN ExecFor(w, r.s, var, Tail(elems), remaining - 1, body) ELSE LoopEnd(r)

\* The values of a range; the loop variable of the body is not the counter.
RangeValues(a, b, inclusive) ==
    [i \in 1..(b[2] - a[2] + IF inclusive THEN 1 ELSE 0) |-> <<a[1], a[2] + i - 1>>]

\* The slots of a parallel for, one after the other; `continue' keeps a slot.
ExecParallelFor(w, s, st, src, out) ==
    LET i == Len(out[1]) + 1
        b == Bind(Push(s), st[2], src[i])
        r == Pop(exec_block(w, IF st[3] = "" THEN b ELSE Bind(b, st[3], VInt(i - 1)), st[6]))
        Slots(v) == <<Append(out[1], v), out[2]>>
    IN  IF i > Len(src) THEN OkS(s, Normal(VArray(out[1])))
        ELSE IF r.ok /\ r.v[1] = "normal" THEN ExecParallelFor(w, r.s, st, src, Slots(r.v[2]))
        ELSE IF r.ok /\ r.v[1] = "continue" THEN ExecParallelFor(w, r.s, st, src, Slots(out[2][i]))
        ELSE IF r.ok /\ r.v[1] = "break"
             THEN OkS(r.s, Normal(VArray(out[1] \o SubSeq(out[2], i, Len(src)))))
        ELSE r

\* emit: the event is logged, then its handlers run in declaration order.
ExecEmit(w, s, v) ==
    LET hs == IF v[2] \in DOMAIN w.mod.handlers THEN w.mod.handlers[v[2]] ELSE <<>>
        s1 == [s EXCEPT !.tx.events = Append(@, <<v[2], [j \in DOMAIN v[3] |-> v[3][j][2]]>>)]
    IN  IF v[1] # "struct" THEN ErrS(s, "type")
        ELSE FoldLeft(LAMBDA r, h : Then(r, LAMBDA s2, u : call(w, s2, h, <<v>>)), OkS(s1, VUnit), hs)

ExecLetTuple(w, s, st) ==
    Then(eval(w, s, st[3]), LAMBDA s1, v :
         IF v[1] # "tuple" \/ Len(v[2]) # Len(st[2]) THEN ErrS(s1, "type")
         ELSE OkS(FoldLeft(LAMBDA t, i : Bind(t, st[2][i], v[2][i]), s1, [i \in DOMAIN st[2] |-> i]),
                  Normal(VUnit)))

\* <<"For", var, iterator, body, limit>>
ExecForStmt(w, s, st) ==
    Then(eval_iter_to_array(w, s, st[3]), LAMBDA s1, a :
         IF a[1] # "array" THEN ErrS(s1, "type")
         ELSE IF st[5] = <<>> THEN ExecFor(w, s1, st[2], a[2], Len(a[2]), st[4])
         ELSE Then(eval(w, s1, st[5][1]), LAMBDA s2, n :
                   IF n[2] < 0 THEN ErrS(s2, "limit") ELSE ExecFor(w, s2, st[2], a[2], n[2], st[4])))

\* <<"ForRange", var, start, end, inclusive, body>>
ExecForRange(w, s, st) ==
    Then(eval_all(w, s, <<st[3], st[4]>>), LAMBDA s1, b :
         LET elems == RangeValues(b[1], b[2], st[5])
         IN  IF b[1][1] # b[2][1] THEN ErrS(s1, "type")
             ELSE ExecFor(w, s1, st[2], elems, Len(elems), st[6]))

\* <<"ParallelForTo", id, index or "", source, output, body>>
ExecParallelForTo(w, s, st) ==
    LET at == SelectInSeq(s.scopes, LAMBDA sc : Has(sc, st[5]))
        out == s.scopes[at][st[5]]
        Run(s1, a) == ExecParallelFor(w, s1, st, a[2], <<<<>>, out[2]>>)
    IN  Then(eval(w, s, st[4]), LAMBDA s1, a :
             IF a[1] # "array" \/ at = 0 \/ out[1] # "array" THEN ErrS(s1, "type")
             ELSE IF Len(out[2]) # Len(a[2]) THEN ErrS(s1, "length")
             ELSE Then(Run(s1, a), LAMBDA s2, v :
                       IF v[1] # "normal" THEN OkS(s2, v)
                       ELSE OkS([s2 EXCEPT !.scopes[at] = Put(@, st[5], v[2])], Normal(VUnit))))

exec_stmt(w, s, st) ==
    LET Done(r) == Then(r, LAMBDA s1, v : OkS(s1, Normal(VUnit)))
    IN  CASE st[1] = "Let" -> Then(eval(w, s, st[3]), LAMBDA s1, v : OkS(Bind(s1, st[2], v), Normal(VUnit)))
          [] st[1] = "LetTuple" -> ExecLetTuple(w, s, st)
          [] st[1] = "Assign" -> Done(Then(eval(w, s, st[3]), LAMBDA s1, v : assign_path(w, s1, st[2], v)))
          [] st[1] = "Return" -> IF st[2] = <<>> THEN OkS(s, Returns(VUnit))
                                 ELSE Then(eval(w, s, st[2][1]), LAMBDA s1, v : OkS(s1, Returns(v)))
          [] st[1] = "If" -> exec_if(w, s, st)
          [] st[1] = "While" -> ExecWhile(w, s, st[2], st[3])
          [] st[1] = "For" -> ExecForStmt(w, s, st)
          [] st[1] = "ForRange" -> ExecForRange(w, s, st)
          [] st[1] = "Break" -> OkS(s, Breaks)
          [] st[1] = "Continue" -> OkS(s, Continues)
          [] st[1] = "Expr" -> Done(eval(w, s, st[2]))
          [] st[1] = "Delete" -> Done(Then(eval(w, s, st[2][3]), LAMBDA s1, k :
                                           exec_delete(w, s1, st[2][2][2], k)))
          [] st[1] = "Emit" -> Done(Then(eval(w, s, st[2]), LAMBDA s1, v : ExecEmit(w, s1, v)))
          [] st[1] = "Parallel" -> exec_stmts(w, s, st[2])
          [] st[1] = "ParallelForTo" -> ExecParallelForTo(w, s, st)

\* A builtin, unless the module defines an aggregate of its own, or a function;
\* the guard of a non-reentrant one is released however it ends.
call(w, s, name, args) ==
    LET f  == w.mod.fns[name]
        s1 == [s EXCEPT !.scopes = <<[p \in Range(f.params) |-> args[SelectInSeq(f.params, LAMBDA q : q = p)]]>>,
                        !.tx = IF f.nore THEN nore_enter(@, name) ELSE @]
        r  == exec_block_with_tail(w, s1, f.body, TRUE)
        s2 == [r.s EXCEPT !.scopes = s.scopes, !.tx = IF f.nore THEN nore_exit(@, name) ELSE @]
    IN  IF name \in ValueBuiltins /\ ~(name \in Aggregates /\ name \in DOMAIN w.mod.fns)
        THEN Lift(s, try_builtin(name, args))
        ELSE IF name \in DOMAIN w.mod.context THEN OkS(s, w.mod.context[name])
        ELSE IF name \notin DOMAIN w.mod.fns THEN ErrS(s, "unknown")
        ELSE IF Len(args) # Len(f.params) THEN ErrS(s, "arity")
        ELSE IF f.nore /\ ~nore_free(s.tx, name) THEN ErrS(s, "reentry")
        ELSE IF ~r.ok THEN [r EXCEPT !.s = s2]
        ELSE IF r.v[1] \in {"break", "continue"} THEN ErrS(s2, "flow")
        ELSE OkS(s2, r.v[2])

\* A run of the interpreter: the tx it ends with and its result.
interpret(mod, kv, name, args) ==
    call([mod |-> mod, kv |-> kv], [tx |-> new(FALSE), scopes |-> <<>>, pipe |-> <<>>], name, args)
=============================================================================
