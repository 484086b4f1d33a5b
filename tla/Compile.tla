------------------------------ MODULE Compile ------------------------------
(***************************************************************************)
(* The bytecode compiler (crates/rend/src/compile.rs).  A compiler c is a  *)
(* record: the module, the code so far, the next free register and the     *)
(* highest used, the scopes from names to registers, the registers of      *)
(* enclosing pipes, the open loops with the jumps to patch, the number of  *)
(* loops outside each open parallel-for body, and whether all went well.   *)
(* Interp describes the trees it reads, Vm the instructions it emits.      *)
(***************************************************************************)
EXTENDS Prefetch

FnCompiler(mod, params) ==
    [mod |-> mod, code |-> <<>>, next |-> Len(params) + 1, max |-> Len(params),
     scopes |-> <<[p \in Range(params) |-> SelectInSeq(params, LAMBDA q : q = p)]>>,
     pipe |-> <<>>, loops |-> <<>>, pfor |-> <<>>, ok |-> TRUE]

Reject(c) == [c EXCEPT !.ok = FALSE]

\* The register an alloc hands out is c.next; a free takes back only the last.
Allocs(c, n) == [c EXCEPT !.next = @ + n,
                          !.max = IF c.next + n - 1 > @ THEN c.next + n - 1 ELSE @]
alloc(c)     == Allocs(c, 1)
free(c, r)   == IF r + 1 = c.next THEN [c EXCEPT !.next = r] ELSE c
Frees(c, rs) == FoldLeft(free, c, rs)

emit(c, ins)      == [c EXCEPT !.code = Append(@, ins)]
EmitAll(c, inss)  == [c EXCEPT !.code = @ \o inss]
Here(c)           == Len(c.code) + 1

\* The operand of a jump that holds its offset.
OffsetOf == [Jump |-> 2, JumpIfFalse |-> 3, PMapWalkNext |-> 4, PBTreeWalkNext |-> 4]

Patch(c, pos, target) ==
    LET i == c.code[pos]
    IN  [c EXCEPT !.code[pos] = [i EXCEPT ![OffsetOf[i[1]]] = target - pos - 1]]
PatchAll(c, positions, target) == FoldLeft(LAMBDA x, p : Patch(x, p, target), c, positions)

Enter(c, names) == [c EXCEPT !.scopes = Append(@, names)]
Leave(c)        == [c EXCEPT !.scopes = Front(@)]
Declare(c, name, r) == [c EXCEPT !.scopes[Len(c.scopes)] = Put(@, name, r)]

lookup_local(c, name) ==
    LET i == SelectLastInSeq(c.scopes, LAMBDA sc : Has(sc, name))
    IN  IF i = 0 THEN 0 ELSE c.scopes[i][name]

StateType(c, name) == c.mod.states[name]
IsState(c, name)   == Has(c.mod.states, name)

\* A state of one of the given kinds, whatever a local of that name is.
IsStateOf(c, e, kinds) == e[1] = "Ident" /\ IsState(c, e[2]) /\ StateType(c, e[2])[1] \in kinds

Family   == [pmap |-> "PMap", pbtree |-> "PBTree", pvec |-> "PVec", map |-> "Map"]

\* <<state, field, ...>> for a chain of fields that ends at a state no local
\* shadows, otherwise <<>>.
RECURSIVE try_state_field_path(_, _)
try_state_field_path(c, e) ==
    CASE e[1] = "Ident" -> IF lookup_local(c, e[2]) = 0 /\ IsState(c, e[2]) THEN <<e[2]>> ELSE <<>>
      [] e[1] = "Field" -> LET p == try_state_field_path(c, e[2])
                           IN  IF p = <<>> THEN p ELSE Append(p, e[3])
      [] OTHER -> <<>>

\* intern_path: the cell and type a path ends at.  From the first grouped field
\* on, the cell is the group's blob and the fields are projections of it.
intern_path(c, path) ==
    LET Group(ty, f) == IF ty[1] = "struct" THEN ty[4][SelectInSeq(ty[3], LAMBDA d : d[1] = f)] ELSE ""
    IN  FoldLeft(LAMBDA p, f :
                     IF p.chain # <<>> THEN [p EXCEPT !.chain = Append(@, f)]
                     ELSE IF Group(p.ty, f) # ""
                     THEN [cell |-> child(p.cell, Group(p.ty, f)),
                           ty |-> GroupType(p.ty, Group(p.ty, f)), chain |-> <<f>>]
                     ELSE [cell |-> child(p.cell, f), ty |-> FieldType(p.ty, f), chain |-> <<>>],
                 [cell |-> <<path[1]>>, ty |-> StateType(c, path[1]), chain |-> <<>>], Tail(path))

\* emit_field_path: FieldGet for each step; the last register has the result.
emit_field_path(c, path, v) ==
    FoldLeft(LAMBDA a, f :
                 LET c1 == emit(alloc(a.c), <<"FieldGet", a.c.next, a.r, f>>)
                 IN  [c |-> IF a.r = v THEN c1 ELSE free(c1, a.r), r |-> a.c.next],
             [c |-> c, r |-> v], path)

\* emit_index_key: the field itself, or the packed components in order.
emit_index_key(c, idx, v) ==
    LET Part(c0, f) ==
            LET p == emit_field_path(c0, f.path, v)
                r == p.c.next
                c1 == free(emit(alloc(p.c), <<"Move", r, p.r>>), p.r)
                c2 == emit(c1, <<"BuiltinCall", r, "to_be_bytes", r, 1>>)
            IN  [c |-> IF f.desc THEN emit(c2, <<"BuiltinCall", r, "bit_not_bytes", r, 1>>) ELSE c2,
                 r |-> r]
        Joined(a, b) ==
            LET r == b.c.next
                c1 == EmitAll(Allocs(b.c, 2), <<<<"Move", r, a.r>>, <<"Move", r + 1, b.r>>>>)
                c2 == emit(Frees(c1, <<a.r, b.r>>), <<"BuiltinCall", r, "bytes_concat", r, 2>>)
            IN  [c |-> free(c2, r + 1), r |-> r]
    IN  IF Len(idx.fields) = 1 /\ ~idx.fields[1].desc THEN emit_field_path(c, idx.fields[1].path, v)
        ELSE FoldLeft(LAMBDA a, f : Joined(a, Part(a.c, f)), Part(c, idx.fields[1]), Tail(idx.fields))

\* Mutant: list indexes are not maintained.
UniqueIndexesOn(c, state) == SelectSeq(c.mod.indexes, LAMBDA x : x.on = state /\ x.kind = "unique")

IndexesOn(c, state) == SelectSeq(c.mod.indexes, LAMBDA x : x.on = state)

\* One instruction per index on the state: key v's projection, operand key.
IndexOps(c, state, v, key, unique, multi) ==
    FoldLeft(LAMBDA x, idx :
                 LET k  == emit_index_key(x, idx, v)
                     ty == StateType(x, idx.name)
                     op == Family[ty[1]] \o (IF idx.kind = "unique" THEN unique ELSE multi)
                 IN  free(emit(k.c, <<op, <<idx.name>>, ty, k.r, key>>), k.r),
             c, IndexesOn(c, state))

-----------------------------------------------------------------------------
RECURSIVE compile_expr_into(_, _, _), compile_stmt(_, _), compile_block(_, _),
          compile_block_into(_, _, _), compile_if(_, _), If(_, _, _), assign_path(_, _, _),
          lower_comp(_, _, _, _)

\* Each expression into a register allocated for it, up to one that is rejected;
\* rs are the registers.
RECURSIVE LoadedAfter(_, _)
LoadedAfter(a, es) ==
    IF es = <<>> \/ ~a.c.ok THEN a
    ELSE LoadedAfter([c |-> compile_expr_into(alloc(a.c), Head(es), a.c.next),
                      rs |-> Append(a.rs, a.c.next)], Tail(es))
Loaded(c, es) == LoadedAfter([c |-> c, rs |-> <<>>], es)
Released(a, ins) == Frees(emit(a.c, ins), Reverse(a.rs))

\* The expressions into consecutive registers from c.next on, then the instruction.
RECURSIVE Filled(_, _, _)
Filled(c, es, r) == IF es = <<>> \/ ~c.ok THEN c ELSE Filled(compile_expr_into(c, Head(es), r), Tail(es), r + 1)
Gathered(c, es, ins) == [emit(Filled(Allocs(c, Len(es)), es, c.next), ins) EXCEPT !.next = @ - Len(es)]

-----------------------------------------------------------------------------
(* Loops.  A loop l is open between its guard and its back edge: its code    *)
(* so far, where it starts, its exit jump, the step at its end, the target   *)
(* of `continue' (0: the step), and its registers, last first.               *)

Counted(c, counter, limit, op, fetch, step, regs) ==
    LET k == c.next
        c1 == EmitAll(alloc(c), <<<<"Bin", op, k, counter, limit>>, <<"JumpIfFalse", k, 0>>>>)
    IN  [c |-> EmitAll(free(c1, k), fetch), start |-> Here(c), exit |-> Here(c) + 1,
         step |-> step, cont |-> 0, regs |-> regs]

\* Over a vector state by index, without materialising it.
compile_for_streaming_pvec(c, state, var) ==
    LET b  == c.next
        ty == StateType(c, state)
        c1 == EmitAll(Allocs(c, 3), <<<<"PVecLen", b, <<state>>, ty>>, <<"LoadConst", b + 1, VU64(0)>>>>)
    IN  Counted(Enter(c1, var :> b + 2), b + 1, b, "<", <<<<"PVecGet", b + 2, <<state>>, ty, b + 1>>>>,
                <<<<"IncReg", b + 1>>>>, <<b + 2, b + 1, b>>)

\* Over a map or tree state with a cursor.
Streaming(c, state, var) ==
    LET b  == c.next
        ty == StateType(c, state)
        c1 == Enter(emit(Allocs(c, 2), <<Family[ty[1]] \o "WalkInit", b, <<state>>, ty>>), var :> b + 1)
    IN  [c |-> emit(c1, <<Family[ty[1]] \o "WalkNext", b, b + 1, 0>>), start |-> Here(c1),
         exit |-> Here(c1), step |-> <<>>, cont |-> 0, regs |-> <<b + 1, b>>]

compile_for_streaming_pmap(c, state, var)   == Streaming(c, state, var)
compile_for_streaming_pbtree(c, state, var) == Streaming(c, state, var)

\* Over an array, after the prefetches of the maps its elements index.
OverArray(c, iter, var, targets) ==
    LET a   == Loaded(c, <<iter>>)
        arr == a.rs[1]
        c1  == EmitAll(a.c, [i \in DOMAIN targets |->
                                <<"PrefetchMap", <<targets[i]>>, StateType(c, targets[i]), arr>>])
        b   == c1.next
        c2  == EmitAll(Allocs(c1, 4), <<<<"BuiltinLen", b, arr>>, <<"LoadConst", b + 1, VInt(0)>>,
                                        <<"LoadConst", b + 2, VInt(1)>>>>)
    IN  Counted(Enter(c2, var :> b + 3), b + 1, b, "<", <<<<"ArrayGet", b + 3, arr, b + 1>>>>,
                <<<<"Bin", "+", b + 1, b + 1, b + 2>>>>, <<b + 3, b + 2, b + 1, b, arr>>)

OpenLoop(c, iter, var, targets) ==
    IF IsStateOf(c, iter, {"pvec"}) THEN compile_for_streaming_pvec(c, iter[2], var)
    ELSE IF IsStateOf(c, iter, {"pmap"}) THEN compile_for_streaming_pmap(c, iter[2], var)
    ELSE IF IsStateOf(c, iter, {"pbtree"}) THEN compile_for_streaming_pbtree(c, iter[2], var)
    ELSE OverArray(c, iter, var, targets)

\* The step, the back edge and the patches; c is the compiler after the body.
CloseLoop(l, c, continues, breaks) ==
    LET c1  == EmitAll(c, l.step)
        c2  == emit(c1, <<"Jump", l.start - Here(c1) - 1>>)
        c3  == PatchAll(c2, continues, IF l.cont = 0 THEN Here(c) ELSE l.cont)
    IN  Frees(Leave(PatchAll(c3, <<l.exit>> \o breaks, Here(c2))), l.regs)

\* The body of a loop statement; before it, jumps that leave the loop.
LoopBody(l, c, body, exits) ==
    LET c1 == compile_block([c EXCEPT !.loops = Append(@, [breaks |-> <<>>, conts |-> <<>>])], body)
    IN  CloseLoop(l, [c1 EXCEPT !.loops = Front(@)], Last(c1.loops).conts, Last(c1.loops).breaks \o exits)

compile_while(c, cond, body) ==
    LET a == Loaded(c, <<cond>>)
        l == [c |-> Enter(Released(a, <<"JumpIfFalse", a.rs[1], 0>>), <<>>), start |-> Here(c),
              exit |-> Here(a.c), step |-> <<>>, cont |-> Here(c), regs |-> <<>>]
    IN  LoopBody(l, l.c, body, <<>>)

\* The loop variable is the counter itself.
compile_for_range(c, var, start, end, inclusive, body) ==
    LET a == Loaded(c, <<start, end>>)
        l == Counted(Enter(a.c, var :> a.rs[1]), a.rs[1], a.rs[2], IF inclusive THEN "<=" ELSE "<",
                     <<>>, <<<<"IncReg", a.rs[1]>>>>, <<a.rs[2], a.rs[1]>>)
    IN  LoopBody(l, l.c, body, <<>>)

\* Leave when nothing remains, otherwise count the iteration down.
emit_limit_check(c, remaining, one) ==
    LET z == c.next
    IN  Frees(EmitAll(Allocs(c, 2), <<<<"LoadConst", z, VU64(0)>>, <<"Bin", ">", z + 1, remaining, z>>,
                                      <<"JumpIfFalse", z + 1, 0>>,
                                      <<"Bin", "-", remaining, remaining, one>>>>), <<z + 1, z>>)

\* The registers of a limit are not given back before the block ends.
compile_for(c, var, iter, body, limit) ==
    LET a  == Loaded(c, limit)
        n  == a.rs[1]
        c1 == IF limit = <<>> THEN c ELSE emit(alloc(a.c), <<"LoadConst", a.c.next, VU64(1)>>)
        l  == OpenLoop(c1, iter, var, scan_loop_body(c.mod, var, body))
    IN  IF limit = <<>> THEN LoopBody(l, l.c, body, <<>>)
        ELSE LoopBody(l, emit_limit_check(l.c, n, a.c.next), body, <<Here(l.c) + 2>>)

-----------------------------------------------------------------------------
(* Comprehensions.  A leaf is <<kind, expressions, register>>.               *)

emit_comp_leaf(c, leaf) ==
    LET dst == leaf[3]
        a   == Loaded(c, leaf[2])
        b   == a.c.next
        d   == Loaded(emit(alloc(c), <<"Move", c.next, dst>>), leaf[2])
    IN  CASE leaf[1] = "ListAppend" -> Released(a, <<"ArrayAppend", dst, dst, a.rs[1]>>)
          [] leaf[1] = "SetInsert" ->
                 Frees(EmitAll(Allocs(a.c, 2), <<<<"Move", b, dst>>, <<"Move", b + 1, a.rs[1]>>,
                                                 <<"BuiltinCall", dst, "set_insert", b, 2>>>>),
                       <<b + 1, b, a.rs[1]>>)
          [] leaf[1] = "DictSet" ->
                 free(Released(d, <<"BuiltinCall", dst, "dict_set", c.next, 3>>), c.next)

\* The loops of a clause are those of a statement without `break' and `continue'.
lower_comp_for_pvec(c, state, var)   == compile_for_streaming_pvec(c, state, var)
lower_comp_for_pmap(c, state, var)   == Streaming(c, state, var)
lower_comp_for_pbtree(c, state, var) == Streaming(c, state, var)

OpenClause(c, iter, var, targets) ==
    IF IsStateOf(c, iter, {"pvec"}) THEN lower_comp_for_pvec(c, iter[2], var)
    ELSE IF IsStateOf(c, iter, {"pmap"}) THEN lower_comp_for_pmap(c, iter[2], var)
    ELSE IF IsStateOf(c, iter, {"pbtree"}) THEN lower_comp_for_pbtree(c, iter[2], var)
    ELSE OverArray(c, iter, var, targets)

\* Prefetches are emitted for the first clause only.
lower_comp(c, clauses, i, leaf) ==
    LET cl == clauses[i]
        l  == OpenClause(c, cl[3], cl[2],
                         IF i = 1 THEN scan_comp_inner(c.mod, cl[2], Tail(clauses), leaf[2]) ELSE <<>>)
        a  == Loaded(c, <<cl[2]>>)
        c1 == lower_comp(Released(a, <<"JumpIfFalse", a.rs[1], 0>>), clauses, i + 1, leaf)
    IN  IF i > Len(clauses) THEN emit_comp_leaf(c, leaf)
        ELSE IF cl[1] = "For" THEN CloseLoop(l, lower_comp(l.c, clauses, i + 1, leaf), <<>>, <<>>)
        ELSE Patch(c1, Here(a.c), Here(c1))

-----------------------------------------------------------------------------
(* Blocks and statements.                                                    *)

RECURSIVE Stmts(_, _)
Stmts(c, stmts) == IF stmts = <<>> \/ ~c.ok THEN c ELSE Stmts(compile_stmt(c, Head(stmts)), Tail(stmts))

\* The end of a block gives back every register it allocated.
EndBlock(c, saved) == [Leave(c) EXCEPT !.next = saved]

compile_block(c, b) ==
    LET c1 == Stmts(Enter(c, <<>>), b[1])
        a  == Loaded(c1, b[2])
    IN  EndBlock(a.c, c.next)

compile_fn_body(c, b) ==
    LET c1 == Stmts(Enter(c, <<>>), b[1])
        a  == Loaded(c1, b[2])
    IN  EndBlock(IF b[2] = <<>> THEN c1 ELSE emit(a.c, <<"Return", a.rs[1]>>), c.next)

\* Without a tail the value is the constant false.
compile_block_into(c, b, dst) ==
    LET c1 == Stmts(Enter(c, <<>>), b[1])
    IN  EndBlock(IF b[2] = <<>> THEN emit(c1, <<"LoadConst", dst, VBool(FALSE)>>)
                 ELSE compile_expr_into(c1, b[2][1], dst), c.next)

\* The jump over the else branch is emitted even if there is none.
compile_if(c, n) ==
    LET a  == Loaded(c, <<n[2]>>)
        c1 == emit(compile_block(Released(a, <<"JumpIfFalse", a.rs[1], 0>>), n[3]), <<"Jump", 0>>)
        c2 == Patch(c1, Here(a.c), Here(c1))
        c3 == CASE n[4][1] = "None" -> c2
                [] n[4][1] = "Else" -> compile_block(c2, n[4][2])
                [] n[4][1] = "ElseIf" -> compile_if(c2, n[4][2])
    IN  Patch(c3, Here(c1) - 1, Here(c3))

AssignIdent(c, name, v) ==
    LET r == lookup_local(c, name)
    IN  IF r # 0 THEN IF r = v THEN c ELSE emit(c, <<"Move", r, v>>)
        ELSE IF IsState(c, name) THEN emit(c, <<"KvPut", <<name>>, StateType(c, name), v>>)
        ELSE Reject(c)

\* state[key] = v; only a pmap maintains the indexes on it.
AssignIndex(c, t, v) ==
    LET state == t[2][2]
        ty == StateType(c, state)
        a  == Loaded(c, <<t[3]>>)
        op == Family[ty[1]] \o (IF ty[1] = "pvec" THEN "Set" ELSE "Put")
        c1 == emit(a.c, <<op, <<state>>, ty, a.rs[1], v>>)
    IN  IF ~IsStateOf(c, t[2], DOMAIN Family) THEN Reject(c)
        ELSE free(IF ty[1] = "pmap" THEN IndexOps(c1, state, v, a.rs[1], "PutUnique", "AppendUnique") ELSE c1,
                  a.rs[1])

\* A field of a state: its own cell, or the blob of its group, read, changed
\* along the chain of projections and written back.
AssignStateField(c, path, v) ==
    LET p == intern_path(c, path)
        n == Len(p.chain)
        b == c.next
        down == [i \in 1..(n - 1) |-> <<"FieldGet", b + i, b + i - 1, p.chain[i]>>]
        up   == [i \in 1..(n - 1) |-> <<"FieldSet", b + n - i - 1, p.chain[n - i], b + n - i>>]
    IN  IF n = 0 THEN emit(c, <<"KvPutPath", p.cell, p.ty, v, FALSE>>)
        ELSE Frees(EmitAll(Allocs(c, n), <<<<"KvGetPath", b, p.cell, p.ty, TRUE>>>> \o down
                                         \o <<<<"FieldSet", b + n - 1, p.chain[n], v>>>> \o up
                                         \o <<<<"KvPutPath", p.cell, p.ty, b, TRUE>>>>),
                   [i \in 1..n |-> b + n - i])

assign_path(c, t, v) ==
    LET p == try_state_field_path(c, t)
        a == Loaded(c, <<t[2]>>)
    IN  CASE t[1] = "Ident" -> AssignIdent(c, t[2], v)
          [] t[1] = "Index" -> AssignIndex(c, t, v)
          [] t[1] = "Field" ->
                 IF p # <<>> THEN AssignStateField(c, p, v)
                 ELSE free(assign_path(emit(a.c, <<"FieldSet", a.rs[1], t[3], v>>), t[2], a.rs[1]), a.rs[1])
          [] OTHER -> Reject(c)

\* The value that was there, the indexes on it, then the entry.
compile_delete(c, t) ==
    LET state == t[2][2]
        ty == StateType(c, state)
        a  == Loaded(c, <<t[3]>>)
        k  == a.rs[1]
        p  == a.c.next
        c1 == emit(alloc(a.c), <<Family[ty[1]] \o "Get", p, <<state>>, ty, k>>)
        c2 == IndexOps(c1, state, p, k, "RemoveUnique", "RemoveFromList")
    IN  IF ~IsStateOf(c, t[2], {"pmap", "pbtree"}) THEN Reject(c)
        ELSE Frees(emit(c2, <<Family[ty[1]] \o "Delete", <<state>>, ty, k, k>>), <<p, k>>)

LetTuple(c, names, e) ==
    LET a == Loaded(c, <<e>>)
    IN  FoldLeft(LAMBDA x, i : Declare(emit(alloc(x), <<"TupleGet", x.next, a.rs[1], i>>), names[i], x.next),
                 a.c, [i \in DOMAIN names |-> i])

Let(c, name, e) == Declare(compile_expr_into(alloc(c), e, c.next), name, c.next)

\* A jump to be patched at the end of the innermost loop.
Break(c) == IF c.loops = <<>> THEN Reject(c)
            ELSE [emit(c, <<"Jump", 0>>) EXCEPT !.loops[Len(c.loops)].breaks = Append(@, Here(c))]

\* Directly in the body of a parallel for the leg is skipped.
Continue(c) ==
    IF c.pfor # <<>> /\ Len(c.loops) = Last(c.pfor) THEN emit(c, <<"ParallelForSkip">>)
    ELSE IF c.loops = <<>> THEN Reject(c)
    ELSE [emit(c, <<"Jump", 0>>) EXCEPT !.loops[Len(c.loops)].conts = Append(@, Here(c))]

\* Each statement is a leg that ends with a yield; a `let' yields its register,
\* and its name stays visible after the block.
Parallel(c, stmts) ==
    LET Leg(a, st) ==
            LET r  == IF st[1] = "Let" THEN a.c.next ELSE 0
                c1 == IF st[1] = "Let" THEN Let(a.c, st[2], st[3]) ELSE compile_stmt(a.c, st)
            IN  [c |-> emit(c1, <<"ParallelYield", r>>), legs |-> Append(a.legs, <<Here(a.c), r>>)]
        b == FoldLeft(Leg, [c |-> emit(c, <<"ParallelBegin", <<>>, 0>>), legs |-> <<>>], stmts)
    IN  [b.c EXCEPT !.code[Here(c)] = <<"ParallelBegin", b.legs, Here(b.c)>>]

\* The output is the register of a local, so that what is written stays visible.
ParallelForTo(c, id, idx, source, output, body) ==
    LET a   == Loaded(c, <<source>>)
        out == lookup_local(a.c, output)
        b   == a.c.next
        c1  == Enter(Allocs(a.c, 2), (id :> b) @@ IF idx = "" THEN <<>> ELSE idx :> b + 1)
        c2  == emit(c1, <<"ParallelForBegin", 0, a.rs[1], out, b, b + 1, 0>>)
        c3  == [alloc(c2) EXCEPT !.pfor = Append(@, Len(c2.loops))]
        c4  == compile_block_into(c3, body, c2.next)
        c5  == Leave(emit([c4 EXCEPT !.pfor = Front(@)], <<"ParallelYield", c2.next>>))
    IN  IF out = 0 THEN Reject(c)
        ELSE [c5 EXCEPT !.code[Here(c1)] = <<"ParallelForBegin", Here(c2), a.rs[1], out, b, b + 1, Here(c5)>>]

compile_stmt(c, st) ==
    CASE st[1] = "Let" -> Let(c, st[2], st[3])
      [] st[1] = "LetTuple" -> LetTuple(c, st[2], st[3])
      [] st[1] = "Assign" -> LET a == Loaded(c, <<st[3]>>)
                             IN  free(assign_path(a.c, st[2], a.rs[1]), a.rs[1])
      [] st[1] = "Return" -> LET a == Loaded(c, st[2])
                             IN  IF st[2] = <<>> THEN emit(c, <<"ReturnUnit">>)
                                 ELSE Released(a, <<"Return", a.rs[1]>>)
      [] st[1] = "If" -> compile_if(c, st)
      [] st[1] = "While" -> compile_while(c, st[2], st[3])
      [] st[1] = "For" -> compile_for(c, st[2], st[3], st[4], st[5])
      [] st[1] = "ForRange" -> compile_for_range(c, st[2], st[3], st[4], st[5], st[6])
      [] st[1] = "Break" -> Break(c)
      [] st[1] = "Continue" -> Continue(c)
      [] st[1] = "Expr" -> LET a == Loaded(c, <<st[2]>>) IN free(a.c, a.rs[1])
      [] st[1] = "Delete" -> compile_delete(c, st[2])
      [] st[1] = "Emit" -> LET a == Loaded(c, <<st[2]>>) IN Released(a, <<"Emit", a.rs[1]>>)
      [] st[1] = "Parallel" -> Parallel(c, st[2])
      [] st[1] = "ParallelForTo" -> ParallelForTo(c, st[2], st[3], st[4], st[5], st[6])

-----------------------------------------------------------------------------
(* Expressions.                                                              *)

\* A local, else a state, else a constant, compiled where it is used.
Ident(c, name, dst) ==
    LET r == lookup_local(c, name)
    IN  IF r # 0 THEN IF r = dst THEN c ELSE emit(c, <<"Move", dst, r>>)
        ELSE IF IsState(c, name) THEN emit(c, <<"KvGet", dst, <<name>>, StateType(c, name)>>)
        ELSE IF Has(c.mod.consts, name) THEN compile_expr_into(c, c.mod.consts[name], dst)
        ELSE Reject(c)

Binary(c, e, dst) ==
    LET a == Loaded(compile_expr_into(c, e[3], dst), <<e[4]>>)
    IN  Released(a, <<"Bin", e[2], dst, dst, a.rs[1]>>)

Unary(c, e, dst) == emit(compile_expr_into(c, e[3], dst), <<"Un", e[2], dst, dst>>)

\* An entry of a keyed state, even where a local has its name, or of an array.
Index(c, e, dst) ==
    LET k  == Loaded(c, <<e[3]>>)
        a  == Loaded(c, <<e[2], e[3]>>)
        ty == StateType(c, e[2][2])
    IN  IF IsStateOf(c, e[2], DOMAIN Family)
        THEN Released(k, <<Family[ty[1]] \o "Get", dst, <<e[2][2]>>, ty, k.rs[1]>>)
        ELSE Released(a, <<"ArrayGet", dst, a.rs[1], a.rs[2]>>)

\* default_expr_for_type: a literal for the element type.
RECURSIVE default_expr_for_type(_)
default_expr_for_type(ty) ==
    CASE ty[1] = "int" -> <<"Int", 0>>
      [] ty[1] = "u64" -> <<"U64", 0>>
      [] ty[1] = "bool" -> <<"Bool", FALSE>>
      [] ty[1] = "struct" -> <<"StructLit", ty[2], [i \in DOMAIN ty[3] |->
                                   <<ty[3][i][1], default_expr_for_type(ty[3][i][2])>>]>>

\* The registers of the length and the default are not given back.
ArrayAlloc(c, e, dst) ==
    LET a == Loaded(c, <<e[3], default_expr_for_type(e[2])>>)
    IN  emit(a.c, <<"ArrayAlloc", dst, a.rs[1], a.rs[2]>>)

Reserve(c, e, dst) ==
    LET a == Loaded(c, <<e[2]>>) IN emit(a.c, <<"Reserve", dst, a.rs[1], <<e[3]>>>>)

\* The fields in the order of the declaration.
StructLit(c, e, dst) ==
    LET names == c.mod.structs[e[2]]
        At(f) == e[3][SelectInSeq(e[3], LAMBDA p : p[1] = f)][2]
    IN  Gathered(c, [i \in DOMAIN names |-> At(names[i])], <<"MakeStruct", dst, e[2], names, c.next>>)

Field(c, e, dst) ==
    LET path == try_state_field_path(c, e)
        p == intern_path(c, path)
        n == Len(p.chain)
        t == c.next
        a == Loaded(c, <<e[2]>>)
    IN  IF path = <<>> THEN Released(a, <<"FieldGet", dst, a.rs[1], e[3]>>)
        ELSE IF n = 0 THEN emit(c, <<"KvGetPath", dst, p.cell, p.ty, FALSE>>)
        ELSE free(EmitAll(alloc(c), <<<<"KvGetPath", t, p.cell, p.ty, TRUE>>>>
                      \o [i \in 1..n |-> <<"FieldGet", IF i = n THEN dst ELSE t, t, p.chain[i]>>]), t)

Pipe(c, e, dst) ==
    LET a  == Loaded(c, <<e[2]>>)
        c1 == compile_expr_into([a.c EXCEPT !.pipe = Append(@, a.rs[1])], e[3], dst)
    IN  free([c1 EXCEPT !.pipe = Front(@)], a.rs[1])

Prev(c, dst) == IF c.pipe = <<>> THEN Reject(c)
                ELSE IF Last(c.pipe) = dst THEN c ELSE emit(c, <<"Move", dst, Last(c.pipe)>>)

\* Builtins with an instruction of their own, by their first argument's kind.
UnaryBuiltins == [resource |-> "BuiltinResource", unwrap |-> "BuiltinUnwrap", len |-> "BuiltinLen"]
Conversions   == [i64 |-> "int", u64 |-> "u64"]
StateBuiltins == [pvec_push |-> "PVecPush", pvec_len |-> "PVecLen", pvec_to_array |-> "PVecToArray",
                  pmap_contains |-> "PMapContains", pbtree_contains |-> "PBTreeContains",
                  pbtree_range |-> "PBTreeRange", pmap_entries |-> "PMapEntries",
                  pmap_keys |-> "PMapKeys", pmap_values |-> "PMapValues"]

\* The first argument names a state, the others are evaluated.
StateCall(c, e, dst) ==
    LET state == e[3][1][2]
        a == Loaded(c, Tail(e[3]))
    IN  IF e[3][1][1] # "Ident" \/ ~IsState(c, state) THEN Reject(c)
        ELSE Released(a, <<StateBuiltins[e[2]], dst, <<state>>, StateType(c, state)>> \o a.rs)

UnaryBuiltin(c, e, dst) == LET a == Loaded(c, e[3]) IN Released(a, <<UnaryBuiltins[e[2]], dst, a.rs[1]>>)
ValueBuiltin(c, e, dst) == Gathered(c, e[3], <<"BuiltinCall", dst, e[2], c.next, Len(e[3])>>)
Conversion(c, e, dst)   == LET a == Loaded(c, e[3]) IN Released(a, <<"Convert", dst, a.rs[1], Conversions[e[2]]>>)
CallContext(c, e, dst)  == emit(c, <<"Context", dst, e[2]>>)

CallLocal(c, e, dst) == IF ~Has(c.mod.fns, e[2]) THEN Reject(c)
                        ELSE Gathered(c, e[3], <<"Call", dst, e[2], c.next, Len(e[3])>>)

\* A function of the module shadows an aggregate builtin of its name.
Shadowed(c, name) == name \in Aggregates /\ Has(c.mod.fns, name)

Call(c, e, dst) ==
    CASE e[2] \in DOMAIN UnaryBuiltins -> UnaryBuiltin(c, e, dst)
      [] e[2] \in DOMAIN StateBuiltins -> StateCall(c, e, dst)
      [] e[2] \in Builtins /\ ~Shadowed(c, e[2]) -> ValueBuiltin(c, e, dst)
      [] e[2] \in DOMAIN c.mod.context -> CallContext(c, e, dst)
      [] e[2] \in DOMAIN Conversions -> Conversion(c, e, dst)
      [] OTHER -> CallLocal(c, e, dst)

\* A call into another module carries the effect its declaration promises.
CallMod(c, e, dst) ==
    Gathered(c, e[3], <<"CallExternal", dst, e[2], c.next, Len(e[3]), e[2] \in c.mod.readers>>)

Bind(c, e, dst) == Gathered(c, e[3], <<"MakeInterface", dst, e[2], c.next>>)

DynCall(c, e, dst) ==
    LET c1 == Ident(alloc(c), e[2], c.next)
    IN  free(Gathered(c1, e[4], <<"CallExternalDyn", dst, c.next, e[3], c1.next, Len(e[4]),
                                  e[3] \in c.mod.readers>>), c.next)

\* `if' as an expression: both branches into the same register.
If(c, n, dst) ==
    LET a  == Loaded(c, <<n[2]>>)
        c1 == emit(compile_block_into(Released(a, <<"JumpIfFalse", a.rs[1], 0>>), n[3], dst), <<"Jump", 0>>)
        c2 == Patch(c1, Here(a.c), Here(c1))
        c3 == CASE n[4][1] = "None" -> emit(c2, <<"LoadConst", dst, VBool(FALSE)>>)
                [] n[4][1] = "Else" -> compile_block_into(c2, n[4][2], dst)
                [] n[4][1] = "ElseIf" -> If(c2, n[4][2], dst)
    IN  Patch(c3, Here(c1) - 1, Here(c3))

Block(c, b, dst) == compile_block_into(c, b, dst)

\* Payloads into registers of their own for the body of an arm.
compile_match_body(c, arm, dst, scrut) ==
    LET n  == Len(arm[2])
        b  == c.next
        c1 == EmitAll(Allocs(c, n), [i \in 1..n |-> <<"EnumPayload", b + i - 1, scrut, i>>])
        c2 == Enter(c1, [p \in Range(arm[2]) |-> b + SelectLastInSeq(arm[2], LAMBDA q : q = p) - 1])
    IN  Frees(Leave(compile_expr_into(c2, arm[3], dst)), [i \in 1..n |-> b + n - i])

\* A cascade of comparisons with the tag.  The register of the compared constant
\* lies below that of the result, so that it is not given back.
Match(c, e, dst) ==
    LET a   == Loaded(c, <<e[2]>>)
        tag == a.c.next
        Tag(v) == SelectInSeq(c.mod.enums[e[4]], LAMBDA x : x = v) - 1
        Arm(m, arm) ==
            LET k  == m.c.next
                c1 == EmitAll(Allocs(m.c, 2), <<<<"LoadConst", k, VInt(Tag(arm[1]))>>,
                                                <<"Bin", "==", k + 1, tag, k>>, <<"JumpIfFalse", k + 1, 0>>>>)
                c2 == IF arm[1] = "_" THEN m.c ELSE free(c1, k + 1)
                c3 == emit(compile_match_body(c2, arm, dst, a.rs[1]), <<"Jump", 0>>)
            IN  IF m.closed THEN m
                ELSE [c |-> IF arm[1] = "_" THEN c3 ELSE Patch(c3, Here(m.c) + 2, Here(c3)),
                      ends |-> Append(m.ends, Here(c3) - 1), closed |-> arm[1] = "_"]
        arms == FoldLeft(Arm, [c |-> emit(alloc(a.c), <<"EnumTag", tag, a.rs[1]>>), ends |-> <<>>,
                               closed |-> FALSE], e[3])
        c9 == emit(arms.c, <<"ReturnUnit">>)
    IN  Frees(PatchAll(c9, arms.ends, Here(c9)), <<tag, a.rs[1]>>)

IntLit(c, e, dst) == emit(c, <<"LoadConst", dst, VInt(e[2])>>)
Literal(c, e, dst) == emit(c, <<"LoadConst", dst, IF e[1] = "U64" THEN VU64(e[2]) ELSE VBool(e[2])>>)

\* Operands into consecutive registers.
ArrayLit(c, es, dst) == Gathered(c, es, <<"MakeArray", dst, c.next, Len(es)>>)
TupleLit(c, es, dst) == Gathered(c, es, <<"MakeTuple", dst, c.next, Len(es)>>)
SetLit(c, es, dst)   == Gathered(c, es, <<"MakeSet", dst, c.next, Len(es)>>)
DictLit(c, ps, dst)  == Gathered(c, FlattenSeq(ps), <<"MakeDict", dst, c.next, Len(ps)>>)
EnumCtor(c, e, dst)  == Gathered(c, e[4], <<"MakeEnum", dst, e[2], e[3], c.next, Len(e[4])>>)

TupleIndex(c, e, dst) == LET a == Loaded(c, <<e[2]>>) IN Released(a, <<"TupleGet", dst, a.rs[1], e[3]>>)

\* An empty collection, then the loops that add to it.
Comp(c, e, dst) ==
    CASE e[1] = "ListComp" -> lower_comp(emit(c, <<"MakeArray", dst, 1, 0>>), e[3], 1, <<"ListAppend", <<e[2]>>, dst>>)
      [] e[1] = "SetComp" -> lower_comp(emit(c, <<"MakeSet", dst, 1, 0>>), e[3], 1, <<"SetInsert", <<e[2]>>, dst>>)
      [] e[1] = "DictComp" -> lower_comp(emit(c, <<"MakeDict", dst, 1, 0>>), e[4], 1, <<"DictSet", <<e[2], e[3]>>, dst>>)

compile_expr_into(c, e, dst) ==
    CASE e[1] = "Int" -> IntLit(c, e, dst)
      [] e[1] \in {"U64", "Bool"} -> Literal(c, e, dst)
      [] e[1] = "Ident" -> Ident(c, e[2], dst)
      [] e[1] = "Binary" -> Binary(c, e, dst)
      [] e[1] = "Unary" -> Unary(c, e, dst)
      [] e[1] = "Index" -> Index(c, e, dst)
      [] e[1] = "Array" -> ArrayLit(c, e[2], dst)
      [] e[1] = "TupleLit" -> TupleLit(c, e[2], dst)
      [] e[1] = "SetLit" -> SetLit(c, e[2], dst)
      [] e[1] = "DictLit" -> DictLit(c, e[2], dst)
      [] e[1] = "ArrayAlloc" -> ArrayAlloc(c, e, dst)
      [] e[1] = "Reserve" -> Reserve(c, e, dst)
      [] e[1] = "StructLit" -> StructLit(c, e, dst)
      [] e[1] = "EnumCtor" -> EnumCtor(c, e, dst)
      [] e[1] = "Field" -> Field(c, e, dst)
      [] e[1] = "Pipe" -> Pipe(c, e, dst)
      [] e[1] = "Prev" -> Prev(c, dst)
      [] e[1] \in {"ListComp", "SetComp", "DictComp"} -> Comp(c, e, dst)
      [] e[1] = "Call" -> Call(c, e, dst)
      [] e[1] = "CallMod" -> CallMod(c, e, dst)
      [] e[1] = "Bind" -> Bind(c, e, dst)
      [] e[1] = "DynCall" -> DynCall(c, e, dst)
      [] e[1] = "TupleIndex" -> TupleIndex(c, e, dst)
      [] e[1] = "Block" -> Block(c, e[2], dst)
      [] e[1] = "If" -> If(c, e, dst)
      [] e[1] = "Match" -> Match(c, e, dst)

-----------------------------------------------------------------------------
\* compile_fn: a ReturnUnit unless the last instruction returns.
compile_fn(mod, f) ==
    LET c == compile_fn_body(FnCompiler(mod, f.params), f.body)
        falls == c.code = <<>> \/ Last(c.code)[1] \notin {"Return", "ReturnUnit"}
    IN  [name |-> f.name, params |-> f.params, n_regs |-> c.max,
         code |-> IF falls THEN Append(c.code, <<"ReturnUnit">>) ELSE c.code,
         nore |-> f.nore, entry |-> f.entry, view |-> f.view, pure |-> f.pure, ret |-> f.ret, ok |-> c.ok]

\* compile_named: every function; the tables of the module go with the code.
compile(mod) ==
    [fns |-> [n \in DOMAIN mod.fns |-> compile_fn(mod, mod.fns[n])], handlers |-> mod.handlers,
     ifaces |-> mod.ifaces, context |-> mod.context, enums |-> mod.enums]
=============================================================================
