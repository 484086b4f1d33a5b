-------------------------------- MODULE Vm --------------------------------
(***************************************************************************)
(* The bytecode machine (crates/rend/src/vm.rs).  A machine is a record:   *)
(* the tx it works on, its call frames, its fuel, its status and, while    *)
(* legs of a `parallel' block or the handlers of an event run, the batch   *)
(* of machines that execute them on shadows of the tx.  Registers are      *)
(* numbered from 1, jumps are relative to the instruction after them, and  *)
(* an instruction carries the cell and type its operand index resolves to. *)
(***************************************************************************)
EXTENDS Collections, FiniteSetsExt

\* A module: functions by name, handlers of each event in declaration order,
\* interfaces by name.
Top(m) == m.frames[Len(m.frames)]
Reg(m, r) == Top(m).regs[r]
Args(m, start, n) == SubSeq(Top(m).regs, start, start + n - 1)
SetReg(m, r, v) == [m EXCEPT !.frames[Len(m.frames)].regs[r] = v]
Goto(m, pc) == [m EXCEPT !.frames[Len(m.frames)].pc = pc]
Jump(m, offset) == [m EXCEPT !.frames[Len(m.frames)].pc = @ + offset]

Fail(m, kind) == [m EXCEPT !.status = "err", !.result = <<kind>>]
Panic(m) == [m EXCEPT !.status = "panic"]
Running(m) == m.status = "run"

\* Store the result of a kernel, or stop with its error.
Deliver(m, dst, res) == IF ~Running(m) THEN m
                        ELSE IF res.ok THEN SetReg(m, dst, res.v) ELSE Fail(m, res.v[1])

WithTx(m, r) == IF r.panic THEN Panic(m) ELSE [m EXCEPT !.tx = r.tx]

\* A register holds what force made of it.
Forced(m, r, f) == IF f.panic THEN Panic(m) ELSE SetReg([m EXCEPT !.tx = f.tx], r, f.v)

force_reg(m, r, kv) == IF Running(m) THEN Forced(m, r, force(m.tx, Reg(m, r), kv)) ELSE m

force_reg_spine(m, r, kv) == IF Running(m) /\ Reg(m, r)[1] = "pending" THEN force_reg(m, r, kv) ELSE m

Registers(start, n) == [j \in 1..n |-> start + j - 1]

Updates == {"PMapPut", "PBTreePut", "PMapPutUnique", "PBTreePutUnique", "PMapAppendUnique",
            "PBTreeAppendUnique", "PMapDelete", "PBTreeDelete", "PMapRemoveUnique",
            "PBTreeRemoveUnique", "PMapRemoveFromList", "PBTreeRemoveFromList"}

\* The registers an instruction forces before it does anything else, in order.
Forces(i) ==
    CASE i[1] \in {"IncReg", "JumpIfFalse", "Emit"} -> <<i[2]>>
      [] i[1] \in {"Convert", "BuiltinResource", "BuiltinUnwrap", "CallExternalDyn", "Reserve"} -> <<i[3]>>
      [] i[1] \in {"ArrayAlloc", "ParallelForBegin"} -> <<i[3], i[4]>>
      [] i[1] \in {"Un", "ArrayGet", "MapPut", "PrefetchMap"} -> <<i[4]>>
      [] i[1] \in {"Bin", "PVecSet"} \cup Updates -> <<i[4], i[5]>>
      [] i[1] \in {"MapGet", "PMapGet", "PBTreeGet", "PMapContains", "PBTreeContains", "PVecGet", "PVecPush"} -> <<i[5]>>
      [] i[1] = "PBTreeRange" -> <<i[5], i[6]>>
      [] i[1] = "MakeSet" -> Registers(i[3], i[4])
      [] i[1] = "BuiltinCall" -> Registers(i[4], i[5])
      [] i[1] = "MakeDict" -> [j \in 1..i[4] |-> i[3] + 2 * (j - 1)]
      [] i[1] = "ParallelYield" /\ i[2] # 0 -> <<i[2]>>
      [] OTHER -> <<>>

\* The registers of which it needs only the outermost constructor.
Spines(i) ==
    CASE i[1] \in {"BuiltinLen", "ArrayAppend", "ArrayGet", "FieldGet", "EnumTag", "EnumPayload", "TupleGet"} -> <<i[3]>>
      [] i[1] = "FieldSet" -> <<i[2]>>
      [] OTHER -> <<>>

WithOperands(m, i, kv) ==
    FoldLeft(LAMBDA n, r : force_reg(n, r, kv),
             FoldLeft(LAMBDA n, r : force_reg_spine(n, r, kv), m, Spines(i)), Forces(i))

\* A read of a state cell into a register.
Loaded(m, dst, r) == SetReg([m EXCEPT !.tx = r.tx], dst, r.v)

-----------------------------------------------------------------------------
(* Calls.                                                                    *)

Frame(fn, args, dst) ==
    [code |-> fn.code, regs |-> args \o [i \in 1..(fn.n_regs - Len(args)) |-> VUnit],
     pc |-> 1, dst |-> dst, nore |-> fn.nore, name |-> fn.name]

call(m, fn, args, dst) ==
    IF Len(args) # Len(fn.params) THEN Fail(m, "arity")
    ELSE IF fn.nore /\ ~nore_free(m.tx, fn.name) THEN Fail(m, "reentry")
    ELSE [m EXCEPT !.frames = Append(@, Frame(fn, args, dst)),
                   !.tx = IF fn.nore THEN nore_enter(@, fn.name) ELSE @]

\* The end of a function: the caller continues, or the machine is done.
Return(m, v) ==
    LET tx  == IF Top(m).nore THEN nore_exit(m.tx, Top(m).name) ELSE m.tx
        dst == Top(m).dst
        up  == [m EXCEPT !.frames = Front(@), !.tx = tx]
    IN  IF Len(m.frames) = 1 THEN [m EXCEPT !.tx = tx, !.status = "done", !.result = v]
        ELSE IF dst = 0 THEN up ELSE SetReg(up, dst, v)

CallExternal(m, i, prog) ==
    IF i[3] \notin DOMAIN prog.fns THEN Fail(m, "unknown")
    ELSE IF ~prog.fns[i[3]].entry THEN Fail(m, "entry")
    ELSE call(m, prog.fns[i[3]], Args(m, i[4], i[5]), i[2])

\* check_iface_conformance: every method, with the same signature, entry
\* callable and with an effect at least as strict as the declared one.
check_iface_conformance(iface, fns) ==
    \A j \in DOMAIN iface :
        /\ iface[j].name \in DOMAIN fns
        /\ LET f == fns[iface[j].name]
           IN  /\ f.entry /\ f.params = iface[j].params /\ f.ret = iface[j].ret
               /\ iface[j].pure => f.pure
               /\ iface[j].view => f.view \/ f.pure

MakeInterface(m, i, prog) ==
    IF check_iface_conformance(prog.ifaces[i[3]], prog.fns)
    THEN SetReg(m, i[2], <<"interface", i[3]>>) ELSE Fail(m, "conformance")

CallExternalDyn(m, i, prog) ==
    IF Reg(m, i[3])[1] # "interface" THEN Fail(m, "type")
    ELSE CallExternal(m, <<"CallExternal", i[2], i[4], i[5], i[6]>>, prog)

-----------------------------------------------------------------------------
(* Values.                                                                   *)

Bin(m, i) == Deliver(m, i[3], eval_binary(i[2], Reg(m, i[4]), Reg(m, i[5])))
Un(m, i) == Deliver(m, i[3], eval_unary(i[2], Reg(m, i[4])))
Convert(m, i) == Deliver(m, i[2], convert(Reg(m, i[3]), i[4]))
IncReg(m, i) == Deliver(m, i[2], inc(Reg(m, i[2])))
JumpIfFalse(m, i) == IF Reg(m, i[2]) = VBool(FALSE) THEN Jump(m, i[3]) ELSE m

BuiltinResource(m, i) == Deliver(m, i[2], ToResource(Reg(m, i[3])))

BuiltinUnwrap(m, i) ==
    Deliver(m, i[2], IF Reg(m, i[3])[1] = "resource" THEN Ok(VInt(Reg(m, i[3])[2])) ELSE Err("type"))

BuiltinLen(m, i) ==
    Deliver(m, i[2], IF Reg(m, i[3])[1] \in {"array", "set", "dict"}
                     THEN Ok(VInt(Len(Reg(m, i[3])[2]))) ELSE Err("type"))

\* A non-negative integer of any width.
IsCount(v) == v[1] \in {"int", "u64"} /\ v[2] >= 0

ArrayAlloc(m, i) ==
    Deliver(m, i[2], IF ~IsCount(Reg(m, i[3])) THEN Err("range")
                     ELSE Ok(VArray([j \in 1..Reg(m, i[3])[2] |-> Reg(m, i[4])])))

ArrayAppend(m, i) ==
    Deliver(m, i[2], IF Reg(m, i[3])[1] # "array" THEN Err("type")
                     ELSE Ok(VArray(Append(Reg(m, i[3])[2], Reg(m, i[4])))))

ArrayGet(m, i) ==
    LET a == Reg(m, i[3])
        k == Reg(m, i[4])
    IN  Deliver(m, i[2], IF a[1] # "array" \/ k[1] # "int" THEN Err("type")
                         ELSE IF k[2] + 1 \in DOMAIN a[2] THEN Ok(a[2][k[2] + 1]) ELSE Err("bounds"))

\* The elements of a set are forced, so that equal reads count once.
MakeSet(m, i) ==
    SetReg(m, i[2], VSet(FoldLeft(LAMBDA s, v : IF Holds(s, v) THEN s ELSE Append(s, v),
                                  <<>>, Args(m, i[3], i[4]))))

\* Only the keys of a dictionary are forced.
MakeDict(m, i) ==
    SetReg(m, i[2], VDict(FoldLeft(LAMBDA d, r : PutPair(d, Reg(m, r), Reg(m, r + 1)), <<>>, Forces(i))))

BuiltinCall(m, i) == Deliver(m, i[2], call_builtin(i[3], Args(m, i[4], i[5])))

MakeStruct(m, i) ==
    SetReg(m, i[2], VStruct(i[3], [j \in DOMAIN i[4] |-> <<i[4][j], Reg(m, i[5] + j - 1)>>]))

FieldGet(m, i) ==
    LET s == Reg(m, i[3])
    IN  Deliver(m, i[2], IF s[1] = "struct" /\ HasField(s, i[4]) THEN Ok(FieldValue(s, i[4])) ELSE Err("type"))

FieldSet(m, i) ==
    LET s == Reg(m, i[2])
    IN  Deliver(m, i[2], IF s[1] = "struct" /\ HasField(s, i[3])
                         THEN Ok(VStruct(s[2], [j \in DOMAIN s[3] |->
                                    IF s[3][j][1] = i[3] THEN <<i[3], Reg(m, i[4])>> ELSE s[3][j]]))
                         ELSE Err("type"))

MakeArray(m, i) == SetReg(m, i[2], VArray(Args(m, i[3], i[4])))
MakeTuple(m, i) == SetReg(m, i[2], VTuple(Args(m, i[3], i[4])))
Context(m, i, prog) == SetReg(m, i[2], prog.context[i[3]])
ParallelForSkip(m) == [m EXCEPT !.status = "done", !.skip = TRUE]
MakeEnum(m, i) == SetReg(m, i[2], VEnum(i[3], i[4], Args(m, i[5], i[6])))

\* The index of the variant in the declaration of the enum.
EnumTag(m, i, prog) ==
    LET e == Reg(m, i[3])
    IN  Deliver(m, i[2], IF e[1] # "enum" THEN Err("type")
                         ELSE Ok(VInt(SelectInSeq(prog.enums[e[2]], LAMBDA v : v = e[3]) - 1)))

EnumPayload(m, i) ==
    LET e == Reg(m, i[3])
    IN  Deliver(m, i[2], IF e[1] = "enum" /\ i[4] \in DOMAIN e[4] THEN Ok(e[4][i[4]]) ELSE Err("type"))

TupleGet(m, i) ==
    LET p == Reg(m, i[3])
    IN  Deliver(m, i[2], IF p[1] = "tuple" /\ i[4] \in DOMAIN p[2] THEN Ok(p[2][i[4]]) ELSE Err("type"))

-----------------------------------------------------------------------------
(* State cells.                                                              *)

KvGet(m, i, kv) == Loaded(m, i[2], read_typed(m.tx, i[3], i[4], kv))
KvPut(m, i, kv) == WithTx(m, write_typed(m.tx, i[2], i[3], Reg(m, i[4]), kv))

\* A group cell is read and written as one blob.
KvGetPath(m, i, kv) ==
    Loaded(m, i[2], IF i[5] THEN read_cell(m.tx, i[3], i[4], kv) ELSE read_typed(m.tx, i[3], i[4], kv))

KvPutPath(m, i, kv) ==
    WithTx(m, IF i[5] THEN write(m.tx, i[2], Reg(m, i[4]), kv)
              ELSE write_typed(m.tx, i[2], i[3], Reg(m, i[4]), kv))

MapGet(m, i, kv) ==
    IF ~is_keyable_value(Reg(m, i[5])) THEN Fail(m, "type")
    ELSE Loaded(m, i[2], read_cell(m.tx, child(i[3], Reg(m, i[5])), i[4][3], kv))

MapPut(m, i, kv) ==
    IF ~is_keyable_value(Reg(m, i[4])) THEN Fail(m, "type")
    ELSE WithTx(m, write(m.tx, child(i[2], Reg(m, i[4])), Reg(m, i[5]), kv))

\* PrefetchMap: the cells of all keys of an array with one get_many.
PrefetchMap(m, i, kv) ==
    LET keys == SelectSeq(Reg(m, i[4])[2], is_keyable_value)
    IN  IF Reg(m, i[4])[1] # "array" THEN m
        ELSE [m EXCEPT !.tx = read_typed_many(@, [j \in DOMAIN keys |->
                                                   <<child(i[2], keys[j]), i[3][3]>>], kv).tx]

Assigned(m, regs, r) ==
    FoldLeft(LAMBDA n, j : SetReg(n, regs[j], r.v[j]), [m EXCEPT !.tx = r.tx], [j \in DOMAIN regs |-> j])
ReadBatch(m, i, kv) ==
    Assigned(m, [j \in DOMAIN i[2] |-> i[2][j][1]],
             read_typed_many(m.tx, [j \in DOMAIN i[2] |-> <<i[2][j][2], i[2][j][3]>>], kv))

\* reserve n from counter: the ids prev+1 .. prev+n, the counter moved past them.
Reserved(m, i, r, prev, cnt, kv) ==
    SetReg(WithTx(m, write_typed(r.tx, i[4], <<"u64">>, VU64(Wrap(prev + cnt)), kv)), i[2],
           VArray([j \in 1..cnt |-> VU64(Wrap(prev + j))]))
Reserve(m, i, kv) ==
    LET r == read_typed_many(m.tx, <<<<i[4], <<"u64">>>>>>, kv)
    IN  IF ~IsCount(Reg(m, i[3])) THEN Fail(m, "type")
        ELSE Reserved(m, i, r, r.v[1][2], Reg(m, i[3])[2], kv)

-----------------------------------------------------------------------------
(* Persistent collections: the state cell holds the root, which stands for   *)
(* the contents; nodes are read and written beside it.  An instruction on a  *)
(* collection finds the contents e in its operand.                           *)

\* The cell and the type of the collection an instruction works on.
Subject(m, i) ==
    CASE i[1] \in Updates \cup {"PVecSet"} -> <<i[2], i[3]>>
      [] i[1] = "PBTreeWalkNext" -> <<Reg(m, i[2])[2], Reg(m, i[2])[3]>>
      [] OTHER -> <<i[3], i[4]>>

PMapGet(m, i, e) == Loaded(m, i[2], begin_pmap_get(m.tx, e, Reg(m, i[5]), i[4][3]))
PBTreeGet(m, i, e) ==
    SetReg(m, i[2], IF Has(e, Reg(m, i[5])) THEN e[Reg(m, i[5])] ELSE default_for(i[4][3]))
PMapContains(m, i, e) == SetReg(m, i[2], VBool(Has(e, Reg(m, i[5]))))
PBTreeContains(m, i, e) == PMapContains(m, i, e)

\* pmap_walk_entries in the order of the keys, and the projections on it.
PMapEntries(m, i, e) ==
    LET ks == SortedKeys(e) IN SetReg(m, i[2], VArray([j \in DOMAIN ks |-> VTuple(<<ks[j], e[ks[j]]>>)]))
PMapKeys(m, i, e) == SetReg(m, i[2], VArray(SortedKeys(e)))
PMapValues(m, i, e) == LET ks == SortedKeys(e) IN SetReg(m, i[2], VArray([j \in DOMAIN ks |-> e[ks[j]]]))

PBTreeRange(m, i, e) ==
    LET ks == KeysWithin(e, Reg(m, i[5]), Reg(m, i[6]))
    IN  SetReg(m, i[2], VArray([j \in DOMAIN ks |-> e[ks[j]]]))

\* The cursor of a pmap: what is left of the snapshot it was opened on.
PMapWalkInit(m, i, e) == SetReg(m, i[2], <<"cursor", e, e>>)

PMapYield(m, i, c, ks, kv) ==
    IF ks = <<>> THEN Jump(m, i[4])
    ELSE SetReg(SetReg([m EXCEPT !.tx = read_node(@, c[2], kv)], i[2],
                       <<"cursor", c[2], Without(c[3], ks[1])>>), i[3], c[3][ks[1]])
PMapWalkNext(m, i, kv) == PMapYield(m, i, Reg(m, i[2]), SortedKeys(Reg(m, i[2])[3]), kv)

\* The cursor of a pbtree: the last key it yielded; every step reads the root again.
PBTreeWalkInit(m, i) == SetReg(m, i[2], <<"bcursor", i[3], i[4], <<>>>>)

PBTreeYield(m, i, c, e, ks) ==
    IF ks = <<>> THEN Jump(m, i[4])
    ELSE SetReg(SetReg(m, i[2], <<"bcursor", c[2], c[3], <<ks[1]>>>>), i[3], e[ks[1]])
PBTreeWalkNext(m, i, e) ==
    LET c == Reg(m, i[2])
    IN  PBTreeYield(m, i, c, e, SelectSeq(SortedKeys(e), LAMBDA k : c[4] = <<>> \/ KeyLess(c[4][1], k)))

InBounds(k, e) == IsCount(k) /\ k[2] + 1 \in DOMAIN e

PVecGet(m, i, e) ==
    LET k == Reg(m, i[5])
    IN  Deliver(m, i[2], IF ~IsCount(k) THEN Err("type")
                         ELSE IF InBounds(k, e) THEN Ok(e[k[2] + 1]) ELSE Err("bounds"))
PVecLen(m, i, e) == SetReg(m, i[2], VU64(Len(e)))
PVecToArray(m, i, e) == SetReg(m, i[2], VArray(e))

\* The new contents.  Put and Delete always write the root, the operations on
\* indexes when they change it.
Update(m, i, e, op) == Changed(op, e, Reg(m, i[4]), Reg(m, i[5]))
PMapPut(m, i, e) == Update(m, i, e, "Put")
PBTreePut(m, i, e) == Update(m, i, e, "Put")
PMapPutUnique(m, i, e) == Update(m, i, e, "PutUnique")
PBTreePutUnique(m, i, e) == Update(m, i, e, "PutUnique")
PMapAppendUnique(m, i, e) == Update(m, i, e, "AppendUnique")
PBTreeAppendUnique(m, i, e) == Update(m, i, e, "AppendUnique")
PMapDelete(m, i, e) == Update(m, i, e, "Delete")
PBTreeDelete(m, i, e) == Update(m, i, e, "Delete")
PMapRemoveUnique(m, i, e) == Update(m, i, e, "RemoveUnique")
PBTreeRemoveUnique(m, i, e) == Update(m, i, e, "RemoveUnique")
PMapRemoveFromList(m, i, e) == Update(m, i, e, "RemoveFromList")
PBTreeRemoveFromList(m, i, e) == Update(m, i, e, "RemoveFromList")
PVecSet(m, i, e) == [e EXCEPT ![Reg(m, i[4])[2] + 1] = Reg(m, i[5])]
PVecPush(m, i, e) == Append(e, Reg(m, i[5]))

\* The error of an edit, if any.  An index of type u64 is refused by set, not by get.
Refusal(m, i, e) ==
    CASE i[1] \in {"PMapPutUnique", "PBTreePutUnique"} /\ Refused("PutUnique", e, Reg(m, i[4]), Reg(m, i[5])) -> "unique"
      [] i[1] = "PVecSet" /\ Reg(m, i[4])[1] # "int" -> "type"
      [] i[1] = "PVecSet" /\ Reg(m, i[4])[1] = "int" /\ ~InBounds(Reg(m, i[4]), e) -> "bounds"
      [] OTHER -> ""

Edits == Updates \cup {"PVecSet", "PVecPush"}
Edited(m, i, e) ==
    CASE i[1] = "PMapPut" -> PMapPut(m, i, e)
      [] i[1] = "PBTreePut" -> PBTreePut(m, i, e)
      [] i[1] = "PMapPutUnique" -> PMapPutUnique(m, i, e)
      [] i[1] = "PBTreePutUnique" -> PBTreePutUnique(m, i, e)
      [] i[1] = "PMapAppendUnique" -> PMapAppendUnique(m, i, e)
      [] i[1] = "PBTreeAppendUnique" -> PBTreeAppendUnique(m, i, e)
      [] i[1] = "PMapDelete" -> PMapDelete(m, i, e)
      [] i[1] = "PBTreeDelete" -> PBTreeDelete(m, i, e)
      [] i[1] = "PMapRemoveUnique" -> PMapRemoveUnique(m, i, e)
      [] i[1] = "PBTreeRemoveUnique" -> PBTreeRemoveUnique(m, i, e)
      [] i[1] = "PMapRemoveFromList" -> PMapRemoveFromList(m, i, e)
      [] i[1] = "PBTreeRemoveFromList" -> PBTreeRemoveFromList(m, i, e)
      [] i[1] = "PVecSet" -> PVecSet(m, i, e)
      [] i[1] = "PVecPush" -> PVecPush(m, i, e)

\* Write the nodes of the new contents and the root; a push returns the index.
Pushed(m, i, e) == IF i[1] = "PVecPush" THEN SetReg(m, i[2], VU64(Len(e))) ELSE m
Written(m, i, e, edited, kv) ==
    IF edited = e /\ i[1] \notin {"PMapPut", "PBTreePut", "PMapDelete", "PBTreeDelete", "PVecSet"} THEN m
    ELSE Pushed(WithTx(m, plant(m.tx, Subject(m, i)[1], Subject(m, i)[2][1], edited, kv)), i, e)

Edit(m, i, e, kv) ==
    IF Refusal(m, i, e) # "" THEN Fail(m, Refusal(m, i, e)) ELSE Written(m, i, e, Edited(m, i, e), kv)

\* The instructions that read the root of a collection.
Openers == Edits \cup {"PMapGet", "PBTreeGet", "PMapContains", "PBTreeContains", "PMapEntries", "PMapKeys",
                       "PMapValues", "PBTreeRange", "PMapWalkInit", "PBTreeWalkNext", "PVecGet", "PVecLen",
                       "PVecToArray"}

PerformOpened(m, i, e, kv) ==
    CASE i[1] \in Edits -> Edit(m, i, e, kv)
      [] i[1] = "PMapGet" -> PMapGet(m, i, e)
      [] i[1] = "PBTreeGet" -> PBTreeGet(m, i, e)
      [] i[1] = "PMapContains" -> PMapContains(m, i, e)
      [] i[1] = "PBTreeContains" -> PBTreeContains(m, i, e)
      [] i[1] = "PMapEntries" -> PMapEntries(m, i, e)
      [] i[1] = "PMapKeys" -> PMapKeys(m, i, e)
      [] i[1] = "PMapValues" -> PMapValues(m, i, e)
      [] i[1] = "PBTreeRange" -> PBTreeRange(m, i, e)
      [] i[1] = "PMapWalkInit" -> PMapWalkInit(m, i, e)
      [] i[1] = "PBTreeWalkNext" -> PBTreeWalkNext(m, i, e)
      [] i[1] = "PVecGet" -> PVecGet(m, i, e)
      [] i[1] = "PVecLen" -> PVecLen(m, i, e)
      [] i[1] = "PVecToArray" -> PVecToArray(m, i, e)

\* Whether the nodes are read after the root.
Descends(m, i, e) ==
    /\ i[1] \notin {"PMapGet", "PMapWalkInit", "PVecLen"}
    /\ i[1] = "PVecGet" => InBounds(Reg(m, i[5]), e)
    /\ Refusal(m, i, e) \notin {"type", "bounds"}

AtRoot(m, i, r, kv) ==
    PerformOpened([m EXCEPT !.tx = IF Descends(m, i, r.v[2])
                                   THEN read_contents(r.tx, Subject(m, i)[2][1], r.v[2], kv) ELSE r.tx],
                  i, r.v[2], kv)
Open(m, i, kv) == AtRoot(m, i, Root(m, Subject(m, i)[1], Subject(m, i)[2], kv), kv)

-----------------------------------------------------------------------------
(* Parallel legs.  A batch remembers how each leg starts; the legs run on    *)
(* shadows of the tx, and when all have stopped their deltas are merged in   *)
(* order, a leg that read what an earlier one wrote being run again.         *)

Machine(tx, fuel) == [tx |-> tx, frames |-> <<>>, fuel |-> fuel, status |-> "run",
                      result |-> VUnit, skip |-> FALSE, batch |-> <<>>]

\* A leg: a handler called with the event, or a range of the current function
\* on a copy of the registers, with some of them set.
Leg(m, spec) ==
    LET sub == Machine(shadow_of(m.tx), m.fuel)
    IN  IF spec[1] = "call" THEN call(sub, spec[2], <<spec[3]>>, 0)
        ELSE [sub EXCEPT !.frames = <<[Top(m) EXCEPT !.pc = spec[2], !.dst = 0, !.nore = FALSE,
                                                     !.regs = FoldLeft(LAMBDA rs, p : [rs EXCEPT ![p[1]] = p[2]],
                                                                       @, spec[3])]>>]

\* `bind' says for each leg which register takes its result; `out' is the
\* register of a parallel for and the output so far.
Begin(m, specs, bind, out) ==
    [m EXCEPT !.batch = [specs |-> specs, legs |-> [j \in DOMAIN specs |-> Leg(m, specs[j])],
                         i |-> 1, bw |-> {}, budget |-> m.fuel, redo |-> FALSE, pre |-> 0,
                         bind |-> bind, out |-> out]]

\* Emit: log the event, then dispatch_handlers_parallel; a single handler is
\* called inline.
Dispatch(m, v, hs, prog) ==
    IF hs = <<>> THEN m
    ELSE IF Len(hs) = 1 THEN call(m, prog.fns[hs[1]], <<v>>, 0)
    ELSE Begin(m, [j \in DOMAIN hs |-> <<"call", prog.fns[hs[j]], v>>], [j \in DOMAIN hs |-> 0], <<>>)

Emit(m, i, prog) ==
    LET v == Reg(m, i[2])
    IN  IF v[1] # "struct" THEN Fail(m, "type")
        ELSE Dispatch([m EXCEPT !.tx.events = Append(@, <<v[2], [j \in DOMAIN v[3] |-> v[3][j][2]]>>)], v,
                      IF v[2] \in DOMAIN prog.handlers THEN prog.handlers[v[2]] ELSE <<>>, prog)

ParallelBegin(m, i) ==
    Goto(Begin(m, [j \in DOMAIN i[2] |-> <<"range", i[2][j][1], <<>>>>],
               [j \in DOMAIN i[2] |-> i[2][j][2]], <<>>), i[3])

\* <<op, body, source, output, id, index, after>>.
ParallelForBegin(m, i) ==
    LET src == Reg(m, i[3])
        dst == Reg(m, i[4])
    IN  IF src[1] # "array" \/ dst[1] # "array" THEN Fail(m, "type")
        ELSE IF Len(src[2]) # Len(dst[2]) THEN Fail(m, "length")
        ELSE Goto(Begin(m, [j \in DOMAIN src[2] |->
                               <<"range", i[2], <<<<i[5], src[2][j]>>, <<i[6], VInt(j - 1)>>>>>>],
                        [j \in DOMAIN src[2] |-> 0], <<i[4], dst[2]>>), i[7])

ParallelYield(m, i) ==
    [m EXCEPT !.status = "done", !.result = IF i[2] = 0 THEN VUnit ELSE Reg(m, i[2])]

Saturating(a, b) == IF a < b THEN 0 ELSE a - b

\* The result of leg j in its register or its slot; a skipped slot keeps its default.
Bound(m, j, leg) ==
    IF m.batch.out # <<>>
    THEN IF leg.skip THEN m ELSE [m EXCEPT !.batch.out[2][j] = leg.result]
    ELSE IF m.batch.bind[j] = 0 THEN m ELSE SetReg(m, m.batch.bind[j], leg.result)

Merged(m, leg) ==
    [m EXCEPT !.tx = merge_delta(@, into_delta(leg.tx)),
              !.batch.bw = @ \cup DOMAIN leg.tx.writes,
              !.batch.i = @ + 1, !.batch.redo = FALSE]

\* After the last leg the output of a parallel for is assigned.
EndBatch(m) ==
    LET n == [m EXCEPT !.batch = <<>>]
    IN  IF m.batch.out = <<>> THEN n ELSE SetReg(n, m.batch.out[1], VArray(m.batch.out[2]))

\* Mutant: the deltas are merged without looking for conflicts.
MergeBlindly(m) ==
    LET leg == m.batch.legs[m.batch.i]
        n   == [m EXCEPT !.fuel = Saturating(@, m.batch.budget - leg.fuel)]
    IN  IF m.batch.i > Len(m.batch.legs) THEN EndBatch(m)
        ELSE IF leg.status = "panic" THEN Panic(m)
        ELSE IF leg.status = "err" THEN Fail(m, leg.result[1])
        ELSE Merged(Bound(n, m.batch.i, leg), leg)

\* The next leg in order: its error ends the run, a conflict runs it again on
\* the merged tx with what is left of the fuel, otherwise its delta is merged.
Merge(m) ==
    LET b   == m.batch
        leg == b.legs[b.i]
        n   == [m EXCEPT !.fuel = Saturating(@, (IF b.redo THEN b.pre ELSE b.budget) - leg.fuel)]
        clash == ~b.redo /\ DOMAIN leg.tx.reads \cap b.bw # {}
    IN  IF b.i > Len(b.legs) THEN EndBatch(m)
        ELSE IF leg.status = "panic" THEN Panic(m)
        ELSE IF leg.status = "err" THEN Fail(m, leg.result[1])
        ELSE IF clash THEN [n EXCEPT !.batch.legs[b.i] = Leg(n, b.specs[b.i]),
                                     !.batch.redo = TRUE, !.batch.pre = n.fuel]
        ELSE Merged(Bound(n, b.i, leg), leg)

-----------------------------------------------------------------------------
(* One instruction.                                                          *)

Perform(m, i, prog, kv) ==
    CASE i[1] = "LoadConst" -> SetReg(m, i[2], i[3])
      [] i[1] = "Move" -> SetReg(m, i[2], Reg(m, i[3]))
      [] i[1] = "Convert" -> Convert(m, i)
      [] i[1] = "Bin" -> Bin(m, i)
      [] i[1] = "Un" -> Un(m, i)
      [] i[1] = "Jump" -> Jump(m, i[2])
      [] i[1] = "JumpIfFalse" -> JumpIfFalse(m, i)
      [] i[1] = "Call" -> call(m, prog.fns[i[3]], Args(m, i[4], i[5]), i[2])
      [] i[1] = "CallExternal" -> CallExternal(m, i, prog)
      [] i[1] = "MakeInterface" -> MakeInterface(m, i, prog)
      [] i[1] = "CallExternalDyn" -> CallExternalDyn(m, i, prog)
      [] i[1] = "Return" -> Return(m, Reg(m, i[2]))
      [] i[1] = "ReturnUnit" -> Return(m, VUnit)
      [] i[1] = "BuiltinResource" -> BuiltinResource(m, i)
      [] i[1] = "BuiltinUnwrap" -> BuiltinUnwrap(m, i)
      [] i[1] = "BuiltinLen" -> BuiltinLen(m, i)
      [] i[1] = "BuiltinCall" -> BuiltinCall(m, i)
      [] i[1] = "MakeArray" -> MakeArray(m, i)
      [] i[1] = "MakeTuple" -> MakeTuple(m, i)
      [] i[1] = "MakeSet" -> MakeSet(m, i)
      [] i[1] = "MakeDict" -> MakeDict(m, i)
      [] i[1] = "MakeStruct" -> MakeStruct(m, i)
      [] i[1] = "MakeEnum" -> MakeEnum(m, i)
      [] i[1] = "ArrayAlloc" -> ArrayAlloc(m, i)
      [] i[1] = "ArrayAppend" -> ArrayAppend(m, i)
      [] i[1] = "ArrayGet" -> ArrayGet(m, i)
      [] i[1] = "TupleGet" -> TupleGet(m, i)
      [] i[1] = "FieldGet" -> FieldGet(m, i)
      [] i[1] = "FieldSet" -> FieldSet(m, i)
      [] i[1] = "EnumTag" -> EnumTag(m, i, prog)
      [] i[1] = "EnumPayload" -> EnumPayload(m, i)
      [] i[1] = "IncReg" -> IncReg(m, i)
      [] i[1] = "Context" -> Context(m, i, prog)
      [] i[1] = "KvGet" -> KvGet(m, i, kv)
      [] i[1] = "KvPut" -> KvPut(m, i, kv)
      [] i[1] = "KvGetPath" -> KvGetPath(m, i, kv)
      [] i[1] = "KvPutPath" -> KvPutPath(m, i, kv)
      [] i[1] = "MapGet" -> MapGet(m, i, kv)
      [] i[1] = "MapPut" -> MapPut(m, i, kv)
      [] i[1] = "PrefetchMap" -> PrefetchMap(m, i, kv)
      [] i[1] = "ReadBatch" -> ReadBatch(m, i, kv)
      [] i[1] = "Reserve" -> Reserve(m, i, kv)
      [] i[1] \in Openers -> Open(m, i, kv)
      [] i[1] = "PMapWalkNext" -> PMapWalkNext(m, i, kv)
      [] i[1] = "PBTreeWalkInit" -> PBTreeWalkInit(m, i)
      [] i[1] = "Emit" -> Emit(m, i, prog)
      [] i[1] = "ParallelBegin" -> ParallelBegin(m, i)
      [] i[1] = "ParallelForBegin" -> ParallelForBegin(m, i)
      [] i[1] = "ParallelYield" -> ParallelYield(m, i)
      [] i[1] = "ParallelForSkip" -> ParallelForSkip(m)

ExecForced(m, i, prog, kv) == IF Running(m) THEN Perform(m, i, prog, kv) ELSE m
Exec(m, i, prog, kv) == ExecForced(WithOperands(m, i, kv), i, prog, kv)

\* Mutant: an instruction costs nothing.
call_body_free(m, prog, kv) ==
    LET f == Top(m)
    IN  IF f.pc \notin DOMAIN f.code THEN Fail(m, "pc")
        ELSE Exec(Goto(m, f.pc + 1), f.code[f.pc], prog, kv)

\* tick, fetch, advance, execute.
call_body_at(m, prog, kv) ==
    LET f == Top(m)
    IN  IF m.fuel = 0 THEN Fail(m, "fuel")
        ELSE IF f.pc \notin DOMAIN f.code THEN Fail([m EXCEPT !.fuel = @ - 1], "pc")
        ELSE Exec(Goto([m EXCEPT !.fuel = @ - 1], f.pc + 1), f.code[f.pc], prog, kv)

\* The successors of a running machine: a step of any leg that runs, the merge
\* of the next leg once all have stopped, or the next instruction.
RECURSIVE Steps(_, _, _)
Steps(m, prog, kv) ==
    LET busy == {j \in DOMAIN m.batch.legs : Running(m.batch.legs[j])}
    IN  IF m.batch = <<>> THEN {call_body_at(m, prog, kv)}
        ELSE IF busy = {} THEN {Merge(m)}
        ELSE UNION {{[m EXCEPT !.batch.legs[j] = s] : s \in Steps(m.batch.legs[j], prog, kv)} : j \in busy}

\* run_world: lazy reads for the run; at the end the result is forced and the
\* queue is flushed, whether the call succeeded or not.
run_world(prog, name, args, fuel) ==
    IF name \notin DOMAIN prog.fns THEN Fail(Machine(new(TRUE), fuel), "unknown")
    ELSE call(Machine(new(TRUE), fuel), prog.fns[name], args, 0)

finish(m, kv) ==
    LET f == force(m.tx, m.result, kv)
        n == IF m.status = "done" THEN [m EXCEPT !.tx = f.tx, !.result = f.v] ELSE m
    IN  IF m.status = "done" /\ f.panic THEN Panic(m)
        ELSE [n EXCEPT !.tx = [flush_pending(@, kv) EXCEPT !.lazy = FALSE]]
=============================================================================
