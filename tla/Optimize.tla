------------------------------ MODULE Optimize ------------------------------
(***************************************************************************)
(* Read clustering (crates/rend/src/optimize.rs): the state reads of a     *)
(* straight run of instructions are moved to the place of the first one    *)
(* and become one ReadBatch, the instructions between them follow it.      *)
(***************************************************************************)
EXTENDS Integers, SequencesExt, Effects

Span(start, n) == start..(start + n - 1)

\* The registers an instruction reads.
Sources(i) ==
    CASE i[1] \in {"Move", "Convert", "BuiltinResource", "BuiltinUnwrap", "BuiltinLen", "FieldGet",
                   "EnumTag", "EnumPayload", "TupleGet", "Reserve"} -> {i[3]}
      [] i[1] \in {"JumpIfFalse", "Return", "IncReg", "Emit", "ParallelYield",
                   "PMapWalkNext", "PBTreeWalkNext"} -> {i[2]}
      [] i[1] \in {"Un", "KvPut", "KvPutPath", "PrefetchMap", "MakeInterface"} -> {i[4]}
      [] i[1] \in {"MapGet", "PMapGet", "PBTreeGet", "PMapContains", "PBTreeContains", "PVecGet",
                   "PVecPush"} -> {i[5]}
      [] i[1] \in {"ArrayGet", "ArrayAppend", "ArrayAlloc", "ParallelForBegin"} -> {i[3], i[4]}
      [] i[1] = "FieldSet" -> {i[2], i[4]}
      [] i[1] = "PBTreeRange" -> {i[5], i[6]}
      [] i[1] \in {"Call", "CallExternal", "BuiltinCall"} -> Span(i[4], i[5])
      [] i[1] = "CallExternalDyn" -> {i[3]} \cup Span(i[5], i[6])
      [] i[1] \in {"MakeArray", "MakeTuple", "MakeSet"} -> Span(i[3], i[4])
      [] i[1] = "MakeDict" -> Span(i[3], 2 * i[4])
      [] i[1] = "MakeStruct" -> Span(i[5], Len(i[4]))
      [] i[1] = "MakeEnum" -> Span(i[5], i[6])
      [] i[1] \in {"LoadConst", "Jump", "ReturnUnit", "ReadBatch", "ParallelBegin", "ParallelForSkip",
                   "Context", "KvGet", "KvGetPath", "PVecLen", "PVecToArray", "PMapEntries", "PMapKeys",
                   "PMapValues", "PMapWalkInit", "PBTreeWalkInit"} -> {}
      [] OTHER -> {i[4], i[5]}

reads_pending_dst(i, pending) == Sources(i) \cap pending # {}

Writers == {"KvPut", "KvPutPath", "MapPut", "PMapPut", "PMapPutUnique", "PMapAppendUnique", "PMapDelete",
            "PMapRemoveUnique", "PMapRemoveFromList", "PBTreePut", "PBTreePutUnique", "PBTreeAppendUnique",
            "PBTreeDelete", "PBTreeRemoveUnique", "PBTreeRemoveFromList", "PVecSet", "PVecPush", "Reserve"}
Fences  == {"Jump", "JumpIfFalse", "Return", "ReturnUnit", "ParallelBegin", "ParallelYield",
            "ParallelForBegin", "ParallelForSkip"}

\* Whether reads may not move above instruction i.  An emit is no fence.
cluster_breaker(i, effects) ==
    CASE i[1] \in Writers \cup Fences -> TRUE
      [] i[1] = "CallExternal" -> ~i[6]
      [] i[1] = "CallExternalDyn" -> ~i[7]
      [] i[1] = "Call" -> effects[i[3]] \notin {Pure, ReadOnly}
      [] OTHER -> FALSE

-----------------------------------------------------------------------------
\* An optimizer: the code so far, the reads of the open cluster and the other
\* instructions seen since its first read, all with their old places, and the
\* new place of each old instruction; `old' is the instruction it visits next.
Unoptimized == [code |-> <<>>, reads |-> <<>>, rest |-> <<>>, at |-> <<>>, old |-> 1]

Place(z, old, i) == [z EXCEPT !.at = (old :> Len(z.code) + 1) @@ @, !.code = Append(@, i)]

\* flush: the reads first, as one batch when there are several.
flush(z) ==
    LET n == Len(z.reads)
        batch == <<"ReadBatch", [j \in 1..n |-> <<z.reads[j][2][2], z.reads[j][2][3], z.reads[j][2][4]>>]>>
        olds  == {z.reads[j][1] : j \in 1..n}
        y == IF n = 0 THEN z
             ELSE IF n = 1 THEN Place(z, z.reads[1][1], z.reads[1][2])
             ELSE [z EXCEPT !.code = Append(@, batch), !.at = [o \in olds |-> Len(z.code) + 1] @@ @]
    IN  FoldLeft(LAMBDA x, p : Place(x, p[1], p[2]), [y EXCEPT !.reads = <<>>, !.rest = <<>>], z.rest)

Visit(z, i, effects) ==
    LET pending == {z.reads[j][2][2] : j \in DOMAIN z.reads}
        y == [z EXCEPT !.old = @ + 1]
    IN  IF i[1] \in {"KvGet", "KvGetPath"} THEN [y EXCEPT !.reads = Append(@, <<z.old, i>>)]
        ELSE IF cluster_breaker(i, effects) \/ reads_pending_dst(i, pending) THEN Place(flush(y), z.old, i)
        ELSE IF z.reads # <<>> THEN [y EXCEPT !.rest = Append(@, <<z.old, i>>)]
        ELSE Place(y, z.old, i)

RECURSIVE Visited(_, _, _)
Visited(z, code, effects) ==
    IF z.old > Len(code) THEN flush(z) ELSE Visited(Visit(z, code[z.old], effects), code, effects)

\* Jumps lead to the new place of their old target; nothing else that holds a
\* place in the code is changed.
Relinked(z, n) ==
    LET Old(pc) == CHOOSE o \in DOMAIN z.at : z.at[o] = pc
        Target(pc, off) == LET t == Old(pc) + 1 + off IN IF t > n THEN Len(z.code) + 1 ELSE z.at[t]
    IN  [pc \in DOMAIN z.code |->
            LET i == z.code[pc]
            IN  IF i[1] = "Jump" THEN <<i[1], Target(pc, i[2]) - pc - 1>>
                ELSE IF i[1] = "JumpIfFalse" THEN <<i[1], i[2], Target(pc, i[3]) - pc - 1>>
                ELSE i]

optimize_fn(f, effects) ==
    [f EXCEPT !.code = Relinked(Visited(Unoptimized, f.code, effects), Len(f.code))]

optimize(prog, effects) == [prog EXCEPT !.fns = [n \in DOMAIN @ |-> optimize_fn(@[n], effects)]]
=============================================================================
