-------------------------------- MODULE Tx --------------------------------
(***************************************************************************)
(* The transaction buffer (crates/rend/src/tx.rs): read set, write set,    *)
(* lazily queued reads, lazy walks of persistent maps, and the shadows on  *)
(* which parallel legs run.  Every operation is an operator from a tx and  *)
(* the store `kv' it reads to the tx after it, so that the modules that    *)
(* execute programs decide between which operations others may commit.     *)
(*                                                                         *)
(* A cell is a tuple: <<state>>, a field's <<state, field, ...>>, a map    *)
(* entry's <<state, key>>.  The nodes of a persistent map are content      *)
(* addressed: the cell of a node is <<"node", contents>>.  The maps of the *)
(* instances fit into one leaf; Hamt models the inner nodes.               *)
(***************************************************************************)
EXTENDS Values

Put(f, k, v) == (k :> v) @@ f
Has(f, k)    == k \in DOMAIN f
child(cell, name) == Append(cell, name)
NodeCell(entries) == <<"node", entries>>

\* An ancestor as a shadow sees it: `up' lists the ancestors, nearest first.
Overlay(tx) == [writes |-> tx.writes, reads |-> tx.reads]

\* Tx::new; `lazy' is switched on by the VM for the run.
new(lazy) == [reads |-> <<>>, writes |-> <<>>, pending |-> <<>>, resolved |-> <<>>,
              next_handle |-> 1, walks |-> <<>>, events |-> <<>>, nodes |-> {},
              nore |-> {}, lazy |-> lazy, up |-> <<>>]

\* Mutant: a shadow starts without the functions its ancestors are in.
shadow_unguarded(tx) == [new(tx.lazy) EXCEPT !.next_handle = tx.next_handle, !.up = <<Overlay(tx)>> \o tx.up]

shadow_of(tx) == [new(tx.lazy) EXCEPT !.next_handle = tx.next_handle, !.nore = tx.nore,
                                      !.up = <<Overlay(tx)>> \o tx.up]

into_delta(tx) == [reads |-> tx.reads, writes |-> tx.writes, events |-> tx.events,
                   nodes |-> tx.nodes]

merge_delta(tx, d) == [tx EXCEPT !.reads = @ @@ d.reads, !.writes = d.writes @@ @,
                                 !.events = @ \o d.events, !.nodes = @ \cup d.nodes]

parent_knows(tx, cell) == \E i \in DOMAIN tx.up : Has(tx.up[i].writes, cell)
                                               \/ Has(tx.up[i].reads, cell)

\* The nearest ancestor that knows the cell answers, its writes before its reads.
parent_lookup(tx, cell) ==
    LET i == SelectInSeq(tx.up, LAMBDA o : Has(o.writes, cell) \/ Has(o.reads, cell))
    IN  (tx.up[i].writes @@ tx.up[i].reads)[cell]

StoreValue(kv, cell, ty) == IF Has(kv, cell) THEN kv[cell] ELSE default_for(ty)

\* What a tx sees of a cell that neither its writes nor its reads hold.
Outside(tx, cell, ty, kv) ==
    IF parent_knows(tx, cell) THEN parent_lookup(tx, cell) ELSE StoreValue(kv, cell, ty)

Cached(tx, cell) == Has(tx.writes, cell) \/ Has(tx.reads, cell)
CacheValue(tx, cell) == (tx.writes @@ tx.reads)[cell]

-----------------------------------------------------------------------------
(* Lazy values.  contains_pending and substitute_resolved look into arrays,  *)
(* sets, tuples, dictionaries and structs, not into the payload of an enum.  *)

RECURSIVE Handles(_)
Handles(v) ==
    CASE v[1] = "pending" -> {v[2]}
      [] v[1] \in {"array", "set", "tuple"} -> UNION {Handles(v[2][i]) : i \in DOMAIN v[2]}
      [] v[1] = "struct" -> UNION {Handles(v[3][i][2]) : i \in DOMAIN v[3]}
      [] v[1] = "dict" -> UNION {Handles(v[2][i][1]) \cup Handles(v[2][i][2]) : i \in DOMAIN v[2]}
      [] OTHER -> {}

contains_pending(v) == Handles(v) # {}

RECURSIVE substitute_resolved(_, _)
substitute_resolved(v, res) ==
    LET Sub(w) == substitute_resolved(w, res)
    IN  CASE v[1] = "pending" -> res[v[2]]
          [] v[1] \in {"array", "set", "tuple"} -> <<v[1], [i \in DOMAIN v[2] |-> Sub(v[2][i])]>>
          [] v[1] = "struct" -> VStruct(v[2], [i \in DOMAIN v[3] |-> <<v[3][i][1], Sub(v[3][i][2])>>])
          [] v[1] = "dict" -> VDict([i \in DOMAIN v[2] |-> <<Sub(v[2][i][1]), Sub(v[2][i][2])>>])
          [] OTHER -> v

\* One get_many for the queue.  What it fetches replaces an entry of the read set.
flush_pending(tx, kv) ==
    FoldLeft(LAMBDA t, p : LET v == Outside(tx, p.cell, p.ty, kv)
                           IN  [t EXCEPT !.reads = Put(@, p.cell, v),
                                         !.resolved = Put(@, p.id, v)],
             [tx EXCEPT !.pending = <<>>], tx.pending)

\* begin_pmap_get: an empty map answers at once, otherwise a walk is queued.
begin_pmap_get(tx, root, key, valty) ==
    IF root = <<>> THEN [tx |-> tx, v |-> default_for(valty)]
    ELSE [tx |-> [tx EXCEPT !.next_handle = @ + 1,
                            !.walks = Append(@, [id |-> tx.next_handle, cell |-> NodeCell(root),
                                                 key |-> key, ty |-> valty])],
          v  |-> VPending(tx.next_handle)]

\* The source of a node: the caches or, recorded in the read set, the outside.
NodeSource(tx, cell, kv) ==
    IF Cached(tx, cell) THEN tx
    ELSE [tx EXCEPT !.reads = Put(@, cell, Outside(tx, cell, <<"bytes">>, kv))]

\* Every walk ends at its leaf: the value under the key, or the default.
advance_walks(tx, kv) ==
    FoldLeft(LAMBDA t, w :
                 LET u == NodeSource(t, w.cell, kv)
                     entries == CacheValue(u, w.cell)[2]
                 IN  [u EXCEPT !.resolved =
                         Put(@, w.id, IF Has(entries, w.key) THEN entries[w.key]
                                      ELSE default_for(w.ty))],
             [tx EXCEPT !.walks = <<>>], tx.walks)

\* The tx after a force that finds something to resolve.
Drained(tx, kv) == advance_walks(flush_pending(tx, kv), kv)

\* force: unchanged unless the value is lazy.  `expect("flushed")': a handle
\* the tx has not resolved is a panic.
Resolve(t, v) ==
    IF Handles(v) \subseteq DOMAIN t.resolved
    THEN [tx |-> t, v |-> substitute_resolved(v, t.resolved), panic |-> FALSE]
    ELSE [tx |-> t, v |-> v, panic |-> TRUE]
force(tx, v, kv) ==
    IF contains_pending(v) THEN Resolve(Drained(tx, kv), v) ELSE [tx |-> tx, v |-> v, panic |-> FALSE]

-----------------------------------------------------------------------------
(* Reads and writes.                                                         *)

\* Queue a read and hand out its handle.
Queue(tx, cell, ty) ==
    [tx |-> [tx EXCEPT !.next_handle = @ + 1,
                       !.pending = Append(@, [id |-> tx.next_handle, cell |-> cell, ty |-> ty])],
     v  |-> VPending(tx.next_handle)]

\* Record what a cell outside the tx holds, and return it.
Observe(tx, cell, ty, kv) ==
    LET v == Outside(tx, cell, ty, kv)
    IN  [tx |-> [tx EXCEPT !.reads = Put(@, cell, v)], v |-> v]

read(tx, cell, ty, kv) ==
    IF Cached(tx, cell) THEN [tx |-> tx, v |-> CacheValue(tx, cell)]
    ELSE Observe(tx, cell, ty, kv)

read_cell(tx, cell, ty, kv) ==
    IF Cached(tx, cell) THEN [tx |-> tx, v |-> CacheValue(tx, cell)]
    ELSE IF parent_knows(tx, cell) \/ ~tx.lazy THEN Observe(tx, cell, ty, kv)
    ELSE Queue(tx, cell, ty)

\* The type of a field of a struct.
FieldType(ty, f) == ty[3][SelectInSeq(ty[3], LAMBDA d : d[1] = f)][2]

GroupFields(ty, g) == SelectSeq(ty[3], LAMBDA f :
                          \E i \in DOMAIN ty[3] : ty[3][i] = f /\ ty[4][i] = g)
GroupType(ty, g) == <<"struct", g, GroupFields(ty, g), [i \in DOMAIN GroupFields(ty, g) |-> ""]>>

\* collect_leaves: the cells a typed value is spread over, with their types.
RECURSIVE collect_leaves(_, _)
collect_leaves(cell, ty) ==
    IF ty[1] # "struct" THEN {<<cell, ty>>}
    ELSE UNION {IF ty[4][i] = "" THEN collect_leaves(child(cell, ty[3][i][1]), ty[3][i][2])
                ELSE {<<child(cell, ty[4][i]), GroupType(ty, ty[4][i])>>} : i \in DOMAIN ty[3]}

FieldValue(v, name) == v[3][SelectInSeq(v[3], LAMBDA f : f[1] = name)][2]

\* reassemble: the typed value from those of its leaves.
RECURSIVE reassemble(_, _, _)
reassemble(cell, ty, leaf) ==
    IF ty[1] # "struct" THEN leaf[cell]
    ELSE VStruct(ty[2], [i \in DOMAIN ty[3] |->
            <<ty[3][i][1],
              IF ty[4][i] = "" THEN reassemble(child(cell, ty[3][i][1]), ty[3][i][2], leaf)
              ELSE FieldValue(leaf[child(cell, ty[4][i])], ty[3][i][1])>>])

\* read_typed_many: cached leaves from the tx, the others with one get_many.
read_typed_many(tx, ops, kv) ==
    LET leaves == UNION {collect_leaves(ops[i][1], ops[i][2]) : i \in DOMAIN ops}
        fetch  == {l \in leaves : ~Cached(tx, l[1])}
        seen   == [c \in {l[1] : l \in fetch} |->
                      Outside(tx, c, (CHOOSE l \in fetch : l[1] = c)[2], kv)]
        known  == tx.writes @@ tx.reads @@ seen
    IN  [tx |-> [tx EXCEPT !.reads = seen @@ @],
         v  |-> [i \in DOMAIN ops |-> reassemble(ops[i][1], ops[i][2], known)]]

read_typed(tx, cell, ty, kv) ==
    IF ty[1] = "struct" THEN LET r == read_typed_many(tx, <<<<cell, ty>>>>, kv)
                             IN  [tx |-> r.tx, v |-> r.v[1]]
    ELSE IF Cached(tx, cell) THEN [tx |-> tx, v |-> CacheValue(tx, cell)]
    ELSE IF tx.lazy THEN Queue(tx, cell, ty)
    ELSE Observe(tx, cell, ty, kv)

Stored(f, cells) == [tx |-> [f.tx EXCEPT !.writes = cells @@ @], panic |-> f.panic]
StoredAt(f, cell) == Stored(f, cell :> f.v)
write(tx, cell, v, kv) == StoredAt(force(tx, v, kv), cell)

HasField(v, name) == \E i \in DOMAIN v[3] : v[3][i][1] = name
FieldOr(v, f) == IF HasField(v, f[1]) THEN FieldValue(v, f[1]) ELSE default_for(f[2])

build_group_blob(ty, g, v) ==
    VStruct(g, [i \in DOMAIN GroupFields(ty, g) |->
                   <<GroupFields(ty, g)[i][1], FieldOr(v, GroupFields(ty, g)[i])>>])

\* The cells a typed write covers: one per field, one per group.
RECURSIVE LeafWrites(_, _, _)
LeafWrites(cell, ty, v) ==
    IF ty[1] # "struct" \/ v[1] # "struct" THEN cell :> v
    ELSE FoldLeft(LAMBDA acc, i :
                      acc @@ IF ty[4][i] = ""
                             THEN LeafWrites(child(cell, ty[3][i][1]), ty[3][i][2], FieldOr(v, ty[3][i]))
                             ELSE child(cell, ty[4][i]) :> build_group_blob(ty, ty[4][i], v),
                  <<>>, [i \in DOMAIN ty[3] |-> i])

StoredTyped(f, cell, ty) == Stored(f, LeafWrites(cell, ty, f.v))
write_typed(tx, cell, ty, v, kv) == StoredTyped(force(tx, v, kv), cell, ty)

\* A cell read that is forced at once, and with it the whole queue.
ForcedRead(r, kv) == force(r.tx, r.v, kv)
read_node(tx, entries, kv) ==
    IF entries = <<>> THEN tx ELSE ForcedRead(read_cell(tx, NodeCell(entries), <<"bytes">>, kv), kv).tx

write_node(tx, entries) ==
    IF entries = <<>> THEN tx
    ELSE [tx EXCEPT !.writes = Put(@, NodeCell(entries), <<"bytes", entries>>),
                    !.nodes = @ \cup {NodeCell(entries)}]

nore_free(tx, f) == f \notin tx.nore
nore_enter(tx, f) == [tx EXCEPT !.nore = @ \cup {f}]
nore_exit(tx, f) == [tx EXCEPT !.nore = @ \ {f}]
=============================================================================
