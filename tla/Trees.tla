------------------------------- MODULE Trees -------------------------------
(***************************************************************************)
(* The life of a persistent collection (pmap, pvec or pbtree) in a store   *)
(* of node cells: optimistic transactions, the merge of occ.rs and the     *)
(* garbage collection of gc.rs.                                            *)
(*                                                                         *)
(* The collection of the store changes under a transaction that edits its  *)
(* own copy of the root it read; when the transaction is applied the roots *)
(* are equal, are merged, or the transaction is executed again.  The host  *)
(* sweeps node cells at any time.  Beside every root the machine keeps the *)
(* mapping it should represent (of a vector: from indexes), and a second   *)
(* state cell, never changed, shares the nodes of the first one's start.   *)
(***************************************************************************)
EXTENDS Naturals, Sequences, SequencesExt, FiniteSets, FiniteSetsExt

CONSTANTS
    Kinds,                  \* the kinds of collection to look at
    MAX_LEVELS, Hash,       \* of pmap
    BITS_PER_LEVEL,         \* of pvec
    B,                      \* of pbtree
    EMPTY, NotFound, NoMerge,
    Vals,
    Initial,                \* per kind: the (key, value) puts that made it
    Puts, Removals,         \* per kind: the pairs put and keys removed later
    Swept,                  \* the kinds whose nodes the host sweeps
    MaxOurs, MaxLive,       \* bound, per kind: edits by each side between two commits
    MaxRounds,              \* bound, per kind: commits and re-executions
    MaxLen                  \* bound: the length of a vector

H == INSTANCE Hamt
V == INSTANCE PVec
T == INSTANCE PBTree

EmptyRoot(kd) == IF kd = "pvec" THEN [len |-> 0, root |-> EMPTY] ELSE EMPTY
NodeOf(kd, root) == IF kd = "pvec" THEN root.root ELSE root

\* A vector is put at its length by pushing.  NotFound: the call fails.
Put(kd, root, k, v) ==
    CASE kd = "pmap" -> H!set(root, k, v)
      [] kd = "pbtree" -> T!set(root, k, v)
      [] kd = "pvec" /\ k = root.len -> V!push(root, v)
      [] OTHER -> V!set(root, k, v)

Delete(kd, root, k) == IF kd = "pmap" THEN H!remove(root, k) ELSE T!remove(root, k)

\* occ.rs has no merge for a B-tree.
Merge(kd, a, b, base) ==
    CASE kd = "pmap" -> H!merge_three_way(a, b, base)
      [] kd = "pvec" -> V!merge_three_way(a, b, base)
      [] OTHER -> NoMerge

\* The nodes of a tree.
RECURSIVE Below(_)
Below(n) ==
    IF n = EMPTY THEN {}
    ELSE {n} \cup IF "children" \in DOMAIN n
                  THEN UNION {Below(n.children[i]) : i \in DOMAIN n.children} ELSE {}
Nodes(kd, root) == Below(NodeOf(kd, root))

\* The node cells an operation writes.  One that is there already is written
\* again with the same contents.
WriteNodes(kd, old, new) == Nodes(kd, new) \ Nodes(kd, old)

Extended(f, k, v) == [j \in DOMAIN f \cup {k} |-> IF j = k THEN v ELSE f[j]]
Restricted(f, S) == [k \in S |-> f[k]]
At(f, k) == IF k \in DOMAIN f THEN f[k] ELSE NotFound

Built(kd) ==
    FoldLeft(LAMBDA t, e : LET r == Put(kd, t.root, e[1], e[2])
                           IN  [root |-> r, m |-> Extended(t.m, e[1], e[2]),
                                cells |-> t.cells \cup WriteNodes(kd, t.root, r)],
             [root |-> EmptyRoot(kd), m |-> <<>>, cells |-> {}], Initial[kd])

Start == [kd \in Kinds |-> Built(kd)]

-----------------------------------------------------------------------------

VARIABLES
    kind,
    live, ancestor, ours,    \* roots: the store's, the one the tx read, the tx's
    mlive, mancestor, mours, \* the mappings they should represent
    opsLive, opsOurs,        \* edits since the transaction began
    written,                 \* the node cells in the transaction's writes
    cells,                   \* the node cells of the store
    candidates,              \* those the host has been told of
    swept,                   \* the store was swept since the transaction began
    rounds

roots == <<live, ancestor, ours>>
mappings == <<mlive, mancestor, mours>>
vars == <<kind, roots, mappings, opsLive, opsOurs, written, cells, candidates, swept, rounds>>

Twin == Start[kind].root

\* The next transaction begins.
Restart(root, m) ==
    /\ rounds < MaxRounds[kind] /\ rounds' = rounds + 1
    /\ live' = root /\ ancestor' = root /\ ours' = root
    /\ mlive' = m /\ mancestor' = m /\ mours' = m
    /\ opsLive' = 0 /\ opsOurs' = 0 /\ written' = {} /\ swept' = FALSE
    /\ UNCHANGED kind

Init ==
    /\ kind \in Kinds
    /\ LET t == Start[kind]
       IN  /\ live = t.root /\ mlive = t.m
           /\ cells = t.cells /\ candidates = t.cells
    /\ ancestor = live /\ ours = live
    /\ mancestor = mlive /\ mours = mlive
    /\ opsLive = 0 /\ opsOurs = 0 /\ written = {} /\ swept = FALSE /\ rounds = 0

\* What one operation can make of a collection.
PutsOf(root, m) ==
    {<<Put(kind, root, e[1], e[2]), Extended(m, e[1], e[2])>> :
        e \in {p \in Puts[kind] : kind = "pvec" => p[1] <= root.len /\ p[1] < MaxLen}}
RemovalsOf(root, m) ==
    {<<Delete(kind, root, k), Restricted(m, DOMAIN m \ {k})>> : k \in Removals[kind]}
Edits(root, m) == {e \in PutsOf(root, m) \cup RemovalsOf(root, m) : e[1] # NotFound}

EditOurs ==
    /\ opsOurs < MaxOurs[kind] /\ rounds < MaxRounds[kind]
    /\ \E e \in Edits(ours, mours) :
          /\ ours' = e[1] /\ mours' = e[2]
          /\ written' = written \cup WriteNodes(kind, ours, e[1])
    /\ opsOurs' = opsOurs + 1
    /\ UNCHANGED <<kind, live, ancestor, mlive, mancestor, opsLive, cells, candidates, swept, rounds>>

\* Another transaction of one operation, executed and applied.
EditLive ==
    /\ opsLive < MaxLive[kind] /\ rounds < MaxRounds[kind]
    /\ \E e \in Edits(live, mlive) :
          /\ live' = e[1] /\ mlive' = e[2]
          /\ cells' = cells \cup WriteNodes(kind, live, e[1])
          /\ candidates' = candidates \cup WriteNodes(kind, live, e[1])
    /\ opsLive' = opsLive + 1
    /\ UNCHANGED <<kind, ancestor, ours, mancestor, mours, opsOurs, written, swept, rounds>>

\* The root that was read is the live one: the writes are applied, and the
\* host learns which of them are node cells.
Commit ==
    /\ live = ancestor
    /\ cells' = cells \cup written
    /\ candidates' = candidates \cup written
    /\ Restart(ours, mours)

\* The mapping a merge should produce: our edits on top of the live map.
Keys == DOMAIN mlive \cup DOMAIN mours \cup DOMAIN mancestor
Changed(m) == {k \in Keys : At(m, k) # At(mancestor, k)}
BothEdits ==
    LET from(k) == IF k \in Changed(mours) THEN mours ELSE mlive
        kept == {k \in Keys : k \in DOMAIN from(k)}
    IN  [k \in kept |-> from(k)[k]]

Merged == Merge(kind, ours, live, ancestor)

\* Mutant: only the nodes the merge makes are added to the store.
CommitMergeOnlyNew ==
    /\ live # ancestor /\ ~swept /\ Merged # NoMerge
    /\ cells' = cells \cup (Nodes(kind, Merged) \ (Nodes(kind, live) \cup Nodes(kind, ours)))
    /\ Restart(Merged, BothEdits)
    /\ UNCHANGED candidates

\* The root has changed and is merged with ours.  commit_batch has the store
\* for itself from its snapshot to its merges, and does not report node cells.
CommitMerge ==
    /\ live # ancestor /\ ~swept /\ Merged # NoMerge
    /\ cells' = cells \cup written \cup (Nodes(kind, Merged) \ (Nodes(kind, live) \cup Nodes(kind, ours)))
    /\ Restart(Merged, BothEdits)
    /\ UNCHANGED candidates

\* Otherwise the transaction is executed again on the live root.
Reexecute ==
    /\ live # ancestor /\ (swept \/ Merged = NoMerge)
    /\ Restart(live, mlive)
    /\ UNCHANGED <<cells, candidates>>

\* The nodes gc.rs finds to be live in the store kv: it walks maps and vectors.
LiveCells(kd, root, kv) ==
    CASE kd = "pmap" -> H!walk_reachable(root, kv)
      [] kd = "pvec" -> V!walk_reachable(root.root, kv)
      [] OTHER -> {}

Sweep ==
    /\ kind \in Swept
    /\ cells' = cells \ (candidates \ (LiveCells(kind, live, cells) \cup LiveCells(kind, Twin, cells)))
    /\ swept' = TRUE
    /\ UNCHANGED <<kind, roots, mappings, opsLive, opsOurs, written, candidates, rounds>>

Done == rounds = MaxRounds[kind] /\ UNCHANGED vars

Next ==
    \/ EditOurs \/ EditLive \/ Commit \/ CommitMerge \/ Reexecute \/ Sweep \/ Done

Spec == Init /\ [][Next]_vars

-----------------------------------------------------------------------------

Mapping(m) == \A k \in DOMAIN m : m[k] \in Vals

RECURSIVE IsNode(_)
IsNode(n) ==
    IF "children" \in DOMAIN n
    THEN n.children # <<>> /\ \A s \in DOMAIN n.children : IsNode(n.children[s])
    ELSE IF "elements" \in DOMAIN n THEN n.elements # <<>> ELSE n.entries # <<>>

\* The type invariant: a root is EMPTY or a tree without empty nodes, so that a
\* collection that lost its last key has the root of one that never had any.
TypeOK ==
    /\ \A root \in {live, ancestor, ours} : NodeOf(kind, root) = EMPTY \/ IsNode(NodeOf(kind, root))
    /\ Mapping(mlive) /\ Mapping(mancestor) /\ Mapping(mours)
    /\ opsLive \in 0 .. MaxLive[kind] /\ opsOurs \in 0 .. MaxOurs[kind]
    /\ rounds \in 0 .. MaxRounds[kind]

MapRepresents(root, m) ==
    /\ \A k \in DOMAIN Hash : H!get(root, k) = At(m, k)
    /\ LET es == H!collect_entries(root)
       IN  Len(es) = Cardinality(DOMAIN m) /\ ToSet(es) = {<<k, m[k]>> : k \in DOMAIN m}

VecRepresents(v, m) ==
    /\ DOMAIN m = 0 .. v.len - 1
    /\ \A i \in 0 .. v.len : V!get(v, i) = At(m, i)
    /\ V!to_vec(v) = [i \in 1 .. v.len |-> m[i - 1]]

TreeRepresents(root, m) ==
    LET es == T!entries(root)
        domain == 0 .. Max({0} \cup {p[1] : p \in Puts["pbtree"]} \cup DOMAIN m)
        first(S) == IF S = {} THEN NotFound ELSE <<Min(S), m[Min(S)]>>
        within(lo, hi) == SelectSeq(es, LAMBDA e : lo <= e[1] /\ e[1] <= hi)
    IN  /\ ToSet(es) = {<<k, m[k]>> : k \in DOMAIN m}
        /\ \A i \in 2 .. Len(es) : es[i - 1][1] < es[i][1]
        /\ \A k \in domain : /\ T!get(root, k) = At(m, k)
                             /\ T!first_greater_than(root, k) = first({j \in DOMAIN m : j > k})
        /\ T!first_greater_than(root, NotFound) = first(DOMAIN m)
        /\ \A lo, hi \in domain :
              T!range(root, lo, hi) = [i \in DOMAIN within(lo, hi) |-> within(lo, hi)[i][2]]

Represents(root, m) ==
    CASE kind = "pmap" -> MapRepresents(root, m)
      [] kind = "pvec" -> VecRepresents(root, m)
      [] OTHER -> TreeRepresents(root, m)

\* Whatever puts, pushes, removals and splits made a root, lookups find exactly
\* the keys that are in the collection, listings (pmap::entries, pvec::to_vec,
\* pbtree::entries) have each of them once, a range of a B-tree has its values
\* in order and the walk over it goes from every key to the next.
LookupFindsEveryKey == Represents(live, mlive) /\ Represents(ours, mours)

\* merge_three_way never invents a value: when it returns a root, no key was
\* changed to different values by the two sides, and the root holds, key by key,
\* the edits of both.
MergeKeepsBothSides ==
    Merged # NoMerge =>
        /\ \A k \in Changed(mours) \cap Changed(mlive) : At(mours, k) = At(mlive, k)
        /\ Represents(Merged, BothEdits)

\* pmap.rs, on merges of changes that `touch disjoint keys': `The result is
\* byte-identical to running the txs serially', so it has at least the same keys
\* and values.
DisjointMergeIsSerial ==
    Merged # NoMerge /\ Changed(mours) \cap Changed(mlive) = {} => Represents(Merged, BothEdits)

\* The order of the two sides of a merge does not matter: whichever of two
\* transactions commits second, the store ends with the same root cell.
MergeIsSymmetric == Merged = Merge(kind, live, ours, ancestor)

\* tests/gc.rs: `every cell reachable from a live state survives the sweep',
\* whatever transactions were under way: the nodes of both collections are in
\* the store, and those of the transaction are there or in its own writes as
\* long as it can be applied.
LiveNodesSurvive ==
    /\ Nodes(kind, live) \cup Nodes(kind, Twin) \subseteq cells
    /\ live = ancestor => Nodes(kind, ours) \subseteq cells \cup written

\* The store of node cells that module NodeStore describes, with two state
\* cells and one transaction; a root carries the kind of its collection.
Root(root) == <<kind, root>>
Both(root) == [c \in {"collection", "twin"} |-> Root(IF c = "twin" THEN Twin ELSE root)]
OfTx(x) == [t \in {"tx"} |-> x]
ReachOf(r) == Nodes(r[1], r[2])
WalkOf(r, kv) == LiveCells(r[1], r[2], kv)

Store == INSTANCE NodeStore WITH
    StateCell <- {"collection", "twin"}, Tx <- {"tx"}, Reach <- ReachOf, Walk <- WalkOf,
    live <- Both(live), ancestor <- OfTx(Both(ancestor)), ours <- OfTx(Both(ours)),
    reads <- OfTx(IF opsOurs = 0 THEN {} ELSE {"collection"}),
    written <- OfTx(written), swept <- OfTx(swept)

\* Edits, commits, merges, re-executions and sweeps (vm.rs, occ.rs, gc.rs) are
\* steps of the store of node cells, for which CollectionProofs shows that no
\* live node is ever swept: a commit adds the nodes the transaction wrote and
\* those its merge made, a merge is never across a sweep, and a sweep keeps what
\* the live roots lead to.
ImplementsNodeStore == Store!Spec

\* The keys under a node of a B-tree are in order and within its bounds.
RECURSIVE Ordered(_, _, _)
Ordered(n, lo, hi) ==
    /\ T!InOrder(n, lo, hi)
    /\ ~T!IsLeaf(n) => \A i \in DOMAIN n.children :
                          Ordered(n.children[i], T!Lower(n, i, lo), T!Upper(n, i, hi))

\* A node of a vector with this many elements: all full but the last.
RECURSIVE Dense(_, _, _)
Dense(n, level, count) ==
    IF level = 0 THEN V!IsLeaf(n) /\ Len(n.elements) = count /\ count <= V!BRANCH
    ELSE LET room == V!BRANCH ^ level
         IN  /\ V!IsInner(n) /\ Len(n.children) = (count + room - 1) \div room
             /\ Len(n.children) <= V!BRANCH
             /\ \A i \in DOMAIN n.children :
                   Dense(n.children[i], level - 1, IF i = Len(n.children) THEN count - (i - 1) * room ELSE room)

\* pbtree.rs, Node: through splits and through removals without rebalancing,
\* every key of a child is below the routing key after it and not below the one
\* before it, and no node is over-full.  pvec.rs: the shape of the tree follows
\* from the length, `a leaf may hold fewer elements only if it's the rightmost'.
ShapeKept ==
    \A root \in {live, ours} :
        NodeOf(kind, root) # EMPTY =>
            CASE kind = "pbtree" -> Ordered(root, 0, 1 + Max({p[1] : p \in Puts["pbtree"]} \cup DOMAIN mlive \cup DOMAIN mours))
              [] kind = "pvec" -> Dense(root.root, V!depth_for(root.len), root.len)
              [] OTHER -> TRUE
=============================================================================
