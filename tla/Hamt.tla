-------------------------------- MODULE Hamt --------------------------------
(***************************************************************************)
(* The persistent map of rend/src/pmap.rs: a hash array mapped trie whose  *)
(* nodes are immutable, content-addressed cells, and its three-way merge.  *)
(* HamtSteps has what each operation does at one level.                    *)
(*                                                                         *)
(* Trees has the state machine.                                            *)
(***************************************************************************)
EXTENDS HamtSteps, Sequences, SequencesExt, FiniteSets

RECURSIVE get_at(_, _, _)
get_at(n, k, level) == GetStep(n, k, get_at(Child(n, k, level), k, level + 1))

get(root, k) == get_at(root, k, 0)

RECURSIVE build_from_entries(_, _)
build_from_entries(es, level) ==
    BuildStep(es, level, build_from_entries(es, level + 1),
              [s \in Slots(es, level) |-> build_from_entries(InSlot(es, level, s), level + 1)])

RECURSIVE set_at(_, _, _, _)
set_at(n, k, v, level) ==
    SetStep(n, k, v, level, build_from_entries(Extended(n.entries, k, v), level),
            set_at(Child(n, k, level), k, v, level + 1))

set(root, k, v) == set_at(root, k, v, 0)

RECURSIVE remove_at(_, _, _)

\* Mutant: a leaf that loses its last entry stays.
remove_at_empty_leaf(n, k, level) ==
    IF n = EMPTY THEN EMPTY
    ELSE IF IsLeaf(n) THEN Leaf(Restricted(n.entries, DOMAIN n.entries \ {k}))
    ELSE LET s == bits_at(k, level)
         IN  IF s \notin DOMAIN n.children THEN n
             ELSE Inner(Extended(n.children, s, remove_at(n.children[s], k, level + 1)))

remove_at(n, k, level) ==
    RemoveStep(n, k, level, remove_at(Child(n, k, level), k, level + 1))

remove(root, k) == remove_at(root, k, 0)

\* The pairs of the map, in the order of the depth-first walk.
RECURSIVE collect_entries(_)
collect_entries(n) ==
    IF n = EMPTY THEN <<>>
    ELSE IF IsLeaf(n) THEN SetToSeq({<<k, n.entries[k]>> : k \in DOMAIN n.entries})
    ELSE FoldLeft(LAMBDA out, s : out \o collect_entries(n.children[s]),
                  <<>>, SetToSortSeq(DOMAIN n.children, <))

RECURSIVE merge_at(_, _, _)
merge_at(a, b, base) ==
    MergeStep(a, b, base,
              [s \in MergeSlots(a, b, base) |->
                  merge_at(At(a.children, s, EMPTY), At(b.children, s, EMPTY),
                           At(BaseChildren(base), s, EMPTY))])

merge_three_way(new_a, live_b, ancestor) == merge_at(new_a, live_b, ancestor)

\* The node cells found under a root: below a node that is not in the store
\* the walk does not go on.
RECURSIVE walk_reachable(_, _)

\* Mutant: the walk does not go on below a node's children.
walk_reachable_shallow(n, kv) ==
    IF n = EMPTY THEN {}
    ELSE {n} \cup IF n \notin kv \/ IsLeaf(n) THEN {} ELSE {n.children[s] : s \in DOMAIN n.children}

walk_reachable(n, kv) ==
    IF n = EMPTY THEN {}
    ELSE {n} \cup IF n \notin kv \/ IsLeaf(n) THEN {}
                  ELSE UNION {walk_reachable(n.children[s], kv) : s \in DOMAIN n.children}
=============================================================================
