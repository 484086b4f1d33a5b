------------------------------- MODULE PBTree -------------------------------
(***************************************************************************)
(* The persistent sorted map of rend/src/pbtree.rs: a B+-tree of immutable *)
(* nodes that splits full nodes and never rebalances.  PBTreeSteps has     *)
(* what the operations on a key do at one node.                            *)
(***************************************************************************)
EXTENDS PBTreeSteps, FiniteSets

S == INSTANCE SequencesExt

RECURSIVE get_at(_, _)
get_at(n, key) == GetStep(n, key, get_at(n.children[descend_pos(n.keys, key)], key))

get(root, key) == IF root = EMPTY THEN NotFound ELSE get_at(root, key)

RECURSIVE set_inner(_, _, _)
set_inner(n, key, value) ==
    SetStep(n, key, value, set_inner(n.children[descend_pos(n.keys, key)], key, value))

set(root, key, value) == SetRoot(root, key, value, set_inner(root, key, value))

RECURSIVE remove_inner(_, _)
remove_inner(n, key) ==
    RemoveStep(n, key, remove_inner(n.children[descend_pos(n.keys, key)], key))

remove(root, key) == RemoveRoot(root, remove_inner(root, key))

\* The values of a range, both ends included, in the order of their keys.
RECURSIVE range_at(_, _, _)
range_at(n, lo, hi) ==
    IF IsLeaf(n)
    THEN LET in == SelectSeq(n.entries, LAMBDA e : lo <= e[1] /\ e[1] <= hi)
         IN  [i \in DOMAIN in |-> in[i][2]]
    ELSE S!FoldLeft(LAMBDA out, c : out \o range_at(c, lo, hi), <<>>,
                    SubSeq(n.children, descend_pos(n.keys, lo), descend_pos(n.keys, hi)))

range(root, lo, hi) == IF root = EMPTY THEN <<>> ELSE range_at(root, lo, hi)

\* The first entry beyond a key, the very first if there is none (NotFound).
\* Only the first child looked into can hold entries that are not beyond it.
RECURSIVE first_greater_at(_, _)
first_greater_at(n, target) ==
    IF IsLeaf(n)
    THEN LET i == S!SelectInSeq(n.entries, LAMBDA e : target = NotFound \/ e[1] > target)
         IN  IF i = 0 THEN NotFound ELSE n.entries[i]
    ELSE LET start == IF target = NotFound THEN 1 ELSE descend_pos(n.keys, target)
         IN  S!FoldLeft(LAMBDA found, i :
                            IF found # NotFound THEN found
                            ELSE first_greater_at(n.children[i], IF i = start THEN target ELSE NotFound),
                        NotFound, [j \in 1 .. Len(n.children) - start + 1 |-> start + j - 1])

first_greater_than(root, target) == IF root = EMPTY THEN NotFound ELSE first_greater_at(root, target)

RECURSIVE collect_entries(_)
collect_entries(n) ==
    IF IsLeaf(n) THEN n.entries
    ELSE S!FoldLeft(LAMBDA out, c : out \o collect_entries(c), <<>>, n.children)

entries(root) == IF root = EMPTY THEN <<>> ELSE collect_entries(root)
=============================================================================
