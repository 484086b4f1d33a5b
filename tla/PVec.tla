-------------------------------- MODULE PVec --------------------------------
(***************************************************************************)
(* The persistent vector of rend/src/pvec.rs: a trie over the bits of the  *)
(* index, filled from left to right, whose depth follows from the length.  *)
(* A state cell holds [len, root].  As in Hamt a node stands for its cell  *)
(* key, so that two nodes are equal exactly when their contents are.       *)
(***************************************************************************)
EXTENDS Naturals, Sequences, SequencesExt, FiniteSetsExt

CONSTANTS
    BITS_PER_LEVEL,
    EMPTY,      \* the root of the empty vector
    NotFound,   \* None
    NoMerge     \* a merge's None

BRANCH == 2 ^ BITS_PER_LEVEL

Leaf(es) == [elements |-> es]
Inner(cs) == [children |-> cs]
IsLeaf(n) == n # EMPTY /\ "elements" \in DOMAIN n
IsInner(n) == n # EMPTY /\ "children" \in DOMAIN n

BitsOf(h) == Min({b \in 0 .. h : 2 ^ b > h})

depth_for(len) ==
    IF len <= BRANCH THEN 0
    ELSE (BitsOf(len - 1) + BITS_PER_LEVEL - 1) \div BITS_PER_LEVEL - 1

slot_at(i, level) == (i \div BRANCH ^ level) % BRANCH

\* The element of a sequence at a slot, counted from 0.
Nth(s, slot) == IF slot < Len(s) THEN s[slot + 1] ELSE NotFound

RECURSIVE get_at(_, _, _)
get_at(n, level, i) ==
    IF n \in {EMPTY, NotFound} THEN NotFound
    ELSE IF IsLeaf(n) THEN Nth(n.elements, slot_at(i, 0))
    ELSE get_at(Nth(n.children, slot_at(i, level)), level - 1, i)

get(v, i) == IF i >= v.len THEN NotFound ELSE get_at(v.root, depth_for(v.len), i)

RECURSIVE set_at(_, _, _, _)
set_at(n, level, i, x) ==
    IF n \in {EMPTY, NotFound} THEN NotFound
    ELSE IF IsLeaf(n)
         THEN IF slot_at(i, 0) >= Len(n.elements) THEN NotFound
              ELSE Leaf(ReplaceAt(n.elements, slot_at(i, 0) + 1, x))
    ELSE LET slot == slot_at(i, level)
             child == set_at(Nth(n.children, slot), level - 1, i, x)
         IN  IF child = NotFound THEN NotFound ELSE Inner(ReplaceAt(n.children, slot + 1, child))

\* NotFound: the call fails, because of the index or of a missing node.
set(v, i, x) ==
    LET root == IF i >= v.len THEN NotFound ELSE set_at(v.root, depth_for(v.len), i, x)
    IN  IF root = NotFound THEN NotFound ELSE [v EXCEPT !.root = root]

\* A slot beyond the children starts a subtree of its own, down to a leaf.
RECURSIVE push_at(_, _, _, _)
push_at(n, level, i, x) ==
    IF level = 0 THEN Leaf(Append(IF IsLeaf(n) THEN n.elements ELSE <<>>, x))
    ELSE LET children == IF IsInner(n) THEN n.children ELSE <<>>
             slot == slot_at(i, level)
         IN  Inner(IF slot >= Len(children)
                   THEN Append(children, push_at(EMPTY, level - 1, i, x))
                   ELSE ReplaceAt(children, slot + 1, push_at(children[slot + 1], level - 1, i, x)))

\* The old root under one new root for every level the tree has grown.
RECURSIVE Wrapped(_, _)
Wrapped(root, levels) == IF levels = 0 THEN root ELSE Wrapped(Inner(<<root>>), levels - 1)

push(v, x) ==
    LET depth == depth_for(v.len + 1)
        above == IF depth > depth_for(v.len) THEN depth - depth_for(v.len) ELSE 0
    IN  [len |-> v.len + 1, root |-> push_at(Wrapped(v.root, above), depth, v.len, x)]

\* The first `remaining` elements under a node.
RECURSIVE collect_elements(_, _, _)
collect_elements(n, level, remaining) ==
    IF IsLeaf(n) THEN SubSeq(n.elements, 1, Min({Len(n.elements), remaining}))
    ELSE FoldLeft(LAMBDA out, c :
                      IF Len(out) >= remaining THEN out
                      ELSE out \o collect_elements(c, level - 1,
                                      Min({BRANCH ^ level, remaining - Len(out)})),
                  <<>>, n.children)

to_vec(v) == IF v.len = 0 THEN <<>> ELSE collect_elements(v.root, depth_for(v.len), v.len)

\* One element of two leaves: the side that changed it wins, both changing it
\* to different values is a conflict.
MergeElement(xa, xb, xbase) ==
    IF xa = xb THEN xa ELSE IF xa = xbase THEN xb ELSE IF xb = xbase THEN xa ELSE NoMerge

Whole(parts, node) == IF NoMerge \in ToSet(parts) THEN NoMerge ELSE node

RECURSIVE merge_at(_, _, _)
merge_at(a, b, base) ==
    IF a = b THEN a
    ELSE IF a = base THEN b
    ELSE IF b = base THEN a
    ELSE IF IsLeaf(a) /\ IsLeaf(b) /\ Len(a.elements) = Len(b.elements)
         THEN LET ebase == IF IsLeaf(base) THEN base.elements ELSE <<>>
                  es == [i \in DOMAIN a.elements |->
                            MergeElement(a.elements[i], b.elements[i], Nth(ebase, i - 1))]
              IN  Whole(es, Leaf(es))
    ELSE IF IsInner(a) /\ IsInner(b) /\ Len(a.children) = Len(b.children)
         THEN LET cbase(i) == IF IsInner(base) /\ i \in DOMAIN base.children
                              THEN base.children[i] ELSE EMPTY
                  cs == [i \in DOMAIN a.children |->
                            merge_at(a.children[i], b.children[i], cbase(i))]
              IN  Whole(cs, Inner(cs))
    ELSE NoMerge

merge_three_way(va, vb, vbase) ==
    LET root == IF va.len # vbase.len \/ vb.len # vbase.len THEN NoMerge
                ELSE merge_at(va.root, vb.root, vbase.root)
    IN  IF root = NoMerge THEN NoMerge ELSE [va EXCEPT !.root = root]

\* The node cells under a root.
RECURSIVE walk_reachable(_, _)
walk_reachable(n, kv) ==
    IF n = EMPTY THEN {}
    ELSE {n} \cup IF n \notin kv \/ IsLeaf(n) THEN {}
                  ELSE UNION {walk_reachable(n.children[i], kv) : i \in DOMAIN n.children}
=============================================================================
