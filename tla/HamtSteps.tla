----------------------------- MODULE HamtSteps -----------------------------
(***************************************************************************)
(* One level of the operations of rend/src/pmap.rs that walk a trie: what  *)
(* each does at a node, given what it does at the level below.  Module     *)
(* Hamt ties the knots; CollectionProofs shows what any operation that     *)
(* follows these steps computes.                                           *)
(*                                                                         *)
(* A node stands for its cell key, the hash of its bytes: two nodes are    *)
(* equal exactly when their contents are.  A leaf's entries are a function *)
(* from keys, which is what sorting them before hashing makes of the list; *)
(* an inner node's bitmap and dense child array are a function from slots. *)
(***************************************************************************)
EXTENDS Naturals

CONSTANTS
    MAX_LEVELS, \* the levels that the bits of a hash last for
    Hash,       \* Hash[k][level]: the five hash bits of a key at a level
    EMPTY,      \* the root of the empty map
    NotFound,   \* a lookup's None
    NoMerge     \* a merge's None

Leaf(es) == [entries |-> es]
Inner(cs) == [children |-> cs]
IsLeaf(n) == "entries" \in DOMAIN n
IsInner(n) == "children" \in DOMAIN n
Restricted(f, S) == [k \in S |-> f[k]]
Extended(f, k, v) == [j \in DOMAIN f \cup {k} |-> IF j = k THEN v ELSE f[j]]
At(f, k, otherwise) == IF k \in DOMAIN f THEN f[k] ELSE otherwise

bits_at(k, level) == Hash[k][level]

\* The child of an inner node where the walk for a key goes on.
Child(n, k, level) == At(n.children, bits_at(k, level), EMPTY)

\* `below` is what the child has for the key.
GetStep(n, k, below) ==
    IF n = EMPTY THEN NotFound
    ELSE IF IsLeaf(n) THEN At(n.entries, k, NotFound)
    ELSE below

\* A batch of entries by their slots at a level.
Slots(es, level) == {bits_at(k, level) : k \in DOMAIN es}
InSlot(es, level, s) == Restricted(es, {k \in DOMAIN es : bits_at(k, level) = s})
Single(S) == \E e \in S : S = {e}

\* `same` is the batch built one level down, which takes the place of a node with
\* one child; `parts` has the parts of the batch built one level down, by slot.
BuildStep(es, level, same, parts) ==
    IF DOMAIN es = {} THEN EMPTY
    ELSE IF Single(DOMAIN es) \/ level >= MAX_LEVELS THEN Leaf(es)
    ELSE IF Single(Slots(es, level)) THEN same
    ELSE Inner(parts)

\* `split` is built of the entries of a leaf and the new one, `child` is the child
\* with the new one.
SetStep(n, k, v, level, split, child) ==
    IF n = EMPTY THEN Leaf(Extended(<<>>, k, v))
    ELSE IF IsLeaf(n)
         THEN IF k \in DOMAIN n.entries \/ level >= MAX_LEVELS
              THEN Leaf(Extended(n.entries, k, v)) ELSE split
    ELSE Inner(Extended(n.children, bits_at(k, level), child))

\* `child` is the child without the key.
RemoveStep(n, k, level, child) ==
    LET s == bits_at(k, level)
    IN  IF n = EMPTY THEN EMPTY
        ELSE IF IsLeaf(n)
             THEN IF DOMAIN n.entries = {k} THEN EMPTY
                  ELSE Leaf(Restricted(n.entries, DOMAIN n.entries \ {k}))
        ELSE IF s \notin DOMAIN n.children THEN n
        ELSE IF child # EMPTY THEN Inner(Extended(n.children, s, child))
        ELSE IF DOMAIN n.children = {s} THEN EMPTY
        ELSE Inner(Restricted(n.children, DOMAIN n.children \ {s}))

(***************************************************************************)
(* The three-way merge.                                                    *)
(***************************************************************************)

\* Mutant: an entry our side removed comes back.
MergeEntryRevives(va, vb, vbase) ==
    IF va = vb THEN va ELSE IF va \in {vbase, NotFound} THEN vb
    ELSE IF vb = vbase THEN va ELSE NoMerge

\* Mutant: our edit wins over the live one.
MergeEntryOurs(va, vb, vbase) == IF va = vbase THEN vb ELSE va

\* One key of two leaves: the side that changed it wins, both changing it to
\* different values is a conflict.
MergeEntry(va, vb, vbase) ==
    IF va = vb THEN va ELSE IF va = vbase THEN vb ELSE IF vb = vbase THEN va ELSE NoMerge

MergeEntries(ea, eb, ebase) ==
    [k \in DOMAIN ea \cup DOMAIN eb \cup DOMAIN ebase |->
        MergeEntry(At(ea, k, NotFound), At(eb, k, NotFound), At(ebase, k, NotFound))]

Conflicting(parts) == \E p \in DOMAIN parts : parts[p] = NoMerge

\* The parts that did not come out as `absent`.
Kept(parts, absent) == Restricted(parts, {p \in DOMAIN parts : parts[p] # absent})

MergedLeaf(es) ==
    IF Conflicting(es) THEN NoMerge
    ELSE IF Kept(es, NotFound) = <<>> THEN EMPTY
    ELSE Leaf(Kept(es, NotFound))

MergedInner(cs) ==
    IF Conflicting(cs) THEN NoMerge
    ELSE IF Kept(cs, EMPTY) = <<>> THEN EMPTY
    ELSE Inner(Kept(cs, EMPTY))

\* A base of another shape than the two sides counts as empty.
BaseEntries(base) == IF base # EMPTY /\ IsLeaf(base) THEN base.entries ELSE <<>>
BaseChildren(base) == IF base # EMPTY /\ IsInner(base) THEN base.children ELSE <<>>

\* The slots that one of three inner nodes uses.
MergeSlots(a, b, base) == DOMAIN a.children \cup DOMAIN b.children \cup DOMAIN BaseChildren(base)

\* `merged` has the merge of the children in every such slot.
MergeStep(a, b, base, merged) ==
    IF a = b THEN a
    ELSE IF a = base THEN b
    ELSE IF b = base THEN a
    ELSE IF a = EMPTY \/ b = EMPTY THEN NoMerge
    ELSE IF IsLeaf(a) /\ IsLeaf(b)
         THEN MergedLeaf(MergeEntries(a.entries, b.entries, BaseEntries(base)))
    ELSE IF IsInner(a) /\ IsInner(b) THEN MergedInner(merged)
    ELSE NoMerge
=============================================================================
