---------------------------- MODULE PBTreeSteps ----------------------------
(***************************************************************************)
(* One level of the operations of rend/src/pbtree.rs that look up, put and *)
(* remove a key: what each does at a node, given what it does at the child *)
(* where it goes on.  Module PBTree ties the knots; SortedMapProofs shows  *)
(* what any operation that follows these steps computes.                   *)
(*                                                                         *)
(* A node stands for its cell key, the hash of its bytes.                  *)
(***************************************************************************)
EXTENDS Naturals, Sequences, FiniteSetsExt

CONSTANTS
    B,          \* the most keys of an inner node, and entries of a leaf
    EMPTY,      \* the root of the empty tree
    NotFound    \* None

Leaf(es) == [entries |-> es]
Inner(ks, cs) == [keys |-> ks, children |-> cs]
IsLeaf(n) == "entries" \in DOMAIN n

\* Vec::insert, Vec::remove and the clones that replace one element.  SequencesExt has
\* them too, among many more that would slow every proof about this module.
InsertAt(s, i, e) == SubSeq(s, 1, i - 1) \o <<e>> \o SubSeq(s, i, Len(s))
RemoveAt(s, i) == SubSeq(s, 1, i - 1) \o SubSeq(s, i + 1, Len(s))
ReplaceAt(s, i, e) == [s EXCEPT ![i] = e]

\* The first of these positions in a sequence, or the one after its end.
First(positions, s) == Min(positions \cup {Len(s) + 1})

\* Mutant: a key equal to a routing key is looked for before it.
descend_pos_before(keys, key) == First({i \in DOMAIN keys : keys[i] >= key}, keys)

\* The child to look for a key in: after all routing keys up to it.
descend_pos(keys, key) == First({i \in DOMAIN keys : keys[i] > key}, keys)

\* The entries of a leaf.
KeyAt(entries, i) == entries[i][1]
ValAt(entries, i) == entries[i][2]

\* Where a key is, or belongs, in a leaf.
Position(entries, key) == First({i \in DOMAIN entries : KeyAt(entries, i) >= key}, entries)
HasAt(entries, i, key) == i \in DOMAIN entries /\ KeyAt(entries, i) = key

\* The value of a key in a leaf's entries.
Value(entries, key) ==
    LET i == First({j \in DOMAIN entries : KeyAt(entries, j) = key}, entries)
    IN  IF i \in DOMAIN entries THEN ValAt(entries, i) ELSE NotFound

\* `below` is what the child has for the key.
GetStep(n, key, below) == IF IsLeaf(n) THEN Value(n.entries, key) ELSE below

\* A leaf's entries with one inserted in order, or replaced.
Inserted(entries, key, value) ==
    LET i == Position(entries, key)
    IN  IF HasAt(entries, i, key) THEN ReplaceAt(entries, i, <<key, value>>)
        ELSE InsertAt(entries, i, <<key, value>>)

\* SetResult.
Plain(n) == [node |-> n]
Split(left, sep, right) == [left |-> left, sep |-> sep, right |-> right]
IsPlain(r) == "node" \in DOMAIN r

\* Mutant: a leaf splits one entry too late.
FilledLeafLate(entries) ==
    LET mid == Len(entries) \div 2
    IN  IF Len(entries) <= B + 1 THEN Plain(Leaf(entries))
        ELSE Split(Leaf(SubSeq(entries, 1, mid)), KeyAt(entries, mid + 1),
                   Leaf(SubSeq(entries, mid + 1, Len(entries))))

\* A leaf of these entries; too many of them make two.
FilledLeaf(entries) ==
    LET mid == Len(entries) \div 2
    IN  IF Len(entries) <= B THEN Plain(Leaf(entries))
        ELSE Split(Leaf(SubSeq(entries, 1, mid)), KeyAt(entries, mid + 1),
                   Leaf(SubSeq(entries, mid + 1, Len(entries))))

\* An inner node; too many keys make two, and the middle key goes up.
FilledInner(keys, children) ==
    LET mid == Len(keys) \div 2
    IN  IF Len(keys) <= B THEN Plain(Inner(keys, children))
        ELSE Split(Inner(SubSeq(keys, 1, mid), SubSeq(children, 1, mid + 1)), keys[mid + 1],
                   Inner(SubSeq(keys, mid + 2, Len(keys)), SubSeq(children, mid + 2, Len(children))))

\* `r` is the result of the child, which takes its place, or whose two halves do.
SetStep(n, key, value, r) ==
    LET pos == descend_pos(n.keys, key)
    IN  IF IsLeaf(n) THEN FilledLeaf(Inserted(n.entries, key, value))
        ELSE IF IsPlain(r) THEN Plain(Inner(n.keys, ReplaceAt(n.children, pos, r.node)))
        ELSE FilledInner(InsertAt(n.keys, pos, r.sep),
                         InsertAt(ReplaceAt(n.children, pos, r.left), pos + 1, r.right))

\* The new root; `r` is the result of the old one.
SetRoot(root, key, value, r) ==
    IF root = EMPTY THEN Leaf(<< <<key, value>> >>)
    ELSE IF IsPlain(r) THEN r.node
    ELSE Inner(<<r.sep>>, <<r.left, r.right>>)

\* RemoveResult, beside Plain.
Unchanged == [unchanged |-> TRUE]
Gone == [gone |-> TRUE]

\* An inner node without a child and one routing key beside it.
WithoutChild(n, pos) ==
    Inner(RemoveAt(n.keys, IF pos <= Len(n.keys) THEN pos ELSE pos - 1), RemoveAt(n.children, pos))

RemoveStep(n, key, r) ==
    LET i    == Position(n.entries, key)
        left == RemoveAt(n.entries, i)
        pos  == descend_pos(n.keys, key)
        rest == WithoutChild(n, pos)
    IN  IF IsLeaf(n)
        THEN IF ~HasAt(n.entries, i, key) THEN Unchanged
             ELSE IF left = <<>> THEN Gone ELSE Plain(Leaf(left))
        ELSE IF r = Unchanged THEN Unchanged
        ELSE IF r # Gone THEN Plain(Inner(n.keys, ReplaceAt(n.children, pos, r.node)))
        ELSE IF rest.children = <<>> THEN Gone
        ELSE IF rest.keys = <<>> /\ Len(rest.children) = 1 THEN Plain(rest.children[1])
        ELSE Plain(rest)

RemoveRoot(root, r) ==
    IF root = EMPTY \/ r = Gone THEN EMPTY ELSE IF r = Unchanged THEN root ELSE r.node

(***************************************************************************)
(* The order of a tree, as the comment on Node in pbtree.rs has it.        *)
(***************************************************************************)

\* The keys of a node, and the bounds between which those of a child are.
KeysOf(n) == IF IsLeaf(n) THEN [i \in DOMAIN n.entries |-> KeyAt(n.entries, i)] ELSE n.keys
Lower(n, i, lo) == IF i = 1 THEN lo ELSE n.keys[i - 1]
Upper(n, i, hi) == IF i = Len(n.keys) + 1 THEN hi ELSE n.keys[i]

\* A node's own keys are in order and within its bounds, and not too many.
InOrder(n, lo, hi) ==
    /\ Len(KeysOf(n)) \in 1 .. B
    /\ \A i \in 1 .. Len(KeysOf(n)) : lo <= KeysOf(n)[i] /\ KeysOf(n)[i] < hi
    /\ \A i, j \in 1 .. Len(KeysOf(n)) : i < j => KeysOf(n)[i] < KeysOf(n)[j]
    /\ ~IsLeaf(n) => Len(n.children) = Len(n.keys) + 1
=============================================================================
