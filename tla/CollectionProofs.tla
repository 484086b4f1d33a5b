------------------------- MODULE CollectionProofs --------------------------
(***************************************************************************)
(* Persistent collections, of any size and shape.                          *)
(*                                                                         *)
(* The store: no sweep removes a node of a live collection, for any number *)
(* of state cells and transactions, if the walk of gc.rs is complete; and  *)
(* the walk of a map or a vector is.                                       *)
(*                                                                         *)
(* The map: what lookups find after a put, a removal and a three-way       *)
(* merge, and that the sides of a merge can be exchanged.                  *)
(***************************************************************************)
EXTENDS NodeStore, HamtSteps, WellFoundedInduction, TLAPS

(***************************************************************************)
(* The store of node cells.                                                *)
(*                                                                         *)
(* The inductive invariant: what a transaction has built is in the tree    *)
(* it began with or in its writes; and that tree is in the store as long   *)
(* as nothing was swept, although no live root may lead to it any more.    *)
(***************************************************************************)
TypeInv ==
    /\ live = [c \in StateCell |-> live[c]]
    /\ ancestor = [t \in Tx |-> [c \in StateCell |-> ancestor[t][c]]]
    /\ ours = [t \in Tx |-> [c \in StateCell |-> ours[t][c]]]
    /\ reads \in [Tx -> SUBSET StateCell]
    /\ written = [t \in Tx |-> written[t]]
    /\ swept \in [Tx -> BOOLEAN]

LiveInv == \A c \in StateCell : Reach(live[c]) \subseteq cells
BuiltInv == \A t \in Tx : \A c \in StateCell : Reach(ours[t][c]) \subseteq Reach(ancestor[t][c]) \cup written[t]
KeptInv == \A t \in Tx : ~swept[t] => \A c \in StateCell : Reach(ancestor[t][c]) \subseteq cells

IInv == TypeInv /\ LiveInv /\ BuiltInv /\ KeptInv

\* What the property asks for is part of the invariant.
LEMMA IInvSurvive == IInv => LiveNodesSurvive
<1> SUFFICES ASSUME IInv PROVE LiveNodesSurvive
    BY Zenon
<1>1. ASSUME NEW t \in Tx, Stale(t) = {}, NEW c \in reads[t]
      PROVE  Reach(ours[t][c]) \subseteq cells \cup written[t]
  <2>1. c \in StateCell BY Zenon DEF IInv, TypeInv
  <2>2. live[c] = ancestor[t][c] BY Zenon, <1>1 DEF Stale
  <2> QED BY Zenon, <2>1, <2>2 DEF IInv, LiveInv, BuiltInv
<1> QED BY Zenon, <1>1 DEF LiveNodesSurvive, IInv, LiveInv

\* The store begins with the nodes of its collections.
LEMMA InitInv == Init => IInv
BY DEF Init, IInv, TypeInv, LiveInv, BuiltInv, KeptInv

\* The transaction that begins has built nothing yet, and began with what the
\* store holds; for the others nothing changes.
LEMMA BeginsInv ==
    ASSUME NEW t \in Tx, IInv, Begins(t), LiveInv', cells \subseteq cells',
           live' = [c \in StateCell |-> live'[c]]
    PROVE  IInv'
<1>1. TypeInv'
  BY Zenon DEF Begins, IInv, TypeInv
<1>2. BuiltInv'
  <2> SUFFICES ASSUME NEW u \in Tx, NEW c \in StateCell
               PROVE  Reach(ours'[u][c]) \subseteq Reach(ancestor'[u][c]) \cup written'[u]
      BY Zenon DEF BuiltInv
  <2>1. CASE u = t BY Zenon, <2>1 DEF Begins, IInv, TypeInv
  <2>2. CASE u # t BY Zenon, <2>2 DEF Begins, IInv, TypeInv, BuiltInv
  <2> QED BY Zenon, <2>1, <2>2
<1>3. KeptInv'
  <2> SUFFICES ASSUME NEW u \in Tx, ~swept'[u], NEW c \in StateCell
               PROVE  Reach(ancestor'[u][c]) \subseteq cells'
      BY Zenon DEF KeptInv
  <2>1. CASE u = t BY Zenon, <2>1 DEF Begins, IInv, TypeInv, LiveInv
  <2>2. CASE u # t BY Zenon, <2>2 DEF Begins, IInv, TypeInv, KeptInv
  <2> QED BY Zenon, <2>1, <2>2
<1> QED BY Zenon, <1>1, <1>2, <1>3 DEF IInv

\* Every step keeps the invariant.
LEMMA StepInv == ASSUME WalkComplete, IInv, [Next]_vars PROVE IInv'
<1>1. ASSUME NEW t \in Tx, Commit(t) PROVE IInv'
  <2>1. LiveInv'
    <3> SUFFICES ASSUME NEW c \in StateCell PROVE Reach(live'[c]) \subseteq cells'
        BY Zenon DEF LiveInv
    <3>1. CASE c \in reads[t]
      <4>1. live[c] = ancestor[t][c] BY Zenon, <1>1, <3>1 DEF Commit, Stale
      <4> QED BY Zenon, <1>1, <3>1, <4>1 DEF Commit, IInv, LiveInv, BuiltInv
    <3>2. CASE c \notin reads[t] BY Zenon, <1>1, <3>2 DEF Commit, IInv, LiveInv
    <3> QED BY Zenon, <3>1, <3>2
  <2>2. live' = [c \in StateCell |-> live'[c]] BY Zenon, <1>1 DEF Commit
  <2> QED BY Zenon, <1>1, <2>1, <2>2, BeginsInv DEF Commit
<1>2. ASSUME NEW t \in Tx, CommitMerge(t) PROVE IInv'
  <2>1. LiveInv'
    <3> SUFFICES ASSUME NEW c \in StateCell PROVE Reach(live'[c]) \subseteq cells'
        BY Zenon DEF LiveInv
    <3>0. Reach(ours[t][c]) \subseteq cells \cup written[t]
      BY Zenon, <1>2 DEF CommitMerge, IInv, BuiltInv, KeptInv
    <3>1. CASE c \in Stale(t)
      <4>1. Reach(live'[c]) \ (Reach(live[c]) \cup Reach(ours[t][c])) \subseteq cells'
        BY Zenon, <1>2, <3>1 DEF CommitMerge
      <4>2. Reach(live[c]) \subseteq cells BY Zenon DEF IInv, LiveInv
      <4>3. cells \cup written[t] \subseteq cells' BY Zenon, <1>2 DEF CommitMerge
      <4> QED BY Zenon, <3>0, <4>1, <4>2, <4>3
    <3>2. CASE c \notin Stale(t) BY Zenon, <1>2, <3>0, <3>2 DEF CommitMerge, IInv, LiveInv
    <3> QED BY Zenon, <3>1, <3>2
  <2>2. live' = [c \in StateCell |-> live'[c]]
    BY Zenon, <1>2 DEF CommitMerge
  <2> QED BY Zenon, <1>2, <2>1, <2>2, BeginsInv DEF CommitMerge
<1>3. ASSUME NEW t \in Tx, Restart(t) PROVE IInv'
  BY Zenon, <1>3, BeginsInv DEF Restart, IInv, LiveInv, TypeInv
<1>4. ASSUME NEW t \in Tx, NEW c \in StateCell, Edit(t, c) PROVE IInv'
  <2>0. ASSUME NEW root, ours' = [ours EXCEPT ![t] = [ours[t] EXCEPT ![c] = root]]
        PROVE  /\ ours' = [u \in Tx |-> [k \in StateCell |-> ours'[u][k]]]
               /\ \A u \in Tx, k \in StateCell : ~(u = t /\ k = c) => ours'[u][k] = ours[u][k]
    <3>1. ours[t] = [k \in StateCell |-> ours[t][k]] BY Zenon DEF IInv, TypeInv
    <3>2. ours'[t] = [k \in StateCell |-> IF k = c THEN root ELSE ours[t][k]]
      BY Zenon, <2>0, <3>1 DEF IInv, TypeInv
    <3>3. \A u \in Tx \ {t} : ours'[u] = ours[u] BY Zenon, <2>0 DEF IInv, TypeInv
    <3>4. \A u \in Tx : ours'[u] = [k \in StateCell |-> ours'[u][k]]
      BY Zenon, <3>2, <3>3 DEF IInv, TypeInv
    <3>5. ours' = [u \in Tx |-> ours'[u]] BY Zenon, <2>0 DEF IInv, TypeInv
    <3> QED BY <3>2, <3>3, <3>4, <3>5
  <2>1. TypeInv' BY Zenon, <1>4, <2>0 DEF Edit, IInv, TypeInv
  <2>2. LiveInv' /\ KeptInv' BY Zenon, <1>4 DEF Edit, IInv, LiveInv, KeptInv
  <2>3. ASSUME NEW u \in Tx, NEW k \in StateCell
        PROVE  Reach(ours'[u][k]) \subseteq Reach(ancestor'[u][k]) \cup written'[u]
    <3>1. CASE u = t /\ k = c
      <4>1. Reach(ours'[t][c]) \subseteq Reach(ours[t][c]) \cup written'[t]
        BY Zenon, <1>4 DEF Edit, IInv, TypeInv
      <4>2. written[t] \subseteq written'[t] BY Zenon, <1>4 DEF Edit, IInv, TypeInv
      <4> QED BY Zenon, <1>4, <3>1, <4>1, <4>2 DEF Edit, IInv, BuiltInv
    <3>2. CASE ~(u = t /\ k = c)
      <4>1. ours'[u][k] = ours[u][k] BY Zenon, <1>4, <2>0, <3>2 DEF Edit
      <4>2. written[u] \subseteq written'[u] BY Zenon, <1>4 DEF Edit, IInv, TypeInv
      <4> QED BY Zenon, <1>4, <4>1, <4>2 DEF Edit, IInv, BuiltInv
    <3> QED BY Zenon, <3>1, <3>2
  <2> QED BY Zenon, <2>1, <2>2, <2>3 DEF IInv, BuiltInv
<1>5. ASSUME NEW c \in StateCell, Apply(c) PROVE IInv'
  <2>1. TypeInv' BY Zenon, <1>5 DEF Apply, txs, IInv, TypeInv
  <2>2. LiveInv'
    <3> SUFFICES ASSUME NEW k \in StateCell PROVE Reach(live'[k]) \subseteq cells'
        BY Zenon DEF LiveInv
    <3>1. CASE k = c BY Zenon, <1>5, <3>1 DEF Apply, IInv, LiveInv
    <3>2. CASE k # c
      <4>1. live'[k] = live[k] BY Zenon, <1>5, <3>2 DEF Apply, IInv, TypeInv
      <4> QED BY Zenon, <1>5, <4>1 DEF Apply, IInv, LiveInv
    <3> QED BY Zenon, <3>1, <3>2
  <2>3. BuiltInv' /\ KeptInv' BY Zenon, <1>5 DEF Apply, txs, IInv, BuiltInv, KeptInv
  <2> QED BY Zenon, <2>1, <2>2, <2>3 DEF IInv
<1>6. ASSUME Sweep PROVE IInv'
  <2>1. TypeInv' BY Zenon, <1>6 DEF Sweep, IInv, TypeInv
  <2>2. LiveInv'
    <3> SUFFICES ASSUME NEW c \in StateCell PROVE Reach(live'[c]) \subseteq cells'
        BY Zenon DEF LiveInv
    <3>1. Reach(live[c]) \subseteq cells BY Zenon DEF IInv, LiveInv
    <3>2. Reach(live[c]) \subseteq Walk(live[c], cells) BY Zenon, <3>1 DEF WalkComplete
    <3> QED BY Zenon, <1>6, <3>1, <3>2 DEF Sweep
  <2>3. BuiltInv' /\ KeptInv' BY Zenon, <1>6 DEF Sweep, IInv, BuiltInv, KeptInv
  <2> QED BY Zenon, <2>1, <2>2, <2>3 DEF IInv
<1>7. CASE UNCHANGED vars
  BY Zenon, <1>7 DEF vars, txs, IInv, TypeInv, LiveInv, BuiltInv, KeptInv
<1> QED BY Zenon, <1>1, <1>2, <1>3, <1>4, <1>5, <1>6, <1>7 DEF Next

\* With a complete walk, no sequence of edits, commits, merges and sweeps takes
\* a node away from a live collection or from a transaction that can still be
\* applied (gc.rs, sweep).
THEOREM NoLiveNodeSwept == WalkComplete => (Spec => []LiveNodesSurvive)
<1> SUFFICES ASSUME WalkComplete PROVE Spec => []LiveNodesSurvive
    BY Zenon
<1>1. IInv /\ [Next]_vars => IInv' BY Zenon, StepInv
<1> QED BY <1>1, InitInv, IInvSurvive, PTL DEF Spec

(***************************************************************************)
(* The walk.  A node cell is named by the hash of its contents, the names  *)
(* of its children included, so that no node is below itself.  Top is the  *)
(* node cell of a root; the root of an empty collection has none.          *)
(***************************************************************************)

\* walk_reachable of pmap.rs and of pvec.rs, which goes on below a node only if
\* it can read it, finds every node of a tree that is in the store: the
\* assumption of NoLiveNodeSwept holds for maps and vectors.
THEOREM WalkFindsTheTree ==
    ASSUME NEW Node, NEW Children \in [Node -> SUBSET Node],
           IsWellFoundedOn({e \in Node \X Node : e[1] \in Children[e[2]]}, Node),
           NEW Top(_), NEW Below(_), NEW walk_reachable(_, _),
           \A n \in Node : Below(n) = {n} \cup UNION {Below(m) : m \in Children[n]},
           \A n \in Node : \A kv : walk_reachable(n, kv) =
               {n} \cup IF n \in kv THEN UNION {walk_reachable(m, kv) : m \in Children[n]} ELSE {},
           \A root : Top(root) \in Node => /\ Reach(root) = Below(Top(root))
                                          /\ \A kv : Walk(root, kv) = walk_reachable(Top(root), kv),
           \A root : Top(root) \notin Node => Reach(root) = {}
    PROVE  WalkComplete
<1> DEFINE R == {e \in Node \X Node : e[1] \in Children[e[2]]}
<1>1. ASSUME NEW kv PROVE \A n \in Node : Below(n) \subseteq kv => Below(n) \subseteq walk_reachable(n, kv)
  <2> DEFINE Missed == {n \in Node : Below(n) \subseteq kv /\ ~(Below(n) \subseteq walk_reachable(n, kv))}
  <2> SUFFICES ASSUME Missed # {} PROVE FALSE
      BY Zenon
  <2>1. PICK n \in Missed : \A m \in Missed : <<m, n>> \notin R
    <3>1. IsWellFoundedOn(R, Node) /\ Missed \subseteq Node BY Zenon
    <3> HIDE DEF R, Missed
    <3> QED BY Zenon, <3>1, WFMin
  <2>2. n \in Node /\ Below(n) \subseteq kv BY Zenon
  <2>3. Below(n) = {n} \cup UNION {Below(m) : m \in Children[n]} BY Zenon, <2>2
  <2>4. n \in kv BY Zenon, <2>2, <2>3
  <2>5. walk_reachable(n, kv) = {n} \cup UNION {walk_reachable(m, kv) : m \in Children[n]} BY Zenon, <2>2, <2>4
  <2>6. ASSUME NEW m \in Children[n] PROVE Below(m) \subseteq walk_reachable(m, kv)
    <3>1. m \in Node /\ <<m, n>> \in R BY Zenon, <2>2
    <3>2. Below(m) \subseteq kv BY <2>2, <2>3
    <3> QED BY Zenon, <2>1, <3>1, <3>2
  <2>7. Below(n) \subseteq walk_reachable(n, kv) BY <2>3, <2>5, <2>6
  <2> QED BY Zenon, <2>7
<1>2. ASSUME NEW root, NEW kv, Reach(root) \subseteq kv PROVE Reach(root) \subseteq Walk(root, kv)
  <2>1. CASE Top(root) \in Node BY <1>1, <1>2, <2>1
  <2>2. CASE Top(root) \notin Node BY Zenon, <2>2
  <2> QED BY Zenon, <2>1, <2>2
<1> QED BY Zenon, <1>2 DEF WalkComplete

(***************************************************************************)
(* The map.  An operation on tries is any function that follows its step   *)
(* of HamtSteps on a set of tries, Node, in which no node is below itself: *)
(* a node is named by the hash of what it refers to.  Induction is over    *)
(* the nodes: one whose children are all right cannot be wrong.            *)
(***************************************************************************)

\* A set of tries: with every node, the nodes it refers to.  EMPTY, the hash 0,
\* is the name of none.
TrieNodes(Node) ==
    /\ EMPTY \in Node
    /\ \A f : EMPTY # Leaf(f) /\ EMPTY # Inner(f)
    /\ \A n \in Node \ {EMPTY} :
          \/ IsLeaf(n) /\ ~IsInner(n)
          \/ IsInner(n) /\ ~IsLeaf(n) /\ \A s \in DOMAIN n.children : n.children[s] \in Node

ChildOf(Node) ==
    {e \in Node \X Node : /\ e[2] # EMPTY /\ IsInner(e[2])
                          /\ \E s \in DOMAIN e[2].children : e[1] = e[2].children[s]}

\* The child of a node in a slot, or EMPTY, is one of the tries.
LEMMA ChildInNode ==
    ASSUME NEW Node, TrieNodes(Node), NEW n \in Node, n # EMPTY, IsInner(n), NEW s
    PROVE  /\ At(n.children, s, EMPTY) \in Node
           /\ At(n.children, s, EMPTY) # EMPTY => <<At(n.children, s, EMPTY), n>> \in ChildOf(Node)
BY Zenon DEF TrieNodes, At, ChildOf

\* So is the child of the base of a merge, which counts as empty if it is a leaf.
LEMMA BaseInNode ==
    ASSUME NEW Node, TrieNodes(Node), NEW n \in Node, NEW s
    PROVE  At(BaseChildren(n), s, EMPTY) \in Node
BY DEF TrieNodes, At, BaseChildren

\* The operations of pmap.rs, each as a function of its arguments in turn.
Gets(get, Node, Key) ==
    \A n \in Node, k \in Key, level \in Nat :
        get[n][k][level] = GetStep(n, k, get[Child(n, k, level)][k][level + 1])

Removes(remove, Node, Key) ==
    \A n \in Node, k \in Key, level \in Nat :
        /\ remove[n][k][level] = RemoveStep(n, k, level, remove[Child(n, k, level)][k][level + 1])
        /\ remove[n][k][level] \in Node

\* The merges of the children of two inner nodes.
ChildMerges(merge, a, b, base) ==
    [s \in MergeSlots(a, b, base) |->
        merge[At(a.children, s, EMPTY)][At(b.children, s, EMPTY)][At(BaseChildren(base), s, EMPTY)]]

Merges(merge, Node) ==
    \A a, b, base \in Node :
        /\ merge[a][b][base] = MergeStep(a, b, base, ChildMerges(merge, a, b, base))
        /\ merge[a][b][base] \in Node \cup {NoMerge}

\* What get_at does with each kind of node.
LEMMA GetCases ==
    ASSUME NEW get, NEW Node, NEW Key, Gets(get, Node, Key),
           NEW n \in Node, NEW k \in Key, NEW level \in Nat
    PROVE  /\ n = EMPTY => get[n][k][level] = NotFound
           /\ n # EMPTY /\ IsLeaf(n) => get[n][k][level] = At(n.entries, k, NotFound)
           /\ n # EMPTY /\ ~IsLeaf(n) =>
                 get[n][k][level] = get[At(n.children, bits_at(k, level), EMPTY)][k][level + 1]
BY Zenon DEF Gets, GetStep, Child

Builds(build, Batch) ==
    \A es \in Batch, level \in Nat :
        /\ build[es][level] =
              BuildStep(es, level, build[es][level + 1],
                        [s \in Slots(es, level) |-> build[InSlot(es, level, s)][level + 1]])
        /\ \A S \in SUBSET DOMAIN es : Restricted(es, S) \in Batch

Sets(set, build, Batch, Node, Key, Val) ==
    \A n \in Node, k \in Key, v \in Val, level \in Nat :
        /\ set[n][k][v][level] =
              SetStep(n, k, v, level, build[Extended(n.entries, k, v)][level],
                      set[Child(n, k, level)][k][v][level + 1])
        /\ set[n][k][v][level] \in Node
        /\ n # EMPTY /\ IsLeaf(n) => Extended(n.entries, k, v) \in Batch

\* Where two keys that differ in their bits at a level are split, lookup finds both.
LEMMA SplitLookup ==
    ASSUME NEW Node, TrieNodes(Node), NEW Key, NEW get, Gets(get, Node, Key), MAX_LEVELS \in Nat,
           NEW Batch, NEW build, Builds(build, Batch),
           NEW i \in Key, NEW k \in Key, NEW level \in Nat, level < MAX_LEVELS,
           bits_at(i, level) # bits_at(k, level),
           NEW es \in Batch, DOMAIN es = {i, k}, build[es][level] \in Node, NEW j \in Key
    PROVE  get[build[es][level]][j][level] = At(es, j, NotFound)
<1> DEFINE parts == [s \in Slots(es, level) |-> build[InSlot(es, level, s)][level + 1]]
           sj == bits_at(j, level)
<1>1. ~Single(DOMAIN es) BY Zenon DEF Single
<1>2. Slots(es, level) = {bits_at(i, level), bits_at(k, level)} BY Zenon DEF Slots
<1>3. ~Single(Slots(es, level)) BY <1>2 DEF Single
<1>4. build[es][level] = Inner(parts)
  BY <1>1, <1>3 DEF Builds, BuildStep
<1>5. ASSUME NEW x \in {i, k} PROVE parts[bits_at(x, level)] = Leaf(Restricted(es, {x}))
  <2>1. {y \in DOMAIN es : bits_at(y, level) = bits_at(x, level)} = {x} BY Zenon
  <2>2. InSlot(es, level, bits_at(x, level)) = Restricted(es, {x}) BY <2>1, Zenon DEF InSlot
  <2>3. parts[bits_at(x, level)] = build[Restricted(es, {x})][level + 1] BY Zenon, <1>2, <2>2
  <2>4. DOMAIN Restricted(es, {x}) = {x} BY Zenon DEF Restricted
  <2>5. Single({x}) /\ {x} # {} BY Zenon DEF Single
  <2>6. level + 1 \in Nat /\ Restricted(es, {x}) \in Batch
    <3>1. {x} \in SUBSET DOMAIN es /\ level + 1 \in Nat OBVIOUS
    <3> QED BY <3>1, Zenon DEF Builds
  <2>7. build[Restricted(es, {x})][level + 1] = Leaf(Restricted(es, {x}))
    BY <2>4, <2>5, <2>6, Zenon DEF Builds, BuildStep
  <2> QED BY Zenon, <2>3, <2>7
<1>6. Inner(parts) \in Node /\ Inner(parts) # EMPTY BY Zenon, <1>4 DEF TrieNodes
<1>7. ~IsLeaf(Inner(parts)) /\ IsInner(Inner(parts)) /\ Inner(parts).children = parts
  BY Zenon DEF IsLeaf, IsInner, Inner
<1>8. get[build[es][level]][j][level] = get[At(parts, sj, EMPTY)][j][level + 1]
  BY <1>4, <1>6, <1>7, GetCases
<1>9. CASE sj \in Slots(es, level)
  <2>1. PICK x \in {i, k} : sj = bits_at(x, level) BY Zenon, <1>2, <1>9
  <2> DEFINE part == Restricted(es, {x})
  <2>2. At(parts, sj, EMPTY) = Leaf(part) BY Zenon, <1>5, <1>9, <2>1 DEF At
  <2>3. Leaf(part) \in Node
    <3> HIDE DEF parts, part, sj
    <3>1. At(Inner(parts).children, sj, EMPTY) \in Node BY Zenon, <1>6, <1>7, ChildInNode
    <3> QED BY Zenon, <1>7, <2>2, <3>1
  <2>4. Leaf(part) # EMPTY /\ IsLeaf(Leaf(part)) /\ Leaf(part).entries = part
    BY Zenon DEF TrieNodes, Leaf, IsLeaf
  <2>5. level + 1 \in Nat OBVIOUS
  <2>6. get[Leaf(part)][j][level + 1] = At(part, j, NotFound)
    <3> HIDE DEF part
    <3> QED BY <2>3, <2>4, <2>5, GetCases
  <2>7. At(part, j, NotFound) = At(es, j, NotFound)
    <3>1. CASE j = x BY Zenon, <3>1 DEF At, Restricted
    <3>2. CASE j # x
      <4>1. j \notin DOMAIN es BY Zenon, <2>1, <3>2
      <4> QED BY Zenon, <3>2, <4>1 DEF At, Restricted
    <3> QED BY Zenon, <3>1, <3>2
  <2> QED BY Zenon, <1>8, <2>2, <2>6, <2>7
<1>10. CASE sj \notin Slots(es, level)
  <2>1. At(parts, sj, EMPTY) = EMPTY BY Zenon, <1>10 DEF At
  <2>2. EMPTY \in Node /\ level + 1 \in Nat BY DEF TrieNodes
  <2>3. get[EMPTY][j][level + 1] = NotFound BY <2>2, GetCases
  <2>4. j \notin DOMAIN es BY Zenon, <1>2, <1>10
  <2> QED BY Zenon, <1>8, <2>1, <2>3, <2>4 DEF At
<1> QED BY Zenon, <1>9, <1>10

\* The places of the nodes that the walk for k visits, with their levels, where
\* any leaf that a put of k splits has one entry, of a key that differs from k in
\* its bits at that level.
Apart(Place, Node, Key, k) ==
    /\ Place \subseteq Node \X Nat
    /\ \A n \in Node, level \in Nat :
          <<n, level>> \in Place /\ n # EMPTY =>
             /\ IsLeaf(n) /\ level < MAX_LEVELS /\ k \notin DOMAIN n.entries =>
                   \E i \in Key : DOMAIN n.entries = {i} /\ bits_at(i, level) # bits_at(k, level)
             /\ IsInner(n) => <<Child(n, k, level), level + 1>> \in Place

\* A put gives its key the new value and leaves every other key alone, wherever in
\* the trie it goes, if each leaf it splits holds one key that differs from the new
\* one at that level.  build_from_entries leaves out the levels where they agree,
\* and lookup does not (pmap.rs, set).
THEOREM SetLookup ==
    ASSUME NEW Node, TrieNodes(Node), IsWellFoundedOn(ChildOf(Node), Node), NEW Key, NEW Val,
           NEW get, Gets(get, Node, Key), MAX_LEVELS \in Nat,
           NEW Batch, NEW build, Builds(build, Batch),
           NEW set, Sets(set, build, Batch, Node, Key, Val),
           NEW k \in Key, NEW v \in Val, NEW Place, Apart(Place, Node, Key, k)
    PROVE  \A n \in Node, level \in Nat, j \in Key :
              <<n, level>> \in Place =>
                 get[set[n][k][v][level]][j][level] = IF j = k THEN v ELSE get[n][j][level]
<1> DEFINE Right(n, j, level) ==
               get[set[n][k][v][level]][j][level] = IF j = k THEN v ELSE get[n][j][level]
<1>1. ASSUME NEW j \in Key, NEW level \in Nat PROVE get[EMPTY][j][level] = NotFound
  BY GetCases DEF TrieNodes
<1>2. ASSUME NEW es, Leaf(es) \in Node, NEW j \in Key, NEW level \in Nat
      PROVE  get[Leaf(es)][j][level] = At(es, j, NotFound)
  <2>1. Leaf(es) # EMPTY /\ IsLeaf(Leaf(es)) /\ Leaf(es).entries = es BY Zenon DEF TrieNodes, Leaf, IsLeaf
  <2> QED BY <1>2, <2>1, GetCases
<1>3. ASSUME NEW es, NEW j PROVE At(Extended(es, k, v), j, NotFound) = IF j = k THEN v ELSE At(es, j, NotFound)
  BY Zenon DEF At, Extended
<1>4. ASSUME NEW j \in Key, NEW level \in Nat PROVE Right(EMPTY, j, level)
  <2>1. EMPTY \in Node BY Zenon DEF TrieNodes
  <2>2. set[EMPTY][k][v][level] = Leaf(Extended(<<>>, k, v)) BY Zenon, <2>1 DEF Sets, SetStep
  <2>3. Leaf(Extended(<<>>, k, v)) \in Node BY Zenon, <2>1, <2>2 DEF Sets
  <2>4. get[Leaf(Extended(<<>>, k, v))][j][level] = At(Extended(<<>>, k, v), j, NotFound) BY Zenon, <1>2, <2>3
  <2>5. At(<<>>, j, NotFound) = NotFound BY DEF At
  <2> QED BY Zenon, <1>1, <1>3, <2>2, <2>4, <2>5
<1>5. ASSUME NEW n \in Node, n # EMPTY, IsLeaf(n), NEW j \in Key, NEW level \in Nat, <<n, level>> \in Place
      PROVE  Right(n, j, level)
  <2> DEFINE es == Extended(n.entries, k, v)
  <2>1. get[n][j][level] = At(n.entries, j, NotFound) BY <1>5, GetCases
  <2>2. set[n][k][v][level] = IF k \in DOMAIN n.entries \/ level >= MAX_LEVELS
                              THEN Leaf(es) ELSE build[es][level]
    BY Zenon, <1>5 DEF Sets, SetStep
  <2>3. At(es, j, NotFound) = IF j = k THEN v ELSE At(n.entries, j, NotFound) BY Zenon, <1>3
  <2>4. set[n][k][v][level] \in Node /\ es \in Batch BY Zenon, <1>5 DEF Sets
  <2>5. CASE k \in DOMAIN n.entries \/ level >= MAX_LEVELS
    <3>1. set[n][k][v][level] = Leaf(es) BY Zenon, <2>2, <2>5
    <3> HIDE DEF es
    <3> QED BY ZenonT(40), <1>2, <2>1, <2>3, <2>4, <3>1
  <2>6. CASE ~(k \in DOMAIN n.entries \/ level >= MAX_LEVELS)
    <3>1. set[n][k][v][level] = build[es][level] BY Zenon, <2>2, <2>6
    <3>2. level < MAX_LEVELS BY <2>6
    <3>3. PICK i \in Key : DOMAIN n.entries = {i} /\ bits_at(i, level) # bits_at(k, level)
      BY <1>5, <2>6, <3>2, Zenon DEF Apart
    <3>4. DOMAIN es = {i, k} BY Zenon, <3>3 DEF Extended
    <3> HIDE DEF es
    <3>5. get[build[es][level]][j][level] = At(es, j, NotFound)
      BY SMTT(30), <2>4, <3>1, <3>2, <3>3, <3>4, SplitLookup
    <3> QED BY Zenon, <2>1, <2>3, <3>1, <3>5
  <2> QED BY Zenon, <2>5, <2>6
<1> DEFINE Missed == {n \in Node : \E j \in Key, level \in Nat : <<n, level>> \in Place /\ ~Right(n, j, level)}
<1> SUFFICES ASSUME Missed # {} PROVE FALSE
    OBVIOUS
<1> HIDE DEF Right, Missed
<1>6. PICK n \in Missed : \A c \in Missed : <<c, n>> \notin ChildOf(Node)
  <2>1. Missed \subseteq Node BY Zenon DEF Missed
  <2> QED BY Zenon, <2>1, WFMin
<1>7. n \in Node BY Zenon DEF Missed
<1>8. PICK j \in Key, level \in Nat : <<n, level>> \in Place /\ ~Right(n, j, level) BY Zenon DEF Missed
<1>9. n # EMPTY /\ ~IsLeaf(n) BY Zenon, <1>4, <1>5, <1>7, <1>8
<1>10. IsInner(n) BY Zenon, <1>7, <1>9 DEF TrieNodes
<1> DEFINE s == bits_at(k, level)
           sj == bits_at(j, level)
           c == Child(n, k, level)
           child == set[c][k][v][level + 1]
           cs == Extended(n.children, s, child)
<1>11. c \in Node /\ (c # EMPTY => <<c, n>> \in ChildOf(Node)) BY Zenon, <1>7, <1>9, <1>10, ChildInNode DEF Child
<1>12. <<c, level + 1>> \in Place BY <1>7, <1>8, <1>9, <1>10, Zenon DEF Apart
<1>13. Right(c, j, level + 1)
  <2>1. level + 1 \in Nat OBVIOUS
  <2> HIDE DEF c
  <2>2. CASE c = EMPTY BY Zenon, <1>4, <2>1, <2>2
  <2>3. CASE c # EMPTY
    <3>1. c \notin Missed BY Zenon, <1>6, <1>11, <2>3
    <3> QED BY <1>11, <1>12, <2>1, <3>1, Zenon DEF Missed
  <2> QED BY Zenon, <2>2, <2>3
<1>14. set[n][k][v][level] = Inner(cs) BY Zenon, <1>7, <1>9 DEF Sets, SetStep
<1>15. Inner(cs) \in Node /\ Inner(cs) # EMPTY BY Zenon, <1>7, <1>14 DEF TrieNodes, Sets
<1>16. ~IsLeaf(Inner(cs)) /\ Inner(cs).children = cs BY Zenon DEF IsLeaf, Inner
<1>17. get[n][j][level] = get[At(n.children, sj, EMPTY)][j][level + 1] BY <1>7, <1>9, GetCases
<1>18. get[Inner(cs)][j][level] = get[At(cs, sj, EMPTY)][j][level + 1]
  <2> HIDE DEF cs
  <2> QED BY <1>15, <1>16, GetCases
<1>19. At(cs, sj, EMPTY) = IF sj = s THEN child ELSE At(n.children, sj, EMPTY) BY Zenon DEF At, Extended
<1>20. CASE sj = s
  <2>1. At(n.children, sj, EMPTY) = c BY Zenon, <1>20 DEF Child
  <2> QED BY Zenon, <1>8, <1>13, <1>14, <1>17, <1>18, <1>19, <1>20, <2>1 DEF Right
<1>21. CASE sj # s
  <2>1. j # k BY Zenon, <1>21
  <2> QED BY Zenon, <1>8, <1>14, <1>17, <1>18, <1>19, <1>21, <2>1 DEF Right
<1> QED BY Zenon, <1>20, <1>21

\* Removing a key takes that key away and no other one, whatever hash bits the
\* keys share and whichever nodes go with it (pmap.rs, remove).
THEOREM RemoveLookup ==
    ASSUME NEW Node, TrieNodes(Node), IsWellFoundedOn(ChildOf(Node), Node), NEW Key,
           NEW get, Gets(get, Node, Key), NEW remove, Removes(remove, Node, Key)
    PROVE  \A n \in Node, k, j \in Key, level \in Nat :
              get[remove[n][k][level]][j][level] = IF j = k THEN NotFound ELSE get[n][j][level]
<1> DEFINE Right(n, k, j, level) ==
               get[remove[n][k][level]][j][level] = IF j = k THEN NotFound ELSE get[n][j][level]
<1>1. ASSUME NEW k \in Key, NEW level \in Nat PROVE get[EMPTY][k][level] = NotFound
  BY GetCases DEF TrieNodes
<1>2. ASSUME NEW n \in Node, n # EMPTY, IsLeaf(n), NEW k \in Key, NEW level \in Nat
      PROVE  get[n][k][level] = At(n.entries, k, NotFound)
  BY <1>2, GetCases
<1>3. ASSUME NEW n \in Node, n # EMPTY, ~IsLeaf(n), NEW k \in Key, NEW level \in Nat
      PROVE  get[n][k][level] = get[At(n.children, bits_at(k, level), EMPTY)][k][level + 1]
  BY <1>3, GetCases
<1>4. ASSUME NEW k \in Key, NEW j \in Key, NEW level \in Nat PROVE Right(EMPTY, k, j, level)
  <2>1. EMPTY \in Node BY Zenon DEF TrieNodes
  <2>2. remove[EMPTY][k][level] = EMPTY BY Zenon, <2>1 DEF Removes, RemoveStep
  <2> QED BY Zenon, <1>1, <2>2
<1>5. ASSUME NEW n \in Node, n # EMPTY, IsLeaf(n), NEW k \in Key, NEW j \in Key, NEW level \in Nat
      PROVE  Right(n, k, j, level)
  <2> DEFINE rest == Restricted(n.entries, DOMAIN n.entries \ {k})
  <2>1. get[n][j][level] = At(n.entries, j, NotFound) BY Zenon, <1>2, <1>5
  <2>2. remove[n][k][level] = IF DOMAIN n.entries = {k} THEN EMPTY ELSE Leaf(rest)
    BY Zenon, <1>5 DEF Removes, RemoveStep
  <2>3. CASE DOMAIN n.entries = {k}
    <3>1. remove[n][k][level] = EMPTY BY Zenon, <1>5, <2>2, <2>3
    <3> QED BY Zenon, <1>1, <2>1, <2>3, <3>1 DEF At
  <2>4. CASE DOMAIN n.entries # {k}
    <3>1. remove[n][k][level] = Leaf(rest) BY Zenon, <1>5, <2>2, <2>4
    <3>2. Leaf(rest) \in Node /\ Leaf(rest) # EMPTY BY Zenon, <3>1 DEF TrieNodes, Removes
    <3>3. IsLeaf(Leaf(rest)) /\ Leaf(rest).entries = rest BY Zenon DEF IsLeaf, Leaf
    <3>4. get[Leaf(rest)][j][level] = At(rest, j, NotFound) BY Zenon, <1>2, <3>2, <3>3
    <3>5. At(rest, j, NotFound) = IF j = k THEN NotFound ELSE At(n.entries, j, NotFound)
      BY Zenon DEF At, Restricted
    <3> QED BY Zenon, <2>1, <3>1, <3>4, <3>5
  <2> QED BY Zenon, <2>3, <2>4
<1> DEFINE Missed == {n \in Node : \E k, j \in Key, level \in Nat : ~Right(n, k, j, level)}
<1> SUFFICES ASSUME Missed # {} PROVE FALSE
    OBVIOUS
<1> HIDE DEF Right, Missed
<1>6. PICK n \in Missed : \A c \in Missed : <<c, n>> \notin ChildOf(Node)
  <2>1. Missed \subseteq Node BY Zenon DEF Missed
  <2> QED BY Zenon, <2>1, WFMin
<1>7. n \in Node BY Zenon DEF Missed
<1>8. PICK k \in Key, j \in Key, level \in Nat : ~Right(n, k, j, level)
  BY Zenon DEF Missed
<1>9. n # EMPTY /\ ~IsLeaf(n) BY Zenon, <1>4, <1>5, <1>7, <1>8
<1>10. IsInner(n) /\ \A p \in DOMAIN n.children : n.children[p] \in Node BY Zenon, <1>7, <1>9 DEF TrieNodes
<1> DEFINE s == bits_at(k, level)
           sj == bits_at(j, level)
           c == At(n.children, s, EMPTY)
           child == remove[c][k][level + 1]
           R == remove[n][k][level]
<1>11. c \in Node /\ child \in Node
  <2>1. c \in Node BY Zenon, <1>7, <1>9, <1>10, ChildInNode
  <2>2. level + 1 \in Nat OBVIOUS
  <2> HIDE DEF c
  <2> QED BY Zenon, <2>1, <2>2 DEF Removes
<1>12. get[n][j][level] = get[At(n.children, sj, EMPTY)][j][level + 1] BY Zenon, <1>3, <1>7, <1>9
<1>13. R = IF s \notin DOMAIN n.children THEN n
           ELSE IF child # EMPTY THEN Inner(Extended(n.children, s, child))
           ELSE IF DOMAIN n.children = {s} THEN EMPTY
           ELSE Inner(Restricted(n.children, DOMAIN n.children \ {s}))
  BY ZenonT(40), <1>7, <1>9 DEF Removes, RemoveStep, Child
<1>14. CASE s \notin DOMAIN n.children
  <2>1. R = n BY Zenon, <1>9, <1>13, <1>14
  <2>2. CASE j = k
    <3>1. At(n.children, sj, EMPTY) = EMPTY BY Zenon, <1>14, <2>2 DEF At
    <3> QED BY <1>1, <1>8, <1>12, <2>1, <2>2, <3>1 DEF Right
  <2>3. CASE j # k BY Zenon, <1>8, <2>1, <2>3 DEF Right
  <2> QED BY Zenon, <2>2, <2>3
<1>15. CASE s \in DOMAIN n.children
  <2>1. c = n.children[s] /\ <<c, n>> \in ChildOf(Node) BY Zenon, <1>7, <1>9, <1>10, <1>15 DEF At, ChildOf
  <2>2. Right(c, k, j, level + 1)
    <3>1. c \notin Missed /\ level + 1 \in Nat BY <1>6, <2>1
    <3> QED BY <1>11, <3>1, Zenon DEF Missed
  <2>3. get[R][j][level] = get[IF sj = s THEN child ELSE At(n.children, sj, EMPTY)][j][level + 1]
    <3>1. CASE child # EMPTY
      <4> DEFINE cs == Extended(n.children, s, child)
      <4>1. R = Inner(cs) BY Zenon, <1>9, <1>13, <1>15, <3>1
      <4>2. Inner(cs) \in Node /\ Inner(cs) # EMPTY BY Zenon, <1>7, <4>1 DEF TrieNodes, Removes
      <4>3. ~IsLeaf(Inner(cs)) /\ Inner(cs).children = cs BY Zenon DEF IsLeaf, Inner
      <4>4. get[Inner(cs)][j][level] = get[At(cs, sj, EMPTY)][j][level + 1] BY ZenonT(40), <1>3, <4>2, <4>3
      <4>5. At(cs, sj, EMPTY) = IF sj = s THEN child ELSE At(n.children, sj, EMPTY) BY Zenon DEF At, Extended
      <4> QED BY Zenon, <4>1, <4>4, <4>5
    <3>2. CASE child = EMPTY /\ DOMAIN n.children = {s}
      <4>1. R = EMPTY BY Zenon, <1>9, <1>13, <1>15, <3>2
      <4>2. (IF sj = s THEN child ELSE At(n.children, sj, EMPTY)) = EMPTY BY Zenon, <3>2 DEF At
      <4> QED BY <1>1, <4>1, <4>2
    <3>3. CASE child = EMPTY /\ DOMAIN n.children # {s}
      <4> DEFINE cs == Restricted(n.children, DOMAIN n.children \ {s})
      <4>1. R = Inner(cs) BY Zenon, <1>9, <1>13, <1>15, <3>3
      <4>2. Inner(cs) \in Node /\ Inner(cs) # EMPTY BY Zenon, <1>7, <4>1 DEF TrieNodes, Removes
      <4>3. ~IsLeaf(Inner(cs)) /\ Inner(cs).children = cs BY Zenon DEF IsLeaf, Inner
      <4>4. get[Inner(cs)][j][level] = get[At(cs, sj, EMPTY)][j][level + 1] BY ZenonT(40), <1>3, <4>2, <4>3
      <4>5. At(cs, sj, EMPTY) = IF sj = s THEN child ELSE At(n.children, sj, EMPTY)
        BY Zenon, <3>3 DEF At, Restricted
      <4> QED BY Zenon, <4>1, <4>4, <4>5
    <3> QED BY Zenon, <3>1, <3>2, <3>3
  <2>4. CASE sj = s
    <3>1. At(n.children, sj, EMPTY) = c BY Zenon, <2>4
    <3> QED BY Zenon, <1>8, <1>12, <2>2, <2>3, <2>4, <3>1 DEF Right
  <2>5. CASE sj # s
    <3>1. j # k BY Zenon, <2>5
    <3> QED BY Zenon, <1>8, <1>12, <2>3, <2>5, <3>1 DEF Right
  <2> QED BY Zenon, <2>4, <2>5
<1> QED BY Zenon, <1>14, <1>15

\* Which side is ours makes no difference to one key.
LEMMA EntrySymmetric ==
    ASSUME NEW x, NEW y, NEW z PROVE MergeEntry(x, y, z) = MergeEntry(y, x, z)
BY Zenon DEF MergeEntry

\* Nor to the keys of two leaves.
LEMMA EntriesSymmetric ==
    ASSUME NEW ea, NEW eb, NEW ebase PROVE MergeEntries(ea, eb, ebase) = MergeEntries(eb, ea, ebase)
<1>1. DOMAIN ea \cup DOMAIN eb \cup DOMAIN ebase = DOMAIN eb \cup DOMAIN ea \cup DOMAIN ebase
  BY Zenon
<1>2. \A k : MergeEntry(At(ea, k, NotFound), At(eb, k, NotFound), At(ebase, k, NotFound))
           = MergeEntry(At(eb, k, NotFound), At(ea, k, NotFound), At(ebase, k, NotFound))
  BY Zenon, EntrySymmetric
<1> QED BY <1>1, <1>2, Zenon DEF MergeEntries

Differ(a, b, base) == a # b /\ a # base /\ b # base

\* What merge_at does if a side has not changed, or both have changed alike.
LEMMA MergeSame ==
    ASSUME NEW merge, NEW Node, Merges(merge, Node), NEW a \in Node, NEW b \in Node
    PROVE  merge[a][a][b] = a /\ merge[a][b][a] = b /\ merge[a][b][b] = a
BY DEF Merges, MergeStep

\* What it does if both have.
LEMMA MergeCases ==
    ASSUME NEW merge, NEW Node, TrieNodes(Node), Merges(merge, Node),
           NEW a \in Node, NEW b \in Node, NEW base \in Node, Differ(a, b, base)
    PROVE  /\ a # EMPTY /\ b # EMPTY /\ IsLeaf(a) /\ IsLeaf(b) =>
                 merge[a][b][base] = MergedLeaf(MergeEntries(a.entries, b.entries, BaseEntries(base)))
           /\ a # EMPTY /\ b # EMPTY /\ ~IsLeaf(a) /\ ~IsLeaf(b) =>
                 /\ IsInner(a) /\ IsInner(b)
                 /\ merge[a][b][base] = MergedInner(ChildMerges(merge, a, b, base))
           /\ a = EMPTY \/ b = EMPTY \/ (IsLeaf(a) /\ ~IsLeaf(b)) \/ (~IsLeaf(a) /\ IsLeaf(b)) =>
                 merge[a][b][base] = NoMerge
<1>1. merge[a][b][base] =
          IF a = EMPTY \/ b = EMPTY THEN NoMerge
          ELSE IF IsLeaf(a) /\ IsLeaf(b)
               THEN MergedLeaf(MergeEntries(a.entries, b.entries, BaseEntries(base)))
          ELSE IF IsInner(a) /\ IsInner(b) THEN MergedInner(ChildMerges(merge, a, b, base))
          ELSE NoMerge
  BY DEF Merges, MergeStep, Differ
<1>2. a # EMPTY => (IsLeaf(a) /\ ~IsInner(a)) \/ (IsInner(a) /\ ~IsLeaf(a)) BY Zenon DEF TrieNodes
<1>3. b # EMPTY => (IsLeaf(b) /\ ~IsInner(b)) \/ (IsInner(b) /\ ~IsLeaf(b)) BY Zenon DEF TrieNodes
<1> QED BY <1>1, <1>2, <1>3, Zenon

\* The order of the two sides of a merge does not matter: whichever of two
\* transactions commits second, the store ends with the same root, or both
\* orders are refused (pmap.rs, merge_three_way).
THEOREM MergeSymmetric ==
    ASSUME NEW Node, TrieNodes(Node), IsWellFoundedOn(ChildOf(Node), Node),
           NEW merge, Merges(merge, Node)
    PROVE  \A a, b, base \in Node : merge[a][b][base] = merge[b][a][base]
<1>1. ASSUME NEW a \in Node, NEW b \in Node, NEW base \in Node, ~Differ(a, b, base)
      PROVE  merge[a][b][base] = merge[b][a][base]
  BY <1>1, MergeSame DEF Differ
<1>2. ASSUME NEW a \in Node, NEW b \in Node, NEW base \in Node, Differ(a, b, base),
             ~(IsInner(a) /\ IsInner(b) /\ a # EMPTY /\ b # EMPTY)
      PROVE  merge[a][b][base] = merge[b][a][base]
  <2>1. Differ(b, a, base) BY Zenon, <1>2 DEF Differ
  <2>2. CASE a = EMPTY \/ b = EMPTY \/ (IsLeaf(a) /\ ~IsLeaf(b)) \/ (~IsLeaf(a) /\ IsLeaf(b))
    <3>1. merge[a][b][base] = NoMerge BY <1>2, <2>2, MergeCases
    <3>2. merge[b][a][base] = NoMerge BY <2>1, <2>2, MergeCases
    <3> QED BY Zenon, <3>1, <3>2
  <2>3. CASE a # EMPTY /\ b # EMPTY /\ IsLeaf(a) /\ IsLeaf(b)
    <3>1. merge[a][b][base] = MergedLeaf(MergeEntries(a.entries, b.entries, BaseEntries(base)))
      BY <1>2, <2>3, MergeCases
    <3>2. merge[b][a][base] = MergedLeaf(MergeEntries(b.entries, a.entries, BaseEntries(base)))
      BY <2>1, <2>3, MergeCases
    <3> QED BY Zenon, <3>1, <3>2, EntriesSymmetric
  <2>4. a # EMPTY => (IsLeaf(a) /\ ~IsInner(a)) \/ (IsInner(a) /\ ~IsLeaf(a)) BY Zenon DEF TrieNodes
  <2>5. b # EMPTY => (IsLeaf(b) /\ ~IsInner(b)) \/ (IsInner(b) /\ ~IsLeaf(b)) BY Zenon DEF TrieNodes
  <2> QED BY <1>2, <2>2, <2>3, <2>4, <2>5, Zenon
<1> DEFINE Asymmetric == {a \in Node : \E b, base \in Node : merge[a][b][base] # merge[b][a][base]}
<1> SUFFICES ASSUME Asymmetric # {} PROVE FALSE
    BY ZenonT(40)
<1>3. PICK a \in Asymmetric : \A m \in Asymmetric : <<m, a>> \notin ChildOf(Node)
  <2>1. Asymmetric \subseteq Node BY Zenon
  <2> HIDE DEF Asymmetric
  <2> QED BY Zenon, <2>1, WFMin
<1>4. a \in Node BY Zenon
<1>5. PICK b \in Node, base \in Node : merge[a][b][base] # merge[b][a][base]
  BY Zenon
<1>6. Differ(a, b, base) /\ Differ(b, a, base) BY ZenonT(40), <1>1, <1>4, <1>5 DEF Differ
<1>7. IsInner(a) /\ IsInner(b) /\ a # EMPTY /\ b # EMPTY BY ZenonT(40), <1>2, <1>4, <1>5, <1>6
<1>8. ~IsLeaf(a) /\ ~IsLeaf(b) BY Zenon, <1>4, <1>7 DEF TrieNodes
<1>9. ChildMerges(merge, a, b, base) = ChildMerges(merge, b, a, base)
  <2>1. ASSUME NEW s
        PROVE  merge[At(a.children, s, EMPTY)][At(b.children, s, EMPTY)][At(BaseChildren(base), s, EMPTY)]
             = merge[At(b.children, s, EMPTY)][At(a.children, s, EMPTY)][At(BaseChildren(base), s, EMPTY)]
    <3> DEFINE ca == At(a.children, s, EMPTY)
               cb == At(b.children, s, EMPTY)
               cz == At(BaseChildren(base), s, EMPTY)
    <3>1. ca \in Node /\ cb \in Node /\ cz \in Node /\ (ca # EMPTY => <<ca, a>> \in ChildOf(Node))
      BY Zenon, <1>4, <1>7, ChildInNode, BaseInNode
    <3> HIDE DEF ca, cb, cz
    <3>2. merge[ca][cb][cz] = merge[cb][ca][cz]
      <4>1. CASE ca # EMPTY
        <5>1. ca \notin Asymmetric BY Zenon, <1>3, <3>1, <4>1
        <5> QED BY Zenon, <3>1, <5>1
      <4>2. CASE ca = EMPTY
        <5>1. CASE ~Differ(ca, cb, cz) BY <1>1, <3>1, <5>1
        <5>2. CASE Differ(ca, cb, cz) BY <1>2, <3>1, <4>2, <5>2
        <5> QED BY Zenon, <5>1, <5>2
      <4> QED BY Zenon, <4>1, <4>2
    <3> QED BY Zenon, <3>2 DEF ca, cb, cz
  <2>2. MergeSlots(a, b, base) = MergeSlots(b, a, base) BY Zenon DEF MergeSlots
  <2> QED BY <2>1, <2>2, Zenon DEF ChildMerges
<1>10. merge[a][b][base] = MergedInner(ChildMerges(merge, a, b, base))
  BY <1>4, <1>5, <1>6, <1>7, <1>8, MergeCases
<1>11. merge[b][a][base] = MergedInner(ChildMerges(merge, b, a, base))
  BY <1>4, <1>5, <1>6, <1>7, <1>8, MergeCases
<1> QED BY Zenon, <1>5, <1>9, <1>10, <1>11

\* What the merge of two sides with values x and y over a base z may give.
BothKept(m, x, y, z) == (x = y \/ x = z \/ y = z) /\ m = IF x = z THEN y ELSE x

\* Two sides and a base such that, wherever both sides have changed, the base is
\* empty or a node of their kind.
Aligned(Triples, Node) ==
    /\ Triples \subseteq Node \X Node \X Node
    /\ \A a, b, base \in Node :
          <<a, b, base>> \in Triples /\ a # EMPTY /\ b # EMPTY =>
             /\ IsLeaf(a) /\ IsLeaf(b) => base = EMPTY \/ IsLeaf(base)
             /\ IsInner(a) /\ IsInner(b) =>
                   /\ base = EMPTY \/ IsInner(base)
                   /\ \A s : <<At(a.children, s, EMPTY), At(b.children, s, EMPTY),
                               At(BaseChildren(base), s, EMPTY)>> \in Triples

\* A lookup in the parts that were kept.
LEMMA KeptAt ==
    ASSUME NEW parts, NEW absent, NEW p
    PROVE  At(Kept(parts, absent), p, absent) = At(parts, p, absent)
BY Zenon DEF Kept, At, Restricted

\* Where nothing was kept there was nothing.
LEMMA KeptNone ==
    ASSUME NEW parts, NEW absent, Kept(parts, absent) = <<>>, NEW p
    PROVE  At(parts, p, absent) = absent
<1>1. DOMAIN Kept(parts, absent) = {} BY DEF Kept
<1> QED BY Zenon, <1>1, KeptAt DEF At

\* One key of two leaves that were merged without a conflict.
LEMMA EntriesLookup ==
    ASSUME NEW ea, NEW eb, NEW ez, ~Conflicting(MergeEntries(ea, eb, ez)), NEW k
    PROVE  BothKept(At(MergeEntries(ea, eb, ez), k, NotFound),
                    At(ea, k, NotFound), At(eb, k, NotFound), At(ez, k, NotFound))
<1> DEFINE x == At(ea, k, NotFound)
           y == At(eb, k, NotFound)
           z == At(ez, k, NotFound)
           D == DOMAIN ea \cup DOMAIN eb \cup DOMAIN ez
<1>1. DOMAIN MergeEntries(ea, eb, ez) = D BY Zenon DEF MergeEntries
<1>2. CASE k \in D
  <2>1. MergeEntries(ea, eb, ez)[k] = MergeEntry(x, y, z) BY Zenon, <1>2 DEF MergeEntries
  <2>2. MergeEntry(x, y, z) # NoMerge BY Zenon, <1>1, <1>2, <2>1 DEF Conflicting
  <2>3. At(MergeEntries(ea, eb, ez), k, NotFound) = MergeEntry(x, y, z) BY Zenon, <1>1, <1>2, <2>1 DEF At
  <2> HIDE DEF x, y, z
  <2>4. BothKept(MergeEntry(x, y, z), x, y, z) BY Zenon, <2>2 DEF MergeEntry, BothKept
  <2> QED BY Zenon, <2>3, <2>4 DEF x, y, z
<1>3. CASE k \notin D BY Zenon, <1>1, <1>3 DEF At, BothKept
<1> QED BY Zenon, <1>2, <1>3

\* merge_three_way never invents a value: if the base of a merge is empty or of
\* the kind of the two sides wherever both have changed, then in a root that the
\* merge returns every key has the value of the side that changed it, and no key
\* was changed to different values by the two.  A base of another kind counts as
\* empty, and a key that one side removed may come back.
THEOREM MergeLookup ==
    ASSUME NEW Node, TrieNodes(Node), IsWellFoundedOn(ChildOf(Node), Node),
           NEW Key, NEW Triples, Aligned(Triples, Node),
           NEW get, Gets(get, Node, Key), NEW merge, Merges(merge, Node), NoMerge \notin Node
    PROVE  \A a, b, base \in Node, k \in Key, level \in Nat :
              <<a, b, base>> \in Triples /\ merge[a][b][base] # NoMerge =>
                 BothKept(get[merge[a][b][base]][k][level],
                          get[a][k][level], get[b][k][level], get[base][k][level])
<1> DEFINE Right(a, b, base, k, level) ==
               BothKept(get[merge[a][b][base]][k][level],
                        get[a][k][level], get[b][k][level], get[base][k][level])
<1>1. ASSUME NEW a \in Node, NEW b \in Node, NEW base \in Node, ~Differ(a, b, base), NEW k, NEW level
      PROVE  Right(a, b, base, k, level)
  <2>1. CASE a = b
    <3>1. merge[a][b][base] = a BY <2>1, MergeSame
    <3> QED BY Zenon, <2>1, <3>1 DEF BothKept
  <2>2. CASE a = base
    <3>1. merge[a][b][base] = b BY <2>2, MergeSame
    <3> QED BY Zenon, <2>2, <3>1 DEF BothKept
  <2>3. CASE b = base
    <3>1. merge[a][b][base] = a BY <2>3, MergeSame
    <3> QED BY Zenon, <2>3, <3>1 DEF BothKept
  <2> QED BY Zenon, <1>1, <2>1, <2>2, <2>3 DEF Differ
<1>2. ASSUME NEW a \in Node, NEW b \in Node, NEW base \in Node, Differ(a, b, base),
             merge[a][b][base] # NoMerge
      PROVE  /\ a # EMPTY /\ b # EMPTY
             /\ (IsLeaf(a) /\ IsLeaf(b)) \/ (IsInner(a) /\ IsInner(b) /\ ~IsLeaf(a) /\ ~IsLeaf(b))
  BY <1>2, MergeCases
<1>3. ASSUME NEW a \in Node, NEW b \in Node, NEW base \in Node, Differ(a, b, base),
             a # EMPTY, b # EMPTY, IsLeaf(a), IsLeaf(b)
      PROVE  merge[a][b][base] = MergedLeaf(MergeEntries(a.entries, b.entries, BaseEntries(base)))
  BY <1>3, MergeCases
<1>4. ASSUME NEW a \in Node, NEW b \in Node, NEW base \in Node, Differ(a, b, base),
             a # EMPTY, b # EMPTY, ~IsLeaf(a), ~IsLeaf(b)
      PROVE  merge[a][b][base] = MergedInner(ChildMerges(merge, a, b, base))
  BY Zenon, <1>4, MergeCases
<1>5. ASSUME NEW k \in Key, NEW level \in Nat PROVE get[EMPTY][k][level] = NotFound
  BY GetCases DEF TrieNodes
<1>6. ASSUME NEW n \in Node, n # EMPTY, IsLeaf(n), NEW k \in Key, NEW level \in Nat
      PROVE  get[n][k][level] = At(n.entries, k, NotFound)
  BY <1>6, GetCases
<1>7. ASSUME NEW n \in Node, n # EMPTY, ~IsLeaf(n), NEW k \in Key, NEW level \in Nat
      PROVE  get[n][k][level] = get[At(n.children, bits_at(k, level), EMPTY)][k][level + 1]
  BY <1>7, GetCases
<1>8. ASSUME NEW a \in Node, NEW b \in Node, NEW base \in Node, Differ(a, b, base), a # EMPTY, b # EMPTY,
             IsLeaf(a), IsLeaf(b), <<a, b, base>> \in Triples, merge[a][b][base] # NoMerge,
             NEW k \in Key, NEW level \in Nat
      PROVE  Right(a, b, base, k, level)
  <2> DEFINE es == MergeEntries(a.entries, b.entries, BaseEntries(base))
             m == merge[a][b][base]
  <2>1. m = MergedLeaf(es) BY Zenon, <1>3, <1>8
  <2>2. m \in Node BY Zenon, <1>8 DEF Merges
  <2>3. ~Conflicting(es) BY Zenon, <1>8, <2>1 DEF MergedLeaf
  <2>4. get[a][k][level] = At(a.entries, k, NotFound) /\ get[b][k][level] = At(b.entries, k, NotFound)
    BY Zenon, <1>6, <1>8
  <2>5. get[base][k][level] = At(BaseEntries(base), k, NotFound)
    <3>1. CASE base = EMPTY BY <1>5, <3>1 DEF BaseEntries, At
    <3>2. CASE base # EMPTY
      <4>1. IsLeaf(base) BY Zenon, <1>8, <3>2 DEF Aligned
      <4> QED BY Zenon, <1>6, <3>2, <4>1 DEF BaseEntries
    <3> QED BY Zenon, <3>1, <3>2
  <2>6. get[m][k][level] = At(es, k, NotFound)
    <3>1. CASE Kept(es, NotFound) = <<>>
      <4>1. m = EMPTY BY Zenon, <2>1, <2>3, <3>1 DEF MergedLeaf
      <4>2. At(es, k, NotFound) = NotFound BY Zenon, <3>1, KeptNone
      <4> QED BY Zenon, <1>5, <4>1, <4>2
    <3>2. CASE Kept(es, NotFound) # <<>>
      <4>1. m = Leaf(Kept(es, NotFound)) BY Zenon, <2>1, <2>3, <3>2 DEF MergedLeaf
      <4>2. CASE m = EMPTY BY Zenon, <4>1, <4>2 DEF TrieNodes
      <4>3. CASE m # EMPTY
        <5>1. IsLeaf(m) /\ m.entries = Kept(es, NotFound) BY <4>1 DEF Leaf, IsLeaf
        <5>2. get[m][k][level] = At(Kept(es, NotFound), k, NotFound) BY Zenon, <1>6, <2>2, <4>3, <5>1
        <5> QED BY Zenon, <5>2, KeptAt
      <4> QED BY Zenon, <4>2, <4>3
    <3> QED BY Zenon, <3>1, <3>2
  <2>7. BothKept(At(es, k, NotFound), At(a.entries, k, NotFound), At(b.entries, k, NotFound),
                 At(BaseEntries(base), k, NotFound))
    BY Zenon, <2>3, EntriesLookup
  <2> HIDE DEF m, es
  <2> QED BY Zenon, <2>4, <2>5, <2>6, <2>7 DEF m
<1> DEFINE Missed == {a \in Node : \E b, base \in Node, k \in Key, level \in Nat :
                          /\ <<a, b, base>> \in Triples /\ merge[a][b][base] # NoMerge
                          /\ ~Right(a, b, base, k, level)}
<1> HIDE DEF Right, Missed
<1> SUFFICES ASSUME Missed # {} PROVE FALSE
    BY ZenonT(40) DEF Missed, Right
<1>9. PICK a \in Missed : \A n \in Missed : <<n, a>> \notin ChildOf(Node)
  <2>1. Missed \subseteq Node BY Zenon DEF Missed
  <2> QED BY Zenon, <2>1, WFMin
<1>10. a \in Node BY Zenon DEF Missed
<1>11. PICK b \in Node, base \in Node, k \in Key, level \in Nat :
           /\ <<a, b, base>> \in Triples /\ merge[a][b][base] # NoMerge
           /\ ~Right(a, b, base, k, level)
  BY Zenon DEF Missed
<1>12. Differ(a, b, base) BY Zenon, <1>1, <1>10, <1>11
<1>13. a # EMPTY /\ b # EMPTY BY Zenon, <1>2, <1>10, <1>11, <1>12
<1>14. IsInner(a) /\ IsInner(b) /\ ~IsLeaf(a) /\ ~IsLeaf(b)
  <2>1. ~(IsLeaf(a) /\ IsLeaf(b)) BY Zenon, <1>8, <1>10, <1>11, <1>12, <1>13
  <2> QED BY <1>2, <1>10, <1>11, <1>12, <2>1, Zenon
<1> DEFINE s == bits_at(k, level)
           ca == At(a.children, s, EMPTY)
           cb == At(b.children, s, EMPTY)
           cz == At(BaseChildren(base), s, EMPTY)
           cs == ChildMerges(merge, a, b, base)
           m == merge[a][b][base]
<1>15. /\ ca \in Node /\ cb \in Node /\ cz \in Node
       /\ ca # EMPTY => <<ca, a>> \in ChildOf(Node)
  BY Zenon, <1>10, <1>13, <1>14, ChildInNode, BaseInNode
<1>16. <<ca, cb, cz>> \in Triples BY Zenon, <1>10, <1>11, <1>13, <1>14 DEF Aligned
<1>17. m = MergedInner(cs) /\ m \in Node
  <2>1. m = MergedInner(cs) BY Zenon, <1>4, <1>10, <1>12, <1>13, <1>14
  <2> QED BY ZenonT(40), <2>1, <1>10, <1>11 DEF Merges
<1>18. ~Conflicting(cs) BY Zenon, <1>11, <1>17 DEF MergedInner
<1>19. At(cs, s, EMPTY) = merge[ca][cb][cz] /\ merge[ca][cb][cz] # NoMerge
  <2> DEFINE D == DOMAIN a.children \cup DOMAIN b.children \cup DOMAIN BaseChildren(base)
  <2>1. cs = [p \in D |-> merge[At(a.children, p, EMPTY)][At(b.children, p, EMPTY)][At(BaseChildren(base), p, EMPTY)]]
    BY Zenon DEF ChildMerges, MergeSlots
  <2>2. CASE s \in D
    <3>1. cs[s] = merge[ca][cb][cz] /\ s \in DOMAIN cs BY Zenon, <2>1, <2>2
    <3> QED BY Zenon, <1>18, <3>1 DEF At, Conflicting
  <2>3. CASE s \notin D
    <3>1. ca = EMPTY /\ cb = EMPTY /\ cz = EMPTY BY Zenon, <2>3 DEF At
    <3>2. merge[EMPTY][EMPTY][EMPTY] = EMPTY BY MergeSame DEF TrieNodes
    <3>3. At(cs, s, EMPTY) = EMPTY BY Zenon, <2>1, <2>3 DEF At
    <3> QED BY Zenon, <3>1, <3>2, <3>3 DEF TrieNodes
  <2> QED BY Zenon, <2>2, <2>3
<1> HIDE DEF s, ca, cb, cz, cs, m
<1>20. get[m][k][level] = get[merge[ca][cb][cz]][k][level + 1]
  <2>1. CASE Kept(cs, EMPTY) = <<>>
    <3>1. m = EMPTY BY Zenon, <1>17, <1>18, <2>1 DEF MergedInner
    <3>2. At(cs, s, EMPTY) = EMPTY BY Zenon, <2>1, KeptNone
    <3>3. get[EMPTY][k][level] = NotFound /\ get[EMPTY][k][level + 1] = NotFound BY <1>5
    <3> QED BY Zenon, <1>19, <3>1, <3>2, <3>3
  <2>2. CASE Kept(cs, EMPTY) # <<>>
    <3>1. m = Inner(Kept(cs, EMPTY)) BY Zenon, <1>17, <1>18, <2>2 DEF MergedInner
    <3>2. m # EMPTY BY Zenon, <3>1 DEF TrieNodes
    <3>3. ~IsLeaf(m) /\ m.children = Kept(cs, EMPTY) BY Zenon, <3>1 DEF Inner, IsLeaf
    <3>4. get[m][k][level] = get[At(Kept(cs, EMPTY), s, EMPTY)][k][level + 1]
      BY Zenon, <1>7, <1>17, <3>2, <3>3 DEF s
    <3> QED BY Zenon, <1>19, <3>4, KeptAt
  <2> QED BY Zenon, <2>1, <2>2
<1>21. /\ get[a][k][level] = get[ca][k][level + 1]
       /\ get[b][k][level] = get[cb][k][level + 1]
  BY Zenon, <1>7, <1>10, <1>13, <1>14 DEF s, ca, cb
<1>22. get[base][k][level] = get[cz][k][level + 1]
  <2>1. CASE base = EMPTY
    <3>1. cz = EMPTY BY <2>1 DEF cz, At, BaseChildren
    <3> QED BY <1>5, <2>1, <3>1
  <2>2. CASE base # EMPTY
    <3>1. IsInner(base) BY Zenon, <1>10, <1>11, <1>13, <1>14, <2>2 DEF Aligned
    <3>2. ~IsLeaf(base) BY Zenon, <2>2, <3>1 DEF TrieNodes
    <3>3. BaseChildren(base) = base.children BY Zenon, <2>2, <3>1 DEF BaseChildren
    <3> QED BY ZenonT(40), <1>7, <2>2, <3>2, <3>3 DEF s, cz
  <2> QED BY Zenon, <2>1, <2>2
<1>23. Right(ca, cb, cz, k, level + 1)
  <2>1. CASE ca # EMPTY
    <3>1. ca \notin Missed BY Zenon, <1>9, <1>15, <2>1
    <3>2. level + 1 \in Nat OBVIOUS
    <3> QED BY <1>15, <1>16, <1>19, <3>1, <3>2, Zenon DEF Missed
  <2>2. CASE ca = EMPTY
    <3>1. ~Differ(ca, cb, cz) BY Zenon, <1>2, <1>15, <1>19, <2>2
    <3> QED BY Zenon, <1>1, <1>15, <3>1
  <2> QED BY Zenon, <2>1, <2>2
<1>24. Right(a, b, base, k, level)
  BY Zenon, <1>20, <1>21, <1>22, <1>23 DEF Right, m
<1> QED BY Zenon, <1>11, <1>24
=============================================================================
