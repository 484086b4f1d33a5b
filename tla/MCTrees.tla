------------------------------ MODULE MCTrees ------------------------------
(***************************************************************************)
(* A map of five keys over two levels of hash bits: a and b differ at      *)
(* level 0; c shares a's slot there and differs at level 1; d and e        *)
(* collide on every level and end in one collision list.  A vector and a   *)
(* B-tree with two entries to a node, about to grow a level.               *)
(***************************************************************************)
EXTENDS Trees

CONSTANTS a, b, c, d, e

Bits(l0, l1) == [level \in 0 .. 1 |-> IF level = 0 THEN l0 ELSE l1]
MCHash == [k \in {a, b, c, d, e} |->
              CASE k = a -> Bits(0, 0) [] k = b -> Bits(1, 0) [] k = c -> Bits(0, 1)
                [] OTHER -> Bits(2, 0)]

\* A map whose root has been split, as it is once two of its keys differ in
\* their first hash bits.
MCInitial == [pmap |-> << <<a, 1>>, <<b, 1>>, <<d, 1>> >>,
              pvec |-> << <<0, 1>>, <<1, 1>>, <<2, 1>>, <<3, 1>> >>,
              pbtree |-> << <<1, 1>>, <<3, 1>>, <<5, 1>>, <<6, 1>> >>]
MCPuts == [pmap |-> {<<a, 2>>, <<c, 1>>, <<d, 1>>, <<d, 2>>, <<e, 1>>},
           pvec |-> {0, 1, 3, 4, 5} \X {2} \cup {<<3, 1>>},
           pbtree |-> {<<2, 1>>, <<3, 2>>, <<4, 1>>, <<7, 1>>, <<8, 1>>}]
MCRemovals == [pmap |-> {c, d, e}, pvec |-> {}, pbtree |-> {1, 3, 4, 6}]

MCMaxOurs == [pmap |-> 3, pvec |-> 2, pbtree |-> 5]
MCMaxLive == [pmap |-> 3, pvec |-> 2, pbtree |-> 0]
MCMaxRounds == [pmap |-> 1, pvec |-> 2, pbtree |-> 1]

\* An empty map, and two keys that share their first hash bits.
NoPuts == [pmap |-> << >>]
PutsOfShared == [pmap |-> {<<a, 1>>, <<c, 1>>}]
NoRemovals == [pmap |-> {}]

\* Three keys that share their first hash bits, one of them in the map.  The
\* main run never removes such a key: see DisjointMergeIsSerial.
HashOfShared == [MCHash EXCEPT ![e] = Bits(0, 2)]
InitialOfShared == [pmap |-> << <<a, 1>>, <<b, 1>> >>]
MorePutsOfShared == [pmap |-> {<<c, 1>>, <<e, 1>>}]
RemovalOfShared == [pmap |-> {a}]
=============================================================================
