----------------------------- MODULE NodeStore -----------------------------
(***************************************************************************)
(* What the store of node cells promises, whatever the collections are:    *)
(* any number of state cells that hold roots, of transactions that edit    *)
(* copies of them, and sweeps between any two steps.                       *)
(*                                                                         *)
(* A root stands for the tree under it.  Reach(root) are the node cells of *)
(* that tree, and Walk(root, kv) those that gc.rs finds when it follows    *)
(* the root in the store kv.                                               *)
(***************************************************************************)
CONSTANTS StateCell, Tx, Reach(_), Walk(_, _)

VARIABLES
    live,        \* the root in each state cell
    ancestor,    \* per transaction: the roots of the store when it began
    ours,        \* per transaction: the roots as it has edited them
    reads,       \* per transaction: the state cells it has used
    written,     \* per transaction: the node cells in its writes
    swept,       \* per transaction: the store was swept since it began
    cells,       \* the node cells of the store
    candidates   \* those the host has been told of

txs == <<ancestor, ours, reads, written, swept>>
vars == <<live, txs, cells, candidates>>

\* The transaction t begins, on the store as it is after this step.
Begins(t) ==
    /\ ancestor' = [ancestor EXCEPT ![t] = live']
    /\ ours' = [ours EXCEPT ![t] = live']
    /\ reads' = [reads EXCEPT ![t] = {}]
    /\ written' = [written EXCEPT ![t] = {}]
    /\ swept' = [swept EXCEPT ![t] = FALSE]

Init ==
    /\ live = [c \in StateCell |-> live[c]]
    /\ ancestor = [t \in Tx |-> live] /\ ours = ancestor
    /\ reads = [t \in Tx |-> {}] /\ written = [t \in Tx |-> {}]
    /\ swept = [t \in Tx |-> FALSE]
    /\ \A c \in StateCell : Reach(live[c]) \subseteq cells

\* A put, push or removal of t: the nodes that are new to the tree are written.
Edit(t, c) ==
    /\ ours' = [ours EXCEPT ![t][c] = ours'[t][c]]
    /\ reads' = [reads EXCEPT ![t] = @ \cup {c}]
    /\ written' = [written EXCEPT ![t] = @ \cup (Reach(ours'[t][c]) \ Reach(ours[t][c]))]
    /\ UNCHANGED <<live, ancestor, swept, cells, candidates>>

\* A transaction of one operation, executed and applied.
Apply(c) ==
    /\ live' = [live EXCEPT ![c] = live'[c]]
    /\ cells' = cells \cup (Reach(live'[c]) \ Reach(live[c]))
    /\ candidates' = candidates \cup (Reach(live'[c]) \ Reach(live[c]))
    /\ UNCHANGED txs

Stale(t) == {c \in reads[t] : live[c] # ancestor[t][c]}

\* The roots t has used are those of the store: its writes are applied.
Commit(t) ==
    /\ Stale(t) = {}
    /\ live' = [c \in StateCell |-> IF c \in reads[t] THEN ours[t][c] ELSE live[c]]
    /\ cells' = cells \cup written[t]
    /\ candidates' = candidates \cup written[t]
    /\ Begins(t)

\* The others are merged.  A merge writes the nodes of its result that are in
\* neither of the two trees it is given, and reports none.
CommitMerge(t) ==
    /\ Stale(t) # {} /\ ~swept[t]
    /\ live' = [c \in StateCell |-> IF c \in Stale(t) THEN live'[c]
                                    ELSE IF c \in reads[t] THEN ours[t][c] ELSE live[c]]
    /\ cells' = cells \cup written[t]
                      \cup UNION {Reach(live'[c]) \ (Reach(live[c]) \cup Reach(ours[t][c])) : c \in Stale(t)}
    /\ Begins(t)
    /\ UNCHANGED candidates

\* A transaction is dropped, and the next one or the same one again begins.
Restart(t) == Begins(t) /\ UNCHANGED <<live, cells, candidates>>

Sweep ==
    /\ cells' = cells \ (candidates \ UNION {Walk(live[c], cells) : c \in StateCell})
    /\ swept' = [t \in Tx |-> TRUE]
    /\ UNCHANGED <<live, ancestor, ours, reads, written, candidates>>

Next ==
    \/ \E t \in Tx : Commit(t) \/ CommitMerge(t) \/ Restart(t) \/ \E c \in StateCell : Edit(t, c)
    \/ \E c \in StateCell : Apply(c)
    \/ Sweep

Spec == Init /\ [][Next]_vars

\* gc.rs: the walk of a tree that is in the store finds all of its nodes.
WalkComplete == \A root, kv : Reach(root) \subseteq kv => Reach(root) \subseteq Walk(root, kv)

\* tests/gc.rs: `every cell reachable from a live state survives the sweep',
\* whatever transactions were under way: the nodes of every collection are in
\* the store, and those of a transaction are there or in its own writes as long
\* as it can be applied.
LiveNodesSurvive ==
    /\ \A c \in StateCell : Reach(live[c]) \subseteq cells
    /\ \A t \in Tx : Stale(t) = {} =>
          \A c \in reads[t] : Reach(ours[t][c]) \subseteq cells \cup written[t]
=============================================================================
