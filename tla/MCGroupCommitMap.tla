-------------------------- MODULE MCGroupCommitMap --------------------------
(***************************************************************************)
(* Persistent maps: m holds a map from accounts to balances, x is a plain  *)
(* cell of the same shape.  A root is stood for by the mapping it holds,   *)
(* and merge_three_way by what it does to mappings, key by key (module     *)
(* Hamt has the tries).                                                    *)
(***************************************************************************)
EXTENDS GroupCommit, TLC

CONSTANTS m, x, MaxBalance

Account == {1, 2}
MCValue == [Account -> 0 .. MaxBalance]
MCDefaultOf == [c \in Cells |-> [k \in Account |-> 0]]

\* Credit the accounts of `to` by `by` each, and count it in x if `counted`.
MCProgram == [to : {{1}, {2}, {1, 2}}, by : {1, 2, 4}, counted : BOOLEAN]
MCReadsOf(p) == IF p.counted THEN {m, x} ELSE {m}
Credit(f, p) ==
    [k \in Account |-> IF k \in p.to THEN (f[k] + p.by) % (MaxBalance + 1) ELSE f[k]]
MCEffect(p, o) ==
    IF p.counted THEN m :> Credit(o[m], p) @@ x :> Credit(o[x], p) ELSE m :> Credit(o[m], p)
MCFails(p, o) == FALSE
MCNeedsArtifact(p) == {}

Key(ours, live, ancestor, k) ==
    IF ours[k] = ancestor[k] THEN live[k]
    ELSE IF live[k] \in {ancestor[k], ours[k]} THEN ours[k] ELSE NoMerge
MCMerge(ours, live, ancestor) ==
    LET f == [k \in Account |-> Key(ours, live, ancestor, k)]
    IN  IF \E k \in Account : f[k] = NoMerge THEN NoMerge ELSE f

\* Requests that credit different amounts: two of them never write the same
\* value over the same balance.
DistinctAmounts ==
    {a \in [Request -> {p \in MCProgram : p.counted => p.to = {1} /\ p.by = 4}] :
        \A r, s \in Request : r # s => a[r].by # a[s].by}

\* Requests that all make the same credit.
SameCredit == {[r \in Request |-> [to |-> {1}, by |-> 1, counted |-> FALSE]]}

Symmetric == Permutations(Txs)
=============================================================================
