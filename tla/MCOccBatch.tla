----------------------------- MODULE MCOccBatch -----------------------------
(***************************************************************************)
(* Batches over two plain cells x and y and a map cell m with two keys.    *)
(***************************************************************************)
EXTENDS OccBatch, TLC

CONSTANTS x, y, m, Modulus

\* A value is what a map holds under its two keys; a plain cell uses the first.
Numbers == 0 .. Modulus - 1
MCValue == [{"k", "l"} -> Numbers]
Plain(n) == [i \in {"k", "l"} |-> IF i = "k" THEN n ELSE 0]
MCDefaultOf == [c \in Cells |-> Plain(0)]
Add(v, k, n) == [v EXCEPT ![k] = (@ + n) % Modulus]
Inc(v, k) == Add(v, k, 1)

\* On plain cells: incr x += 1; move y := x + 1; guard reverts unless x = y and
\* increments both; blind x := 1.  On the map: put_k m[k] += 1, put_l m[l] += 1,
\* add_k m[k] += 2, count m[k] += 1 and x += 1.
OnPlain == {"incr", "move", "guard", "blind"}
Keyed == {"put_k", "put_l", "add_k", "count"}
OnKeyK == {"put_k", "add_k", "count"}
MCProgram == OnPlain \cup Keyed
MCReadsOf(p) ==
    CASE p = "incr" -> {x}
      [] p \in {"move", "guard"} -> {x, y}
      [] p = "blind" -> {}
      [] p \in {"put_k", "put_l", "add_k"} -> {m}
      [] p = "count" -> {m, x}
MCEffect(p, o) ==
    CASE p = "incr" -> x :> Inc(o[x], "k")
      [] p = "move" -> y :> Inc(o[x], "k")
      [] p = "guard" -> x :> Inc(o[x], "k") @@ y :> Inc(o[y], "k")
      [] p = "blind" -> x :> Plain(1)
      [] p = "put_k" -> m :> Inc(o[m], "k")
      [] p = "put_l" -> m :> Inc(o[m], "l")
      [] p = "add_k" -> m :> Add(o[m], "k", 2)
      [] p = "count" -> m :> Inc(o[m], "k") @@ x :> Inc(o[x], "k")
MCFails(p, o) == p = "guard" /\ o[x] # o[y]
MCAnswer(p, o) ==
    CASE p \in {"incr", "move", "guard"} -> o[x]["k"]
      [] p \in OnKeyK -> o[m]["k"]
      [] p = "put_l" -> o[m]["l"]
      [] p = "blind" -> 0

\* merge_three_way on what the roots hold, key by key.
MergeKey(ours, live, ancestor) ==
    IF ours = ancestor THEN live
    ELSE IF live \in {ancestor, ours} THEN ours ELSE NoMerge
MCMerge(ours, live, ancestor) ==
    LET f == [k \in {"k", "l"} |-> MergeKey(ours[k], live[k], ancestor[k])]
    IN  IF \E k \in {"k", "l"} : f[k] = NoMerge THEN NoMerge ELSE f

PlainStores == {[c \in Cells |-> IF c = x THEN a ELSE IF c = y THEN b ELSE Absent] :
                  a, b \in {Plain(n) : n \in Numbers} \cup {Absent}}
PlainBatches == [1 .. N -> OnPlain]
KeyedBatches == [1 .. N -> Keyed \cup {"incr"}]
MCBatches == PlainBatches \cup KeyedBatches

\* No two txs of a batch put the same key.
KeyOf(p) == CASE p \in OnKeyK -> {"k"} [] p = "put_l" -> {"l"} [] OTHER -> {}
MCSeparate == {b \in MCBatches : \A i, j \in 1 .. N : i # j => KeyOf(b[i]) \cap KeyOf(b[j]) = {}}

\* The separate batches do use different keys: a root is what it holds.
MCAt == [v \in MCValue |-> v]
MCKeys == [p \in MCProgram |-> [c \in MapCells |-> KeyOf(p)]]
ASSUME KeyedInstance ==
    /\ DisjointKeys({"k", "l"}, MCAt, MCKeys) /\ AnswersByKey(MCAt, MCKeys)
    /\ OneRoot({"k", "l"}, MCAt)
=============================================================================
