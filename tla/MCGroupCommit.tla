--------------------------- MODULE MCGroupCommit ---------------------------
(***************************************************************************)
(* Plain cells: programs over counters modulo Modulus, so that a cell can  *)
(* return to an earlier value between a read and its validation.           *)
(***************************************************************************)
EXTENDS GroupCommit, TLC

CONSTANTS x, y, Modulus

MCValue == 0 .. Modulus - 1
MCDefaultOf == [c \in Cells |-> 0]

Inc(n) == (n + 1) % Modulus

\* incr: x += 1;  move: y := x + 1;  blind: x := 1;
\* guard: revert unless x = y, then x += 1, y += 1;  pair: read both.
MCProgram == {"incr", "move", "blind", "guard", "pair", "ctor", "none"}
MCReadsOf(p) ==
    CASE p = "incr" -> {x}
      [] p = "move" -> {x, y}
      [] p = "blind" -> {}
      [] p = "guard" -> {x, y}
      [] p = "pair" -> {x, y}
      [] p = "ctor" -> {y}
      [] p = "none" -> {}
MCEffect(p, o) ==
    CASE p = "incr" -> x :> Inc(o[x])
      [] p = "move" -> y :> Inc(o[x])
      [] p = "blind" -> x :> 1
      [] p = "guard" -> x :> Inc(o[x]) @@ y :> Inc(o[y])
      [] p = "pair" -> <<>>
      [] p = "ctor" -> y :> Inc(o[y])
      [] p = "none" -> <<>>
MCFails(p, o) == p = "guard" /\ o[x] # o[y]
MCNeedsArtifact(p) == Artifact
MCMerge(ours, live, ancestor) == NoMerge

\* The txs run the programs of Tx; which of them runs which makes no difference to
\* the others.
Race(Tx, Dep) ==
    CHOOSE a \in [Request -> MCProgram] :
        /\ {a[r] : r \in Txs} = Tx
        /\ \A r \in Deploys : a[r] = Dep
        /\ \A r \in Queries : a[r] = "pair"

\* Programs that disturb each other, the same one twice included, beside a deploy
\* with a constructor and beside one without.
MCAssignments ==
    {Race({"incr", "move"}, "ctor"), Race({"guard", "blind"}, "none"), Race({"incr"}, "none")}
=============================================================================
