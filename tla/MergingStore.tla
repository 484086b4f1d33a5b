---------------------------- MODULE MergingStore ----------------------------
(***************************************************************************)
(* What a commit path promises when some cells hold the roots of           *)
(* persistent maps: still one order of commits, in which each request sees *)
(* the state its predecessors left in every cell but the map roots it      *)
(* writes itself.  One of those may have changed since it was read; then   *)
(* the three-way merge of the request's root, the root its predecessors    *)
(* left and the root it read is installed, and there is one.               *)
(***************************************************************************)
EXTENDS SerialStore

\* Entry i of l is a commit, with merges, of what it observed on the store before it.
MergedAt(l, i) ==
    /\ l[i].seen \in [ReadsOf(l[i].prog) -> Value]
    /\ MergedRun(Before(l, i), l[i].prog, l[i].seen, l[i].after)
    /\ \A j \in 1 .. i - 1 : l[j].req # l[i].req

MergingCommit ==
    /\ Len(log') > Len(log)
    /\ SubSeq(log', 1, Len(log)) = log
    /\ \A i \in Len(log) + 1 .. Len(log') : MergedAt(log', i)
    /\ db' = Result(log')
    /\ UNCHANGED base

MergingSpec == Init /\ [][MergingCommit \/ LoseSuffix]_vars

(***************************************************************************)
(* What it promises when no two requests use the same key of a map: the    *)
(* serial order again, each request run alone on the state its             *)
(* predecessors left, but for which of several roots stands for a mapping. *)
(***************************************************************************)

\* Entry i of l has left the entries that its program alone leaves.
KeyedAt(Key, at, l, i) ==
    /\ ~Fails(l[i].prog, View(Before(l, i), l[i].prog))
    /\ SameEntries(Key, at, l[i].after, RunAlone(Before(l, i), l[i].prog))
    /\ \A j \in 1 .. i - 1 : l[j].req # l[i].req

KeyedCommit(Key, at) ==
    /\ Len(log') > Len(log)
    /\ SubSeq(log', 1, Len(log)) = log
    /\ \A i \in Len(log) + 1 .. Len(log') : KeyedAt(Key, at, log', i)
    /\ db' = Result(log')
    /\ UNCHANGED base

KeyedSpec(Key, at) == Init /\ [][KeyedCommit(Key, at) \/ LoseSuffix]_vars
=============================================================================
