---------------------------- MODULE SerialStore ----------------------------
(***************************************************************************)
(* What a commit path promises its clients: a store on which committed     *)
(* requests ran one at a time, each against the whole state its            *)
(* predecessor left, in one order.  Commits appear in groups; without      *)
(* durable commits a crash may take back the latest ones, but only a       *)
(* suffix of the order.                                                    *)
(*                                                                         *)
(* The order is kept as a log, each entry with what its program observed   *)
(* and the store it left.                                                  *)
(***************************************************************************)
EXTENDS CellStore

CONSTANT Durable

VARIABLES
    base,   \* the store before the first request
    log,    \* the committed requests in order: [req, prog, seen, after]
    db      \* the rows now

vars == <<base, log, db>>

Before(l, i) == IF i = 1 THEN base ELSE l[i - 1].after
Result(l) == Before(l, Len(l) + 1)

\* Entry i of l is a successful run of its program on the store before it, of a
\* request that did not run before.
SerialAt(l, i) ==
    /\ ~Fails(l[i].prog, View(Before(l, i), l[i].prog))
    /\ l[i].after = RunAlone(Before(l, i), l[i].prog)
    /\ \A j \in 1 .. i - 1 : l[j].req # l[i].req

Init == log = <<>> /\ db = base

Commit ==
    /\ Len(log') > Len(log)
    /\ SubSeq(log', 1, Len(log)) = log
    /\ \A i \in Len(log) + 1 .. Len(log') : SerialAt(log', i)
    /\ db' = Result(log')
    /\ UNCHANGED base

LoseSuffix ==
    /\ ~Durable
    /\ \E n \in 0 .. Len(log) : log' = SubSeq(log, 1, n)
    /\ db' = Result(log')
    /\ UNCHANGED base

Next == Commit \/ LoseSuffix

Spec == Init /\ [][Next]_vars
=============================================================================
