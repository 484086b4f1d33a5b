---------------------------- MODULE Collections ----------------------------
(***************************************************************************)
(* Persistent collections as both executors use them: the state cell holds *)
(* a root that stands for the contents, because nodes are content          *)
(* addressed, and the nodes are read and written beside it.  An operand m  *)
(* is any record with the tx in its field tx: a machine or an interpreter. *)
(* Hamt, PVec and PBTree model what the nodes look like.                   *)
(***************************************************************************)
EXTENDS Tx

Root(m, cell, ty, kv) == ForcedRead(read_cell(m.tx, cell, ty, kv), kv)

\* The contents under a root after its node has been read.
Opened(m, cell, ty, kv) ==
    LET r == Root(m, cell, ty, kv) IN [tx |-> read_node(r.tx, r.v[2], kv), e |-> r.v[2]]

\* The tx after the nodes of the new contents and the root have been written.
Replanted(tx, cell, kind, entries, kv) ==
    write(write_node(tx, entries), cell, <<kind, entries>>, kv)

Without(f, k) == [x \in DOMAIN f \ {k} |-> f[x]]

\* What becomes of the contents.  The last four maintain secondary indexes:
\* a unique one maps the projected field to the primary key, the other kind
\* to the list of primary keys.
Changed(op, e, k, v) ==
    LET list == IF Has(e, k) /\ e[k][1] = "array" THEN e[k][2] ELSE <<>>
        rest == SelectSeq(list, LAMBDA x : x # v)
    IN  CASE op = "Put" -> Put(e, k, v)
          [] op = "PutUnique" -> IF Has(e, k) THEN e ELSE Put(e, k, v)
          [] op = "AppendUnique" -> IF v \in Range(list) THEN e ELSE Put(e, k, VArray(Append(list, v)))
          [] op = "Delete" -> Without(e, k)
          [] op = "RemoveUnique" -> IF Has(e, k) /\ e[k] = v THEN Without(e, k) ELSE e
          [] op = "RemoveFromList" -> IF rest = list THEN e
                                      ELSE IF rest = <<>> THEN Without(e, k)
                                      ELSE Put(e, k, VArray(rest))

\* A different primary key already holds the entry of a unique index.
Refused(op, e, k, v) == op = "PutUnique" /\ Has(e, k) /\ e[k] # v

\* Packed keys compare byte by byte, integers as numbers.
KeyLess(a, b) ==
    IF a[1] = "bytes"
    THEN \E i \in DOMAIN a[2] : /\ a[2][i] < b[2][i]
                                /\ \A j \in 1..(i - 1) : a[2][j] = b[2][j]
    ELSE a[2] < b[2]

SortedKeys(e) == SortSeq(SetToSeq(DOMAIN e), KeyLess)

\* The keys of a range, both ends included.
KeysWithin(e, lo, hi) == SelectSeq(SortedKeys(e), LAMBDA k : ~KeyLess(k, lo) /\ ~KeyLess(hi, k))

\* Vectors: the root cell holds length and root, i.e. the contents.
VecCell(s) == <<"vnode", s>>

read_vnode(tx, s, kv) ==
    IF s = <<>> THEN tx ELSE ForcedRead(read_cell(tx, VecCell(s), <<"bytes">>, kv), kv).tx

read_vec(m, cell, ty, kv) ==
    LET r == Root(m, cell, ty, kv) IN [tx |-> read_vnode(r.tx, r.v[2], kv), s |-> r.v[2]]

write_vec(tx, cell, s, kv) ==
    write([tx EXCEPT !.writes = Put(@, VecCell(s), <<"bytes", s>>),
                     !.nodes = @ \cup {VecCell(s)}], cell, <<"pvec", s>>, kv)

\* The tx after the nodes of a collection of a kind have been read; after new
\* contents have been written.
read_contents(tx, kind, e, kv) ==
    IF kind = "pvec" THEN read_vnode(tx, e, kv) ELSE read_node(tx, e, kv)
plant(tx, cell, kind, e, kv) ==
    IF kind = "pvec" THEN write_vec(tx, cell, e, kv) ELSE Replanted(tx, cell, kind, e, kv)
=============================================================================
