------------------------------ MODULE OccBatch ------------------------------
(***************************************************************************)
(* The library's own batch driver, occ::commit_batch of rend/src/occ.rs:   *)
(* every tx of a batch is executed speculatively and in parallel against   *)
(* one snapshot, then the outcomes are validated and applied in the order  *)
(* of the batch; a tx that read a cell which an earlier one changed is     *)
(* salvaged by a three-way merge or executed again.                        *)
(***************************************************************************)
EXTENDS CellStore

CONSTANTS
    N,              \* the length of the batch
    Batches,        \* the batches, sequences of N programs
    Separate,       \* those in which no two txs use the same key of a map
    Stores,         \* the stores they may run on
    Answers,        \* the values a program may return
    Answer(_, _)    \* Answer(p, obs): the one it returns

ASSUME BatchTypes ==
    /\ N \in Nat /\ Batches \subseteq [1 .. N -> Program] /\ Separate \subseteq Batches
    /\ Stores \subseteq [Cells -> Row]
    /\ \A p \in Program : \A o \in [ReadsOf(p) -> Value] : Answer(p, o) \in Answers

VARIABLES
    batch,      \* the txs
    kv,         \* the host's InMemoryKv
    snapshot,   \* the copy the speculation runs on
    ran,        \* how the speculative execution of each tx ended
    outcome,    \* its read set
    phase,
    report,     \* BatchReport::txs
    applied     \* history: the stores the applied txs left

vars == <<batch, kv, snapshot, ran, outcome, phase, report, applied>>

Init ==
    /\ batch \in Batches
    /\ kv \in Stores
    /\ snapshot = kv
    /\ ran = [i \in 1 .. N |-> "no"]
    /\ outcome = [i \in 1 .. N |-> <<>>]
    /\ phase = "speculating"
    /\ report = <<>>
    /\ applied = <<>>

\* One rayon worker executes a tx on the snapshot.
Speculate(i) ==
    /\ phase = "speculating"
    /\ ran[i] = "no"
    /\ outcome' = [outcome EXCEPT ![i] = View(snapshot, batch[i])]
    /\ ran' = [ran EXCEPT ![i] = IF Fails(batch[i], View(snapshot, batch[i]))
                                 THEN "err" ELSE "ok"]
    /\ UNCHANGED <<batch, kv, snapshot, phase, report, applied>>

\* collect(): an error ends the batch, whether or not the others have run.
Collect ==
    /\ phase = "speculating"
    /\ \/ /\ \E i \in 1 .. N : ran[i] = "err"
          /\ phase' = "failed"
       \/ /\ \A i \in 1 .. N : ran[i] = "ok"
          /\ phase' = "committing"
    /\ UNCHANGED <<batch, kv, snapshot, ran, outcome, report, applied>>

i_next == Len(report) + 1
Mismatched(i) == {c \in DOMAIN outcome[i] : ~read_matches(c, kv[c], outcome[i][c])}
Writes(i) == Effect(batch[i], outcome[i])

\* Mutant: only the cells a tx writes are validated.
validate_written(i) == Mismatched(i) \cap DOMAIN Writes(i) = {}

validate(i) == Mismatched(i) = {}

\* Mutant: where both sides changed a key the tx's own value wins.
MergedOurs(i, c) ==
    LET root == MergeThreeWay(Writes(i)[c], ReadIn(kv, c), ReadIn(snapshot, c))
    IN  IF root = NoMerge THEN Writes(i)[c] ELSE root

\* The ancestor is the snapshot's root.
Merged(i, c) == MergeThreeWay(Writes(i)[c], ReadIn(kv, c), ReadIn(snapshot, c))

\* Every stale read is of a persistent collection the tx also wrote, and merges.
try_persistent_merge(i) ==
    \A c \in Mismatched(i) :
        c \in MapCells /\ c \in DOMAIN Writes(i) /\ Merged(i, c) # NoMerge

Adjusted(i) ==
    [c \in DOMAIN Writes(i) |->
        IF c \in Mismatched(i) THEN Merged(i, c) ELSE Writes(i)[c]]

\* Mutant: a tx that is executed again is reported twice.
ApplyReportsBoth(i, writes, result, again) ==
    LET line == [result |-> result, re_executed |-> again]
    IN  /\ kv' = Update(kv, writes)
        /\ report' = IF again THEN report \o <<line, line>> ELSE Append(report, line)
        /\ applied' = Append(applied, Update(kv, writes))

\* Mutant: the report keeps the result of the speculative execution.
ApplyReportsFirst(i, writes, result, again) ==
    /\ kv' = Update(kv, writes)
    /\ report' = Append(report, [result |-> Answer(batch[i], outcome[i]),
                                 re_executed |-> again])
    /\ applied' = Append(applied, Update(kv, writes))

\* kv.apply and the tx's line of the report.
Apply(i, writes, result, again) ==
    /\ kv' = Update(kv, writes)
    /\ report' = Append(report, [result |-> result, re_executed |-> again])
    /\ applied' = Append(applied, Update(kv, writes))

Speculated(i) == Answer(batch[i], outcome[i])

ApplySpeculative ==
    /\ phase = "committing" /\ i_next <= N
    /\ validate(i_next)
    /\ Apply(i_next, Writes(i_next), Speculated(i_next), FALSE)
    /\ UNCHANGED <<batch, snapshot, ran, outcome, phase>>

ApplyMerged ==
    /\ phase = "committing" /\ i_next <= N
    /\ ~validate(i_next) /\ try_persistent_merge(i_next)
    /\ Apply(i_next, Adjusted(i_next), Speculated(i_next), FALSE)
    /\ UNCHANGED <<batch, snapshot, ran, outcome, phase>>

Reexecute ==
    /\ phase = "committing" /\ i_next <= N
    /\ ~validate(i_next) /\ ~try_persistent_merge(i_next)
    /\ LET p == batch[i_next]
           o == View(kv, p)
       IN  \/ /\ ~Fails(p, o)
              /\ Apply(i_next, Effect(p, o), Answer(p, o), TRUE)
              /\ UNCHANGED phase
           \/ /\ Fails(p, o)
              /\ phase' = "failed"
              /\ UNCHANGED <<kv, report, applied>>
    /\ UNCHANGED <<batch, snapshot, ran, outcome>>

Done ==
    /\ phase = "committing" /\ i_next > N
    /\ phase' = "done"
    /\ UNCHANGED <<batch, kv, snapshot, ran, outcome, report, applied>>

Returned == phase \in {"failed", "done"} /\ UNCHANGED vars

Next ==
    \/ \E i \in 1 .. N : Speculate(i)
    \/ Collect
    \/ ApplySpeculative
    \/ ApplyMerged
    \/ Reexecute
    \/ Done
    \/ Returned

Spec == Init /\ [][Next]_vars

-----------------------------------------------------------------------------

\* The type invariant.
TypeOK ==
    /\ batch \in [1 .. N -> Program]
    /\ kv \in [Cells -> Row] /\ snapshot \in [Cells -> Row]
    /\ ran \in [1 .. N -> {"no", "ok", "err"}]
    /\ outcome \in [1 .. N -> Observation]
    /\ phase \in {"speculating", "committing", "failed", "done"}
    /\ report \in Seq([result : Answers, re_executed : BOOLEAN]) /\ Len(report) <= N
    /\ applied \in Seq([Cells -> Row])

Earlier(i) == IF i = 1 THEN snapshot ELSE applied[i - 1]

\* What the execution that counted observed.
Seen(i) == IF report[i].re_executed THEN View(Earlier(i), batch[i]) ELSE outcome[i]

Log == [i \in 1 .. Len(applied) |->
           [req |-> i, prog |-> batch[i], seen |-> Seen(i), after |-> applied[i]]]

Serial == INSTANCE MergingStore WITH Durable <- TRUE, base <- snapshot, log <- Log, db <- kv

\* "The driver preserves a host-chosen serial order so the final state is
\* identical to running the txs sequentially in that order": the txs applied so
\* far have the effect of running alone, one after the other.  A batch that ends
\* in an error leaves the effect of the txs before the one that failed.  Promised
\* for the separate batches: where two txs put the same value under one key the
\* merge takes them for one put, as GroupCommit's ImplementsSerialStore, violated
\* under MCGroupCommit_lostupdate, shows of the same merge.
ImplementsSerialStore ==
    /\ (batch \in Separate) => Serial!Init
    /\ [][(batch \in Separate) => Serial!Next]_(Serial!vars)

\* With every batch, also where two txs put the same key of a map: what is applied
\* is the tx's own writes, but for map roots that have changed since the snapshot,
\* which are merged; everything else a tx used was still so when it was applied.
ImplementsMergingStore == Serial!MergingSpec

\* No two txs of a separate batch use the same key of a map, and a merge respects
\* keys.
DisjointKeys(Key, at, keys) ==
    /\ MergesByKey(Key, at)
    /\ \A p \in Program : /\ KeyByKey(p, Key, at, keys[p])
                          /\ \A c \in MapCells : keys[p][c] \subseteq Key
    /\ \A b \in Separate : \A i, j \in 1 .. N : i # j =>
          \A c \in MapCells : keys[b[i]][c] \cap keys[b[j]][c] = {}

\* What a program returns depends on its own keys only.
AnswersByKey(at, keys) ==
    \A p \in Program : \A o, v \in [ReadsOf(p) -> Value] :
        ~Fails(p, o) /\ Alike(p, at, keys[p], o, v) => Answer(p, o) = Answer(p, v)

\* With a separate batch the driver is serial again, but for which root stands for
\* a mapping.
ImplementsKeyedStore(Key, at) ==
    /\ (batch \in Separate) => Serial!Init
    /\ [][(batch \in Separate) => Serial!KeyedCommit(Key, at)]_(Serial!vars)

\* The results reported of a separate batch are those of that serial run.
ReportsAreSerial ==
    batch \in Separate => \A i \in 1 .. Len(report) :
        report[i].result = Answer(batch[i], View(Earlier(i), batch[i]))

\* "a conflict only forces *the conflicting tx* to re-execute, not the others": a
\* tx runs twice only if a cell it read was changed by a tx before it.
OnlyConflictsReexecute ==
    \A i \in 1 .. Len(report) :
        report[i].re_executed =>
            \E c \in ReadsOf(batch[i]) : ReadIn(Earlier(i), c) # ReadIn(snapshot, c)
=============================================================================
