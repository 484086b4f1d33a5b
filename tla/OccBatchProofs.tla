--------------------------- MODULE OccBatchProofs ---------------------------
(***************************************************************************)
(* The batch driver, for every batch, whatever the programs, the store and *)
(* the order in which the workers finish.                                  *)
(***************************************************************************)
EXTENDS OccBatch, CellStoreProofs, TLAPS

\* Every finished speculation is a run on the snapshot, the driver commits only
\* when all succeeded, and the store is what the last applied tx left.
DriverInv ==
    /\ Len(report) = Len(applied)
    /\ phase = "speculating" => applied = <<>>
    /\ phase = "committing" \/ applied # <<>> => \A i \in 1 .. N : ran[i] = "ok"
    /\ \A i \in 1 .. N :
          /\ ran[i] # "no" => outcome[i] = View(snapshot, batch[i])
          /\ ran[i] = "ok" => ~Fails(batch[i], outcome[i])
    /\ kv = Earlier(Len(applied) + 1)

\* A tx before tx i changed a cell it had read, or validation does not know the
\* default of a cell it had read and that still has no row.
Invalidated(i) ==
    \E c \in ReadsOf(batch[i]) :
        \/ ReadIn(Earlier(i), c) # ReadIn(snapshot, c)
        \/ Earlier(i)[c] = Absent /\ c \in UnlistedDefault

\* Every applied tx, merged, executed again or neither, is a commit of the merging
\* store on what its predecessors left, and reports what it returned.
AppliedInv ==
    \A i \in 1 .. Len(report) :
        /\ Seen(i) \in [ReadsOf(batch[i]) -> Value]
        /\ MergedRun(Earlier(i), batch[i], Seen(i), applied[i])
        /\ report[i].result = Answer(batch[i], Seen(i))
        /\ report[i].re_executed => Invalidated(i)

IInv == TypeOK /\ DriverInv /\ AppliedInv

-----------------------------------------------------------------------------
(***************************************************************************)
(* The steps.                                                              *)
(***************************************************************************)

\* Applying a tx, whichever way, is a commit of what it observed on the store at
\* hand: on the snapshot or, when it is executed again, on that store.
LEMMA AppliedRun ==
    ASSUME TypeOK, DriverInv, ApplySpeculative \/ ApplyMerged \/ Reexecute, phase' = phase
    PROVE  LET n == i_next
               p == batch[n]
           IN  /\ n \in 1 .. N /\ phase = "committing"
               /\ UNCHANGED <<batch, snapshot, ran, outcome>>
               /\ kv' \in [Cells -> Row] /\ applied' = Append(applied, kv')
               /\ \E again \in BOOLEAN :
                     LET o == IF again THEN View(kv, p) ELSE outcome[n]
                     IN  /\ again => \E c \in ReadsOf(p) :
                                       \/ ReadIn(kv, c) # ReadIn(snapshot, c)
                                       \/ kv[c] = Absent /\ c \in UnlistedDefault
                         /\ o \in [ReadsOf(p) -> Value]
                         /\ MergedRun(kv, p, o, kv')
                         /\ report' = Append(report, [result |-> Answer(p, o),
                                                      re_executed |-> again])
<1> DEFINE n == i_next
           p == batch[n]
<1>1. n \in 1 .. N /\ phase = "committing" /\ ran[n] = "ok"
  <2>1. phase = "committing" /\ n <= N
    BY Zenon DEF ApplySpeculative, ApplyMerged, Reexecute
  <2>2. n \in 1 .. N
    BY <2>1, BatchTypes DEF i_next, TypeOK
  <2> QED
    BY Zenon, <2>1, <2>2 DEF DriverInv
<1>2. p \in Program /\ kv \in [Cells -> Row] /\ snapshot \in [Cells -> Row]
  BY Zenon, <1>1 DEF TypeOK
<1>3. /\ outcome[n] = View(snapshot, p) /\ ~Fails(p, outcome[n])
      /\ outcome[n] \in [ReadsOf(p) -> Value]
  <2>1. outcome[n] = View(snapshot, p) /\ ~Fails(p, outcome[n])
    BY <1>1 DEF DriverInv
  <2> QED
    BY Zenon, <1>2, <2>1, ViewType
<1>4. UNCHANGED <<batch, snapshot, ran, outcome>> /\ applied' = Append(applied, kv')
  BY Zenon DEF ApplySpeculative, ApplyMerged, Reexecute, Apply
<1> DEFINE M == {c \in ReadsOf(p) : ~read_matches(c, kv[c], outcome[n][c])}
<1>5. Mismatched(n) = M
  BY Zenon, <1>3 DEF Mismatched
<1>6. ASSUME NEW W, W = MergedWrites(kv, p, outcome[n], M),
             \A c \in M : /\ c \in MapCells /\ c \in DOMAIN Effect(p, outcome[n])
                          /\ MergeThreeWay(Effect(p, outcome[n])[c], ReadIn(kv, c),
                                           outcome[n][c]) # NoMerge,
             Apply(n, W, Speculated(n), FALSE)
      PROVE  /\ kv' \in [Cells -> Row]
             /\ MergedRun(kv, p, outcome[n], kv')
             /\ report' = Append(report, [result |-> Answer(p, outcome[n]),
                                          re_executed |-> FALSE])
  <2>1. W \in Observation /\ MergedRun(kv, p, outcome[n], Update(kv, W))
    BY Zenon, <1>2, <1>3, <1>6, ValidatedIsMergedRun
  <2>2. kv' = Update(kv, W)
    BY Zenon, <1>6 DEF Apply
  <2>3. Update(kv, W) \in [Cells -> Row]
    BY Zenon, <1>2, <2>1, UpdateType
  <2> QED
    BY Zenon, <1>6, <2>1, <2>2, <2>3 DEF Apply, Speculated
<1>7. CASE ApplySpeculative
  <2>1. M = {}
    BY Zenon, <1>5, <1>7 DEF ApplySpeculative, validate
  <2>2. Writes(n) \in [DOMAIN Writes(n) -> Value]
    BY Zenon, <1>2, <1>3, ProgramTypes, ObservationFacts DEF Writes
  <2>3. Writes(n) = MergedWrites(kv, p, outcome[n], M)
    BY Zenon, <2>1, <2>2 DEF MergedWrites, Writes
  <2>4. /\ kv' \in [Cells -> Row] /\ MergedRun(kv, p, outcome[n], kv')
        /\ report' = Append(report, [result |-> Answer(p, outcome[n]), re_executed |-> FALSE])
    <3>1. Apply(n, Writes(n), Speculated(n), FALSE)
      BY Zenon, <1>7 DEF ApplySpeculative
    <3> HIDE DEF M, n
    <3> QED
      BY Zenon, <1>6, <2>1, <2>3, <3>1
  <2> QED
    BY Zenon, <1>1, <1>3, <1>4, <2>4
<1>8. CASE ApplyMerged
  <2>1. \A c \in M : /\ c \in MapCells /\ c \in DOMAIN Writes(n)
                     /\ outcome[n][c] = ReadIn(snapshot, c) /\ Merged(n, c) # NoMerge
    BY Zenon, <1>3, <1>5, <1>8 DEF ApplyMerged, try_persistent_merge, View
  <2>2. \A c \in M : Merged(n, c) = MergeThreeWay(Effect(p, outcome[n])[c], ReadIn(kv, c),
                                                  outcome[n][c])
    BY Zenon, <2>1 DEF Merged, Writes
  <2>3. Adjusted(n) = MergedWrites(kv, p, outcome[n], M)
    BY Zenon, <1>5, <2>2 DEF Adjusted, MergedWrites, Writes
  <2>4. \A c \in M : /\ c \in MapCells /\ c \in DOMAIN Effect(p, outcome[n])
                     /\ MergeThreeWay(Effect(p, outcome[n])[c], ReadIn(kv, c),
                                      outcome[n][c]) # NoMerge
    BY Zenon, <2>1, <2>2 DEF Writes
  <2>5. Apply(n, Adjusted(n), Speculated(n), FALSE)
    BY Zenon, <1>8 DEF ApplyMerged
  <2>6. /\ kv' \in [Cells -> Row] /\ MergedRun(kv, p, outcome[n], kv')
        /\ report' = Append(report, [result |-> Answer(p, outcome[n]), re_executed |-> FALSE])
    <3> HIDE DEF M, n
    <3> QED
      BY Zenon, <1>6, <2>3, <2>4, <2>5
  <2> QED
    BY Zenon, <1>1, <1>3, <1>4, <2>6
<1>9. CASE Reexecute
  <2>1. /\ ~validate(n) /\ ~Fails(p, View(kv, p))
        /\ Apply(n, Effect(p, View(kv, p)), Answer(p, View(kv, p)), TRUE)
    BY Zenon, <1>1, <1>9 DEF Reexecute
  <2>2. kv' = RunAlone(kv, p)
    BY Zenon, <2>1 DEF Apply, RunAlone
  <2>3. kv' \in [Cells -> Row] /\ MergedRun(kv, p, View(kv, p), kv')
    BY Zenon, <1>2, <2>1, <2>2, RunAloneType, AloneIsMergedRun
  <2>4. View(kv, p) \in [ReadsOf(p) -> Value]
    BY Zenon, <1>2, ViewType
  <2>5. report' = Append(report, [result |-> Answer(p, View(kv, p)), re_executed |-> TRUE])
    BY Zenon, <2>1 DEF Apply
  <2>6. PICK c \in M : TRUE
    BY Zenon, <1>5, <2>1 DEF validate
  <2>7. /\ c \in ReadsOf(p) /\ ~read_matches(c, kv[c], outcome[n][c])
        /\ outcome[n][c] = ReadIn(snapshot, c)
    BY Zenon, <1>3, <2>6 DEF View
  <2>8. \/ ReadIn(kv, c) # ReadIn(snapshot, c)
        \/ kv[c] = Absent /\ c \in UnlistedDefault
    <3> HIDE DEF n
    <3>1. CASE kv[c] = Absent
      BY Zenon, <2>7, <3>1 DEF read_matches, is_default, ReadIn
    <3>2. CASE kv[c] # Absent
      BY Zenon, <2>7, <3>2 DEF read_matches, ReadIn
    <3> QED
      BY Zenon, <3>1, <3>2
  <2> QED
    BY Zenon, <1>1, <1>4, <2>3, <2>4, <2>5, <2>7, <2>8
<1> QED
  BY Zenon, <1>7, <1>8, <1>9

\* Appending a tx to the applied ones leaves what is known of the earlier ones, and
\* makes the store it started from its predecessor's.
LEMMA AppendedRun ==
    ASSUME TypeOK, DriverInv, NEW t \in [Cells -> Row], NEW a \in Answers,
           NEW again \in BOOLEAN, i_next \in 1 .. N,
           UNCHANGED <<batch, snapshot, outcome>>,
           applied' = Append(applied, t),
           report' = Append(report, [result |-> a, re_executed |-> again])
    PROVE  LET n == i_next
           IN  /\ n = Len(report) + 1 /\ Len(report) = n - 1 /\ Len(applied) = n - 1
               /\ Len(report') = n /\ Len(applied') = n
               /\ applied' \in Seq([Cells -> Row])
               /\ report' \in Seq([result : Answers, re_executed : BOOLEAN])
               /\ applied'[n] = t
               /\ report'[n].result = a /\ report'[n].re_executed = again
               /\ \A i \in 1 .. n - 1 : applied'[i] = applied[i] /\ report'[i] = report[i]
               /\ \A i \in 1 .. n : Earlier(i)' = Earlier(i)
               /\ \A i \in 1 .. n - 1 : Seen(i)' = Seen(i)
               /\ kv = Earlier(n)
<1> DEFINE n == i_next
<1>1. /\ Len(report) = Len(applied) /\ Len(report) \in Nat /\ n = Len(report) + 1
      /\ report \in Seq([result : Answers, re_executed : BOOLEAN])
      /\ applied \in Seq([Cells -> Row])
  BY DEF TypeOK, DriverInv, i_next
<1>2. kv = Earlier(n)
  BY <1>1 DEF DriverInv
<1> HIDE DEF n
<1>3. /\ Len(report') = n /\ Len(applied') = n
      /\ applied' \in Seq([Cells -> Row])
      /\ report' \in Seq([result : Answers, re_executed : BOOLEAN])
      /\ applied'[n] = t
      /\ report'[n].result = a /\ report'[n].re_executed = again
      /\ \A i \in 1 .. n - 1 : applied'[i] = applied[i] /\ report'[i] = report[i]
  BY <1>1
<1>4. \A i \in 1 .. n : Earlier(i)' = Earlier(i)
  BY <1>1, <1>3 DEF Earlier
<1>5. \A i \in 1 .. n - 1 : i \in 1 .. n
  BY <1>1
<1>6. \A i \in 1 .. n - 1 : Seen(i)' = Seen(i)
  BY Zenon, <1>3, <1>4, <1>5 DEF Seen
<1>7. Len(report) = n - 1 /\ Len(applied) = n - 1
  BY <1>1
<1> QED
  BY Zenon, <1>1, <1>2, <1>3, <1>4, <1>6, <1>7 DEF n

\* The start of a batch.
LEMMA InitInv == Init => IInv
<1> SUFFICES ASSUME Init PROVE IInv
  OBVIOUS
<1>1. TypeOK
  BY BatchTypes, ObservationFacts DEF Init, TypeOK
<1>2. DriverInv
  BY DEF Init, DriverInv, Earlier
<1>3. AppliedInv
  BY DEF Init, AppliedInv
<1> QED
  BY <1>1, <1>2, <1>3 DEF IInv

\* A step that applies nothing leaves what is known of the applied txs.
LEMMA AppliedFrame ==
    ASSUME AppliedInv, DriverInv, TypeOK, UNCHANGED <<batch, snapshot, report, applied>>,
           \A i \in 1 .. Len(report) : outcome'[i] = outcome[i]
    PROVE  AppliedInv'
<1>1. \A i \in 1 .. Len(report) : Earlier(i)' = Earlier(i)
  BY Zenon DEF Earlier
<1>2. \A i \in 1 .. Len(report) : Seen(i)' = Seen(i)
  BY Zenon, <1>1 DEF Seen
<1>3. \A i \in 1 .. Len(report) : Invalidated(i) => Invalidated(i)'
  BY Zenon, <1>1 DEF Invalidated
<1> QED
  BY Zenon, <1>1, <1>2, <1>3 DEF AppliedInv

\* Every step of the driver keeps the invariant.
LEMMA StepInv ==
    ASSUME IInv, [Next]_vars
    PROVE  IInv'
<1> USE DEF vars
<1>0. TypeOK /\ DriverInv /\ AppliedInv
  BY DEF IInv
<1>1. CASE \E i \in 1 .. N : Speculate(i)
  <2>1. PICK i \in 1 .. N : Speculate(i)
    BY <1>1
  <2>2. View(snapshot, batch[i]) \in Observation
    BY <1>0, ViewType DEF TypeOK
  <2>3. TypeOK'
    BY <1>0, <2>1, <2>2 DEF Speculate, TypeOK
  <2>4. DriverInv'
    BY <1>0, <2>1 DEF Speculate, DriverInv, TypeOK, Earlier
  <2>5. Len(report) = 0 /\ UNCHANGED <<batch, snapshot, report, applied>>
    BY <1>0, <2>1 DEF Speculate, DriverInv
  <2>6. AppliedInv'
    BY <2>5 DEF AppliedInv
  <2> QED
    BY <2>3, <2>4, <2>6 DEF IInv
<1>2. CASE Collect \/ Done \/ Returned \/ UNCHANGED vars
  <2>1. /\ UNCHANGED <<batch, kv, snapshot, ran, outcome, report, applied>>
        /\ phase' \in {phase, "failed", "done"} \/ \A i \in 1 .. N : ran[i] = "ok"
        /\ phase' \in {phase, "failed", "committing", "done"}
        /\ phase' = "speculating" => phase = "speculating"
    BY <1>2 DEF Collect, Done, Returned
  <2>2. TypeOK'
    BY <1>0, <2>1 DEF TypeOK
  <2>3. DriverInv'
    BY <1>0, <2>1 DEF DriverInv, Earlier
  <2>4. AppliedInv'
    BY Zenon, <1>0, <2>1, AppliedFrame
  <2> QED
    BY <2>2, <2>3, <2>4 DEF IInv
<1>3. CASE (ApplySpeculative \/ ApplyMerged \/ Reexecute) /\ phase' # phase
  <2>1. /\ UNCHANGED <<batch, kv, snapshot, ran, outcome, report, applied>>
        /\ phase' = "failed"
    BY Zenon, <1>3 DEF ApplySpeculative, ApplyMerged, Reexecute
  <2>2. TypeOK'
    BY <1>0, <2>1 DEF TypeOK
  <2>3. DriverInv'
    BY <1>0, <2>1 DEF DriverInv, Earlier
  <2>4. AppliedInv'
    BY Zenon, <1>0, <2>1, AppliedFrame
  <2> QED
    BY <2>2, <2>3, <2>4 DEF IInv
<1>4. CASE (ApplySpeculative \/ ApplyMerged \/ Reexecute) /\ phase' = phase
  <2> DEFINE n == i_next
             p == batch[n]
  <2>1. /\ n \in 1 .. N /\ phase = "committing"
        /\ UNCHANGED <<batch, snapshot, ran, outcome>>
        /\ kv' \in [Cells -> Row] /\ applied' = Append(applied, kv')
    BY Zenon, <1>0, <1>4, AppliedRun
  <2>2. PICK again \in BOOLEAN :
           LET o == IF again THEN View(kv, p) ELSE outcome[n]
           IN  /\ again => \E c \in ReadsOf(p) :
                              \/ ReadIn(kv, c) # ReadIn(snapshot, c)
                              \/ kv[c] = Absent /\ c \in UnlistedDefault
               /\ o \in [ReadsOf(p) -> Value]
               /\ MergedRun(kv, p, o, kv')
               /\ report' = Append(report, [result |-> Answer(p, o), re_executed |-> again])
    BY Zenon, <1>0, <1>4, AppliedRun
  <2> DEFINE o == IF again THEN View(kv, p) ELSE outcome[n]
             a == Answer(p, o)
  <2>3. p \in Program /\ a \in Answers
    <3>1. p \in Program
      BY Zenon, <1>0, <2>1 DEF TypeOK
    <3> QED
      BY Zenon, <2>2, <3>1, BatchTypes
  <2>4. report' = Append(report, [result |-> a, re_executed |-> again])
    BY Zenon, <2>2
  <2>5. o \in [ReadsOf(p) -> Value] /\ MergedRun(kv, p, o, kv')
    BY Zenon, <2>2
  <2>5a. again => \E c \in ReadsOf(p) : \/ ReadIn(kv, c) # ReadIn(snapshot, c)
                                        \/ kv[c] = Absent /\ c \in UnlistedDefault
    BY Zenon, <2>2
  <2> HIDE DEF a, o
  <2>6. /\ n = Len(report) + 1 /\ Len(report) = n - 1 /\ Len(applied) = n - 1
        /\ Len(report') = n /\ Len(applied') = n
        /\ applied' \in Seq([Cells -> Row])
        /\ report' \in Seq([result : Answers, re_executed : BOOLEAN])
        /\ applied'[n] = kv'
        /\ report'[n].result = a /\ report'[n].re_executed = again
        /\ \A i \in 1 .. n - 1 : applied'[i] = applied[i] /\ report'[i] = report[i]
        /\ \A i \in 1 .. n : Earlier(i)' = Earlier(i)
        /\ \A i \in 1 .. n - 1 : Seen(i)' = Seen(i)
        /\ kv = Earlier(n)
    BY Zenon, <1>0, <2>1, <2>3, <2>4, AppendedRun
  <2> HIDE DEF n, p
  <2>7. TypeOK'
    BY <1>0, <1>4, <2>1, <2>6 DEF TypeOK
  <2>8. DriverInv'
    BY <1>0, <1>4, <2>1, <2>6 DEF DriverInv, Earlier
  <2>9. ASSUME NEW i, i = n
        PROVE  Earlier(i)' = kv /\ batch'[i] = p /\ Seen(i)' = o
    <3>1. i \in 1 .. n /\ batch' = batch /\ outcome' = outcome
      BY <2>1, <2>6, <2>9
    <3>2. Earlier(i)' = kv /\ batch'[i] = p
      BY Zenon, <2>6, <2>9, <3>1 DEF p
    <3>3. Seen(i)' = IF again THEN View(kv, p) ELSE outcome[n]
      BY <2>6, <2>9, <3>1, <3>2 DEF Seen
    <3> QED
      BY <3>2, <3>3 DEF o
  <2>10. \A i \in 1 .. n : i = n \/ (i \in 1 .. n - 1 /\ i \in 1 .. Len(report))
    BY <2>1, <2>6
  <2>11. ASSUME NEW i \in 1 .. n
         PROVE  /\ Seen(i)' \in [ReadsOf(batch'[i]) -> Value]
                /\ MergedRun(Earlier(i)', batch'[i], Seen(i)', applied'[i])
                /\ report'[i].result = Answer(batch'[i], Seen(i)')
                /\ report'[i].re_executed => Invalidated(i)'
    <3>1. CASE i = n
      <4>1. report'[i].result = Answer(p, o) /\ applied'[i] = kv'
        BY <2>6, <3>1 DEF a
      <4>2. report'[i].re_executed => Invalidated(i)'
        <5>1. Earlier(i)' = kv /\ batch'[i] = p /\ snapshot' = snapshot
          BY Zenon, <2>1, <2>9, <3>1
        <5>2. report'[i].re_executed = again
          BY <2>6, <3>1
        <5> QED
          BY Zenon, <2>5a, <5>1, <5>2 DEF Invalidated
      <4> QED
        BY Zenon, <2>5, <2>9, <3>1, <4>1, <4>2
    <3>2. CASE i \in 1 .. n - 1 /\ i \in 1 .. Len(report)
      <4>1. i \in 1 .. n
        BY <2>11
      <4>2. /\ batch' = batch /\ snapshot' = snapshot /\ Earlier(i)' = Earlier(i)
            /\ report'[i] = report[i]
        BY Zenon, <2>1, <2>6, <3>2, <4>1
      <4>3. Invalidated(i) => Invalidated(i)'
        BY Zenon, <4>2 DEF Invalidated
      <4> QED
        BY Zenon, <1>0, <2>6, <3>2, <4>2, <4>3 DEF AppliedInv
    <3> QED
      BY Zenon, <2>10, <3>1, <3>2
  <2>12. AppliedInv'
    BY Zenon, <2>6, <2>11 DEF AppliedInv
  <2> QED
    BY <2>7, <2>8, <2>12 DEF IInv
<1> QED
  BY <1>1, <1>2, <1>3, <1>4 DEF Next

\* The driver's state is well-formed for every batch on every store: merged rows
\* are rows, and no tx is reported twice.
THEOREM TypeCorrect == Spec => []TypeOK
<1>1. IInv /\ [Next]_vars => IInv'
  BY StepInv
<1> QED
  BY <1>1, InitInv, PTL DEF Spec, IInv

\* Where nothing is merged every result the driver reports is the one the tx would
\* have returned in a serial run of the batch, re-executed or not.
THEOREM ReportsSerial ==
    (\A p \in Program : MergesNothing(p)) => (Spec => []ReportsAreSerial)
<1> SUFFICES ASSUME \A p \in Program : MergesNothing(p) PROVE Spec => []ReportsAreSerial
  OBVIOUS
<1>1. IInv /\ [Next]_vars => IInv'
  BY StepInv
<1>2. IInv => ReportsAreSerial
  <2> SUFFICES ASSUME IInv, NEW i \in 1 .. Len(report)
               PROVE  report[i].result = Answer(batch[i], View(Earlier(i), batch[i]))
    BY Zenon DEF ReportsAreSerial
  <2>1. /\ Seen(i) \in [ReadsOf(batch[i]) -> Value]
        /\ MergedRun(Earlier(i), batch[i], Seen(i), applied[i])
        /\ report[i].result = Answer(batch[i], Seen(i))
    BY Zenon DEF IInv, AppliedInv
  <2>2. batch[i] \in Program
    <3>1. i \in 1 .. N /\ batch \in [1 .. N -> Program]
      BY BatchTypes DEF IInv, TypeOK
    <3> QED
      BY Zenon, <3>1
  <2> QED
    BY Zenon, <2>1, <2>2, PlainRunsAlone
<1> QED
  BY <1>1, <1>2, InitInv, PTL DEF Spec

\* Where validation knows every default, a tx is executed again only if a tx before
\* it changed a cell it had read.
THEOREM OnlyConflicts == UnlistedDefault = {} => (Spec => []OnlyConflictsReexecute)
<1> SUFFICES ASSUME UnlistedDefault = {} PROVE Spec => []OnlyConflictsReexecute
  OBVIOUS
<1>1. IInv /\ [Next]_vars => IInv'
  BY StepInv
<1>2. IInv => OnlyConflictsReexecute
  BY Zenon DEF IInv, AppliedInv, Invalidated, OnlyConflictsReexecute
<1> QED
  BY <1>1, <1>2, InitInv, PTL DEF Spec

-----------------------------------------------------------------------------
(***************************************************************************)
(* The refinements.                                                        *)
(***************************************************************************)

\* The store the specifications of a commit path are about is this one.
LEMMA SameStore ==
    /\ \A s, p, o, t : Serial!MergedRun(s, p, o, t) = MergedRun(s, p, o, t)
    /\ \A s, p : Serial!View(s, p) = View(s, p) /\ Serial!RunAlone(s, p) = RunAlone(s, p)
    /\ \A Key, at, s, t : Serial!SameEntries(Key, at, s, t) = SameEntries(Key, at, s, t)
<1>1. \A s, c : Serial!ReadIn(s, c) = ReadIn(s, c)
  BY Zenon DEF Serial!ReadIn, ReadIn
<1>2. \A s, p : Serial!View(s, p) = View(s, p)
  BY Zenon, <1>1 DEF Serial!View, View
<1>3. \A f, g : Serial!Update(f, g) = Update(f, g)
  BY Zenon DEF Serial!Update, Update
<1>4. \A s, p, o, M : Serial!MergedWrites(s, p, o, M) = MergedWrites(s, p, o, M)
  BY ZenonT(40), <1>1 DEF Serial!MergedWrites, MergedWrites
<1>5. \A s, p, o, t : Serial!MergedRun(s, p, o, t) = MergedRun(s, p, o, t)
  BY <1>1, <1>3, <1>4 DEF Serial!MergedRun, MergedRun
<1>6. \A Key, at, s, t : Serial!SameEntries(Key, at, s, t) = SameEntries(Key, at, s, t)
  BY Zenon DEF Serial!SameEntries, SameEntries
<1> QED
  BY Zenon, <1>2, <1>3, <1>5, <1>6 DEF Serial!RunAlone, RunAlone

\* The log of the applied txs is a log of the merging store that ends in the host's
\* store; where nothing is merged, it is one of the serial store.
LEMMA LogFacts ==
    IInv => /\ Len(Log) = Len(applied)
            /\ \A i \in 1 .. Len(applied) : Serial!MergedAt(Log, i)
            /\ (\A p \in Program : MergesNothing(p)) =>
                  \A i \in 1 .. Len(applied) : Serial!SerialAt(Log, i)
            /\ kv = Serial!Result(Log)
<1> SUFFICES ASSUME IInv
             PROVE  /\ Len(Log) = Len(applied)
                    /\ \A i \in 1 .. Len(applied) : Serial!MergedAt(Log, i)
                    /\ (\A p \in Program : MergesNothing(p)) =>
                          \A i \in 1 .. Len(applied) : Serial!SerialAt(Log, i)
                    /\ kv = Serial!Result(Log)
  OBVIOUS
<1> DEFINE m == Len(applied)
           L == Log
<1>1. /\ m \in Nat /\ m = Len(report) /\ m <= N /\ N \in Nat /\ applied \in Seq([Cells -> Row])
      /\ batch \in [1 .. N -> Program] /\ snapshot \in [Cells -> Row]
      /\ kv = Earlier(m + 1)
  BY BatchTypes DEF IInv, TypeOK, DriverInv
<1>2. /\ Len(L) = m
      /\ \A i \in 1 .. m : /\ L[i].req = i /\ L[i].prog = batch[i]
                           /\ L[i].seen = Seen(i) /\ L[i].after = applied[i]
  BY <1>1 DEF Log
<1> HIDE DEF L
<1>3. \A i \in 1 .. m + 1 : Serial!Before(L, i) = Earlier(i)
  <2> TAKE i \in 1 .. m + 1
  <2>1. i = 1 \/ i - 1 \in 1 .. m
    BY <1>1
  <2> QED
    BY Zenon, <1>2, <2>1 DEF Serial!Before, Earlier
<1>4. ASSUME NEW i \in 1 .. m
      PROVE  /\ Serial!MergedAt(L, i)
             /\ (\A p \in Program : MergesNothing(p)) => Serial!SerialAt(L, i)
  <2>1. /\ i \in 1 .. N /\ i \in 1 .. m + 1 /\ i \in 1 .. Len(report)
        /\ \A j \in 1 .. i - 1 : j \in 1 .. m /\ j # i
        /\ applied[i] \in [Cells -> Row]
        /\ i = 1 \/ i - 1 \in 1 .. m
    BY <1>1
  <2>2. /\ batch[i] \in Program /\ Earlier(i) \in [Cells -> Row]
    <3>1. i # 1 => applied[i - 1] \in [Cells -> Row]
      BY <1>1, <2>1
    <3> QED
      BY Zenon, <1>1, <2>1, <3>1 DEF Earlier
  <2>3. /\ Seen(i) \in [ReadsOf(batch[i]) -> Value]
        /\ MergedRun(Earlier(i), batch[i], Seen(i), applied[i])
    BY Zenon, <2>1 DEF IInv, AppliedInv
  <2>4. \A j \in 1 .. i - 1 : L[j].req # L[i].req
    BY <1>2, <2>1
  <2>5. Serial!MergedAt(L, i)
    BY Zenon, <1>2, <1>3, <2>1, <2>3, <2>4, SameStore DEF Serial!MergedAt
  <2>6. ASSUME \A p \in Program : MergesNothing(p)
        PROVE  Serial!SerialAt(L, i)
    <3>1. ~Fails(batch[i], View(Earlier(i), batch[i])) /\ applied[i] = RunAlone(Earlier(i), batch[i])
      BY Zenon, <2>2, <2>3, <2>6, PlainRunsAlone
    <3> QED
      BY Zenon, <1>2, <1>3, <2>1, <2>4, <3>1, SameStore DEF Serial!SerialAt
  <2> QED
    BY Zenon, <2>5, <2>6
<1>5. kv = Serial!Result(L)
  <2>1. m + 1 \in 1 .. m + 1
    BY <1>1
  <2> QED
    BY Zenon, <1>1, <1>2, <1>3, <2>1 DEF Serial!Result
<1> QED
  BY Zenon, <1>2, <1>4, <1>5 DEF L

\* A step leaves the log alone or extends it.
LEMMA LogExtends ==
    ASSUME IInv, [Next]_vars
    PROVE  /\ snapshot' = snapshot
           /\ \/ UNCHANGED <<kv, Log>>
              \/ /\ Len(applied') = Len(applied) + 1
                 /\ SubSeq(Log', 1, Len(applied)) = Log
<1> USE DEF vars
<1>0. TypeOK /\ DriverInv /\ AppliedInv
  BY DEF IInv
<1>1. CASE UNCHANGED <<batch, kv, snapshot, report, applied>> /\ (Len(report) = 0 \/ outcome' = outcome)
  <2>1. \A i \in 1 .. Len(applied) : Seen(i)' = Seen(i)
    BY <1>0, <1>1 DEF Seen, Earlier, DriverInv
  <2>2. Log' = Log
    BY <1>1, <2>1 DEF Log
  <2> QED
    BY Zenon, <1>1, <2>2
<1>2. CASE (ApplySpeculative \/ ApplyMerged \/ Reexecute) /\ phase' = phase
  <2> DEFINE n == i_next
  <2>1. /\ n \in 1 .. N /\ UNCHANGED <<batch, snapshot, ran, outcome>>
        /\ kv' \in [Cells -> Row] /\ applied' = Append(applied, kv')
    BY Zenon, <1>0, <1>2, AppliedRun
  <2>2. PICK again \in BOOLEAN :
           LET o == IF again THEN View(kv, batch[n]) ELSE outcome[n]
           IN  /\ o \in [ReadsOf(batch[n]) -> Value]
               /\ report' = Append(report, [result |-> Answer(batch[n], o), re_executed |-> again])
    BY Zenon, <1>0, <1>2, AppliedRun
  <2> DEFINE a == Answer(batch[n], IF again THEN View(kv, batch[n]) ELSE outcome[n])
  <2>3. a \in Answers /\ report' = Append(report, [result |-> a, re_executed |-> again])
    <3>1. batch[n] \in Program
      BY Zenon, <1>0, <2>1 DEF TypeOK
    <3> QED
      BY Zenon, <2>2, <3>1, BatchTypes
  <2> HIDE DEF a
  <2>4. /\ Len(applied) = n - 1 /\ Len(applied') = n
        /\ \A i \in 1 .. n - 1 : applied'[i] = applied[i]
        /\ \A i \in 1 .. n - 1 : Seen(i)' = Seen(i)
    BY Zenon, <1>0, <2>1, <2>3, AppendedRun
  <2> HIDE DEF n
  <2> DEFINE E == {Log'[i] : i \in 1 .. n}
  <2>5. Log' \in [1 .. n -> E]
    BY <2>4 DEF Log
  <2>6. n \in Nat /\ n - 1 \in 0 .. n /\ \A i \in 1 .. n - 1 : i \in 1 .. n
    BY <2>1
  <2>7. SubSeq(Log', 1, n - 1) = [i \in 1 .. n - 1 |-> Log'[i]]
    BY <2>5, <2>6, PrefixOfFunction
  <2>8. \A i \in 1 .. n - 1 : Log'[i] = [req |-> i, prog |-> batch[i], seen |-> Seen(i),
                                          after |-> applied[i]]
    <3> TAKE i \in 1 .. n - 1
    <3>1. Log'[i] = [req |-> i, prog |-> batch'[i], seen |-> Seen(i)', after |-> applied'[i]]
      BY Zenon, <2>4, <2>6 DEF Log
    <3> QED
      BY Zenon, <2>1, <2>4, <3>1
  <2>9. [i \in 1 .. n - 1 |-> Log'[i]] = Log
    BY Zenon, <2>4, <2>8 DEF Log
  <2> QED
    BY <2>1, <2>4, <2>6, <2>7, <2>9
<1>3. CASE (ApplySpeculative \/ ApplyMerged \/ Reexecute) /\ phase' # phase
  BY Zenon, <1>1, <1>3 DEF ApplySpeculative, ApplyMerged, Reexecute
<1>4. CASE Collect \/ Done \/ Returned \/ UNCHANGED vars
  BY Zenon, <1>1, <1>4 DEF Collect, Done, Returned
<1>5. CASE \E i \in 1 .. N : Speculate(i)
  <2>1. PICK i \in 1 .. N : Speculate(i)
    BY <1>5
  <2>2. UNCHANGED <<batch, kv, snapshot, report, applied>> /\ Len(report) = 0
    BY <1>0, <2>1 DEF Speculate, DriverInv
  <2> QED
    BY Zenon, <1>1, <2>2
<1> QED
  BY Zenon, <1>2, <1>3, <1>4, <1>5 DEF Next

\* The driver implements the merging store: for every batch, every store it starts
\* from and every way the speculation can be scheduled, an applied tx used what its
\* predecessors left in every cell it read but the map roots it merged.
THEOREM BatchMerges == Spec => ImplementsMergingStore
<1>1. Init => Serial!Init
  BY DEF Init, Serial!Init, Log
<1>2. IInv /\ [Next]_vars => IInv'
  BY StepInv
<1> DEFINE Facts == /\ Len(Log) = Len(applied)
                    /\ \A i \in 1 .. Len(applied) : Serial!MergedAt(Log, i)
                    /\ kv = Serial!Result(Log)
<1>3. IInv => Facts
  BY Zenon, LogFacts
<1>4. IInv /\ [Next]_vars /\ Facts /\ Facts'
         => [Serial!MergingCommit \/ Serial!LoseSuffix]_(Serial!vars)
  <2> SUFFICES ASSUME IInv, [Next]_vars, Facts, Facts'
               PROVE  [Serial!MergingCommit \/ Serial!LoseSuffix]_(Serial!vars)
    OBVIOUS
  <2>1. snapshot' = snapshot
    BY Zenon, LogExtends
  <2>2. CASE UNCHANGED <<kv, Log>>
    BY Zenon, <2>1, <2>2 DEF Serial!vars
  <2>3. CASE /\ Len(applied') = Len(applied) + 1
             /\ SubSeq(Log', 1, Len(applied)) = Log
    <3>1. Len(applied) \in Nat
      BY DEF IInv, TypeOK
    <3>2. /\ Len(Log') > Len(Log)
          /\ \A i \in Len(Log) + 1 .. Len(Log') : i \in 1 .. Len(applied')
      BY <2>3, <3>1
    <3>3. \A i \in 1 .. Len(applied') : Serial!MergedAt(Log', i)
      BY Zenon, <2>1 DEF Serial!MergedAt, Serial!Before
    <3>4. kv' = Serial!Result(Log')
      BY Zenon, <2>1 DEF Serial!Result, Serial!Before
    <3> QED
      BY Zenon, <2>1, <2>3, <3>2, <3>3, <3>4 DEF Serial!MergingCommit
  <2> QED
    BY Zenon, <2>2, <2>3, LogExtends
<1> HIDE DEF Facts
<1> QED
  BY <1>1, <1>2, <1>3, <1>4, InitInv, PTL DEF Spec, ImplementsMergingStore, Serial!MergingSpec

\* The applied txs are a log of the serial store.
SerialLog ==
    /\ Len(Log) = Len(applied) /\ kv = Serial!Result(Log)
    /\ \A i \in 1 .. Len(applied) : Serial!SerialAt(Log, i)

\* While they are, a step of the driver is one of the serial store.
LEMMA SerialStep ==
    ASSUME IInv, [Next]_vars, SerialLog, SerialLog'
    PROVE  [Serial!Next]_(Serial!vars)
<1>1. snapshot' = snapshot
  BY Zenon, LogExtends
<1>2. CASE UNCHANGED <<kv, Log>>
  BY Zenon, <1>1, <1>2 DEF Serial!vars
<1>3. CASE /\ Len(applied') = Len(applied) + 1
           /\ SubSeq(Log', 1, Len(applied)) = Log
  <2>1. Len(applied) \in Nat
    BY DEF IInv, TypeOK
  <2>2. /\ Len(Log') > Len(Log) /\ SubSeq(Log', 1, Len(Log)) = Log
        /\ \A i \in Len(Log) + 1 .. Len(Log') : i \in 1 .. Len(applied')
    BY <1>3, <2>1 DEF SerialLog
  <2>3. \A i \in 1 .. Len(applied') : Serial!SerialAt(Log', i)
    BY Zenon, <1>1 DEF SerialLog, Serial!SerialAt, Serial!Before
  <2>4. kv' = Serial!Result(Log')
    BY Zenon, <1>1 DEF SerialLog, Serial!Result, Serial!Before
  <2> QED
    BY Zenon, <1>1, <2>2, <2>3, <2>4 DEF Serial!Commit, Serial!Next
<1> QED
  BY Zenon, <1>2, <1>3, LogExtends

\* Where no program writes a map root it has read the driver implements the serial
\* store: "the final state is identical to running the txs sequentially in that
\* order", for every store and schedule and, as no batch uses a key of a map twice
\* then, every batch (Separate may be all of Batches).
THEOREM BatchIsSerial ==
    (\A p \in Program : MergesNothing(p)) => (Spec => ImplementsSerialStore)
<1> SUFFICES ASSUME \A p \in Program : MergesNothing(p) PROVE Spec => ImplementsSerialStore
  OBVIOUS
<1>1. Init => (batch \in Separate => Serial!Init)
  BY DEF Init, Serial!Init, Log
<1>2. IInv /\ [Next]_vars => IInv'
  BY StepInv
<1>3. IInv => SerialLog
  BY Zenon, LogFacts DEF SerialLog
<1>4. IInv /\ [Next]_vars /\ SerialLog /\ SerialLog'
         => [(batch \in Separate) => Serial!Next]_(Serial!vars)
  BY Zenon, SerialStep
<1> QED
  BY <1>1, <1>2, <1>3, <1>4, InitInv, PTL DEF Spec, ImplementsSerialStore

-----------------------------------------------------------------------------
(***************************************************************************)
(* Batches whose txs use different keys.                                   *)
(***************************************************************************)

\* The keys of a tx hold what they held in the snapshot until it is applied.
KeysKept(at, keys) ==
    /\ batch \in Separate
    /\ \A n \in 1 .. Len(applied) + 1 : \A i \in n .. N : \A c \in MapCells : c \in Cells =>
          \A k \in keys[batch[i]][c] :
             at[ReadIn(Earlier(n), c)][k] = at[ReadIn(snapshot, c)][k]

\* The txs that are applied leave the keys of those that are not.
LEMMA KeysKeptStep ==
    ASSUME NEW Key, NEW at, NEW keys, DisjointKeys(Key, at, keys),
           IInv, KeysKept(at, keys), [Next]_vars
    PROVE  KeysKept(at, keys)'
<1> USE DEF vars
<1>0. TypeOK /\ DriverInv
  BY DEF IInv
<1>1. CASE UNCHANGED <<batch, snapshot, applied>>
  BY Zenon, <1>1 DEF KeysKept, Earlier
<1>2. CASE (ApplySpeculative \/ ApplyMerged \/ Reexecute) /\ phase' = phase
  <2> DEFINE n == i_next
             p == batch[n]
  <2>1. /\ n \in 1 .. N /\ UNCHANGED <<batch, snapshot, ran, outcome>>
        /\ kv' \in [Cells -> Row] /\ applied' = Append(applied, kv')
    BY Zenon, <1>0, <1>2, AppliedRun
  <2>2. PICK again \in BOOLEAN :
           LET o == IF again THEN View(kv, p) ELSE outcome[n]
           IN  /\ o \in [ReadsOf(p) -> Value]
               /\ MergedRun(kv, p, o, kv')
               /\ report' = Append(report, [result |-> Answer(p, o), re_executed |-> again])
    BY Zenon, <1>0, <1>2, AppliedRun
  <2> DEFINE o == IF again THEN View(kv, p) ELSE outcome[n]
             a == Answer(p, o)
  <2>3. p \in Program /\ kv \in [Cells -> Row]
    BY Zenon, <1>0, <2>1 DEF TypeOK
  <2>4. /\ o \in [ReadsOf(p) -> Value] /\ MergedRun(kv, p, o, kv')
        /\ report' = Append(report, [result |-> a, re_executed |-> again])
    BY Zenon, <2>2
  <2>5. a \in Answers
    BY Zenon, <2>3, <2>4, BatchTypes
  <2> HIDE DEF a, o
  <2>6. /\ Len(applied) = n - 1 /\ Len(applied') = n /\ applied'[n] = kv'
        /\ \A i \in 1 .. n : Earlier(i)' = Earlier(i)
        /\ kv = Earlier(n)
    BY Zenon, <1>0, <2>1, <2>4, <2>5, AppendedRun
  <2> HIDE DEF n
  <2>7. n \in Nat /\ N \in Nat
    BY <2>1, BatchTypes
  <2>8. ASSUME NEW j, j = n + 1
        PROVE  Earlier(j)' = kv'
    BY <2>6, <2>7, <2>8 DEF Earlier
  <2>9. ASSUME NEW j \in 1 .. n + 1, NEW i \in j .. N, NEW c \in MapCells, c \in Cells,
               NEW k \in keys[batch[i]][c]
        PROVE  at[ReadIn(Earlier(j)', c)][k] = at[ReadIn(snapshot, c)][k]
    <3>1. CASE j \in 1 .. n
      <4>1. j \in 1 .. Len(applied) + 1 /\ Earlier(j)' = Earlier(j)
        BY <2>6, <2>7, <3>1
      <4> QED
        BY Zenon, <2>9, <4>1 DEF KeysKept
    <3>2. CASE j = n + 1
      <4>1. /\ i \in n .. N /\ i \in 1 .. N /\ i # n /\ n \in 1 .. Len(applied) + 1
        BY <2>6, <2>7, <3>2
      <4>2. k \in Key /\ k \notin keys[p][c] /\ batch[i] \in Program
        <5>1. batch \in Separate /\ batch[i] \in Program
          BY Zenon, <1>0, <4>1 DEF KeysKept, TypeOK
        <5> QED
          BY Zenon, <2>1, <2>9, <4>1, <5>1 DEF DisjointKeys, p
      <4>3. MergesByKey(Key, at) /\ KeyByKey(p, Key, at, keys[p])
        BY Zenon, <2>3 DEF DisjointKeys
      <4> HIDE DEF p
      <4>4. at[ReadIn(kv', c)][k] = at[ReadIn(kv, c)][k]
        BY <2>3, <2>4, <2>9, <4>2, <4>3, KeyedLeavesOthers
      <4>5. at[ReadIn(kv, c)][k] = at[ReadIn(snapshot, c)][k]
        BY Zenon, <2>6, <2>9, <4>1 DEF KeysKept
      <4> QED
        BY Zenon, <2>8, <3>2, <4>4, <4>5
    <3>3. j \in 1 .. n \/ j = n + 1
      BY <2>7
    <3> QED
      BY Zenon, <3>1, <3>2, <3>3
  <2>10. batch' \in Separate /\ batch' = batch /\ snapshot' = snapshot
    BY Zenon, <2>1 DEF KeysKept
  <2> QED
    BY Zenon, <2>6, <2>9, <2>10 DEF KeysKept
<1>3. CASE (ApplySpeculative \/ ApplyMerged \/ Reexecute) /\ phase' # phase
  BY Zenon, <1>1, <1>3 DEF ApplySpeculative, ApplyMerged, Reexecute
<1>4. CASE Collect \/ Done \/ Returned \/ UNCHANGED vars
  BY Zenon, <1>1, <1>4 DEF Collect, Done, Returned
<1>5. CASE \E i \in 1 .. N : Speculate(i)
  BY Zenon, <1>1, <1>5 DEF Speculate
<1> QED
  BY Zenon, <1>2, <1>3, <1>4, <1>5 DEF Next

\* So what an applied tx found is alike what a serial run finds, and it left the same
\* entries.
LEMMA KeyedRunOf ==
    ASSUME NEW Key, NEW at, NEW keys, DisjointKeys(Key, at, keys), IInv, KeysKept(at, keys),
           NEW i \in 1 .. Len(report)
    PROVE  LET s == Earlier(i)
               p == batch[i]
           IN  /\ p \in Program /\ s \in [Cells -> Row] /\ applied[i] \in [Cells -> Row]
               /\ Seen(i) \in [ReadsOf(p) -> Value] /\ ~Fails(p, Seen(i))
               /\ ~Fails(p, View(s, p)) /\ SameEntries(Key, at, applied[i], RunAlone(s, p))
               /\ Alike(p, at, keys[p], Seen(i), View(s, p))
<1> DEFINE s == Earlier(i)
           p == batch[i]
           o == Seen(i)
<1>1. /\ i \in 1 .. N /\ i \in 1 .. Len(applied) + 1 /\ i \in i .. N
      /\ applied[i] \in [Cells -> Row] /\ snapshot \in [Cells -> Row]
      /\ i # 1 => applied[i - 1] \in [Cells -> Row]
      /\ batch \in [1 .. N -> Program]
  BY BatchTypes DEF IInv, TypeOK, DriverInv
<1>2. p \in Program /\ s \in [Cells -> Row]
  BY Zenon, <1>1 DEF Earlier
<1>3. o \in [ReadsOf(p) -> Value] /\ MergedRun(s, p, o, applied[i])
  BY Zenon DEF IInv, AppliedInv
<1>4. ReadsOf(p) \subseteq Cells
  BY Zenon, <1>2, ProgramTypes
<1>5. o = View(snapshot, p) \/ o = View(s, p)
  <2>1. ran[i] = "ok"
    <3>1. applied # <<>>
      BY <1>1 DEF IInv, DriverInv
    <3> QED
      BY Zenon, <1>1, <3>1 DEF IInv, DriverInv
  <2>2. outcome[i] = View(snapshot, p)
    BY <1>1, <2>1 DEF IInv, DriverInv
  <2> QED
    BY Zenon, <2>2 DEF Seen
<1>6. ASSUME NEW c \in MapCells, c \in ReadsOf(p), NEW k \in keys[p][c]
      PROVE  at[o[c]][k] = at[ReadIn(s, c)][k]
  <2>1. o[c] = ReadIn(snapshot, c) \/ o[c] = ReadIn(s, c)
    BY Zenon, <1>5, <1>6 DEF View
  <2>2. at[ReadIn(s, c)][k] = at[ReadIn(snapshot, c)][k]
    BY Zenon, <1>1, <1>4, <1>6 DEF KeysKept
  <2> QED
    BY Zenon, <2>1, <2>2
<1>7. MergesByKey(Key, at) /\ KeyByKey(p, Key, at, keys[p])
  BY Zenon, <1>2 DEF DisjointKeys
<1>8. ~Fails(p, o)
  BY Zenon, <1>3 DEF MergedRun
<1> HIDE DEF s, p, o
<1>9. /\ ~Fails(p, View(s, p)) /\ SameEntries(Key, at, applied[i], RunAlone(s, p))
      /\ Alike(p, at, keys[p], o, View(s, p))
  <2>1. RunsByKey(Key, at, keys[p], p, s, o, applied[i])
    BY Zenon, <1>2, <1>3, <1>6, <1>7, KeyedRunsAlone
  <2> QED
    BY Zenon, <2>1 DEF RunsByKey
<1> QED
  BY Zenon, <1>1, <1>2, <1>3, <1>8, <1>9 DEF s, p, o

\* Before the first tx is applied the store is the snapshot.
LEMMA KeysKeptInit ==
    ASSUME NEW at, NEW keys, Init, batch \in Separate
    PROVE  KeysKept(at, keys)
<1>1. Len(applied) = 0 /\ \A n \in 1 .. 0 + 1 : n = 1
  BY DEF Init
<1> QED
  BY Zenon, <1>1 DEF Init, KeysKept, Earlier

\* The invariant of the driver, whichever the batch.
KeyedInv(at, keys) == IInv /\ (batch \in Separate => KeysKept(at, keys))

\* It holds of the initial states.
LEMMA KeyedInvInit ==
    ASSUME NEW at, NEW keys, Init
    PROVE  KeyedInv(at, keys)
BY Zenon, InitInv, KeysKeptInit DEF KeyedInv

\* The driver's steps keep it, and the batch.
LEMMA KeyedInvStep ==
    ASSUME NEW Key, NEW at, NEW keys, DisjointKeys(Key, at, keys),
           KeyedInv(at, keys), [Next]_vars
    PROVE  KeyedInv(at, keys)' /\ batch' = batch
<1>1. batch' = batch
  BY Zenon DEF Next, vars, Speculate, Collect, ApplySpeculative, ApplyMerged, Reexecute, Done,
     Returned
<1>2. IInv'
  BY Zenon, StepInv DEF KeyedInv
<1>3. CASE batch \in Separate
  <2>1. KeysKept(at, keys)'
    BY Zenon, <1>3, KeysKeptStep DEF KeyedInv
  <2> QED
    BY Zenon, <1>1, <1>2, <2>1 DEF KeyedInv
<1> QED
  BY Zenon, <1>1, <1>2, <1>3 DEF KeyedInv

\* With different keys the log of the applied txs is a log of the keyed store and,
\* where every mapping has one root, of the serial store.
LEMMA KeyedLog ==
    ASSUME NEW Key, NEW at, NEW keys, DisjointKeys(Key, at, keys), IInv, KeysKept(at, keys)
    PROVE  /\ \A i \in 1 .. Len(applied) : Serial!KeyedAt(Key, at, Log, i)
           /\ OneRoot(Key, at) => \A i \in 1 .. Len(applied) : Serial!SerialAt(Log, i)
<1> DEFINE m == Len(applied)
           L == Log
<1>1. m \in Nat /\ m = Len(report) /\ applied \in Seq([Cells -> Row])
  BY DEF IInv, TypeOK, DriverInv
<1>2. /\ Len(L) = m
      /\ \A i \in 1 .. m : L[i].req = i /\ L[i].prog = batch[i] /\ L[i].after = applied[i]
  BY <1>1 DEF Log
<1> HIDE DEF L
<1> SUFFICES ASSUME NEW i \in 1 .. m
             PROVE  /\ Serial!KeyedAt(Key, at, L, i)
                    /\ OneRoot(Key, at) => Serial!SerialAt(L, i)
  BY Zenon DEF L
<1>3. Serial!Before(L, i) = Earlier(i)
  <2>1. i = 1 \/ i - 1 \in 1 .. m
    BY <1>1
  <2> QED
    BY Zenon, <1>2, <2>1 DEF Serial!Before, Earlier
<1>4. \A j \in 1 .. i - 1 : L[j].req # L[i].req
  <2>1. \A j \in 1 .. i - 1 : j \in 1 .. m /\ j # i
    BY <1>1
  <2> QED
    BY Zenon, <1>2, <2>1
<1> DEFINE s == Earlier(i)
           p == batch[i]
<1>5. /\ p \in Program /\ s \in [Cells -> Row] /\ applied[i] \in [Cells -> Row]
      /\ ~Fails(p, View(s, p)) /\ SameEntries(Key, at, applied[i], RunAlone(s, p))
  <2>1. i \in 1 .. Len(report)
    BY Zenon, <1>1
  <2> QED
    BY Zenon, <2>1, KeyedRunOf
<1>6. OneRoot(Key, at) => applied[i] = RunAlone(s, p)
  <2> HIDE DEF s, p
  <2> QED
    BY Zenon, <1>5, RunAloneType, SameEntriesSame
<1>7. Serial!KeyedAt(Key, at, L, i)
  BY Zenon, <1>2, <1>3, <1>4, <1>5, SameStore DEF Serial!KeyedAt
<1>8. OneRoot(Key, at) => Serial!SerialAt(L, i)
  BY Zenon, <1>2, <1>3, <1>4, <1>5, <1>6, SameStore DEF Serial!SerialAt
<1> QED
  BY Zenon, <1>7, <1>8

\* Where no two txs of a batch use the same key of a map, and the merge respects keys,
\* merging is as good as executing again: every applied tx leaves the entries it leaves
\* alone on what its predecessors left.
THEOREM BatchIsSerialByKey ==
    ASSUME NEW Key, NEW at, NEW keys, DisjointKeys(Key, at, keys)
    PROVE  Spec => ImplementsKeyedStore(Key, at)
<1> DEFINE Inv == KeyedInv(at, keys)
           Facts == batch \in Separate =>
                       /\ Len(Log) = Len(applied)
                       /\ \A i \in 1 .. Len(applied) : Serial!KeyedAt(Key, at, Log, i)
                       /\ kv = Serial!Result(Log)
<1>1. Init => (batch \in Separate => Serial!Init)
  BY DEF Init, Serial!Init, Log
<1>2. Init => Inv
  BY Zenon, KeyedInvInit
<1>3. Inv /\ [Next]_vars => Inv'
  BY Zenon, KeyedInvStep
<1>4. Inv => Facts
  BY Zenon, LogFacts, KeyedLog DEF KeyedInv
<1>5. Inv /\ [Next]_vars /\ Facts /\ Facts'
         => [(batch \in Separate) => Serial!KeyedCommit(Key, at)]_(Serial!vars)
  <2> SUFFICES ASSUME Inv, [Next]_vars, Facts, Facts', batch \in Separate
               PROVE  [Serial!KeyedCommit(Key, at)]_(Serial!vars)
    BY Zenon
  <2>0. IInv /\ batch' = batch
    BY Zenon, KeyedInvStep DEF KeyedInv
  <2>1. snapshot' = snapshot
    BY Zenon, <2>0, LogExtends
  <2>2. CASE UNCHANGED <<kv, Log>>
    BY Zenon, <2>1, <2>2 DEF Serial!vars
  <2>3. CASE /\ Len(applied') = Len(applied) + 1
             /\ SubSeq(Log', 1, Len(applied)) = Log
    <3>1. Len(applied) \in Nat
      BY <2>0 DEF IInv, TypeOK
    <3>2. /\ Len(Log') > Len(Log)
          /\ \A i \in Len(Log) + 1 .. Len(Log') : i \in 1 .. Len(applied')
      BY <2>0, <2>3, <3>1
    <3>3. \A i \in 1 .. Len(applied') : Serial!KeyedAt(Key, at, Log', i)
      BY Zenon, <2>0, <2>1 DEF Serial!KeyedAt, Serial!Before
    <3>4. kv' = Serial!Result(Log')
      BY Zenon, <2>0, <2>1 DEF Serial!Result, Serial!Before
    <3> QED
      BY Zenon, <2>1, <2>3, <3>2, <3>3, <3>4 DEF Serial!KeyedCommit
  <2> QED
    BY Zenon, <2>0, <2>2, <2>3, LogExtends
<1> HIDE DEF Facts, Inv
<1> QED
  BY <1>1, <1>2, <1>3, <1>4, <1>5, PTL DEF Spec, ImplementsKeyedStore

\* If moreover every mapping has one root, the driver implements the serial store, merges
\* included: "the final state is identical to running the txs sequentially".
THEOREM KeyedBatchIsSerial ==
    ASSUME NEW Key, NEW at, NEW keys, DisjointKeys(Key, at, keys), OneRoot(Key, at)
    PROVE  Spec => ImplementsSerialStore
<1>1. Init => (batch \in Separate => Serial!Init)
  BY DEF Init, Serial!Init, Log
<1> DEFINE Inv == KeyedInv(at, keys)
           Facts == batch \in Separate => SerialLog
<1>2. Init => Inv
  BY Zenon, KeyedInvInit
<1>3. Inv /\ [Next]_vars => Inv'
  BY Zenon, KeyedInvStep
<1>4. Inv => Facts
  BY Zenon, LogFacts, KeyedLog DEF KeyedInv, SerialLog
<1>5. Inv /\ [Next]_vars /\ Facts /\ Facts'
         => [(batch \in Separate) => Serial!Next]_(Serial!vars)
  <2> SUFFICES ASSUME Inv, [Next]_vars, Facts, Facts', batch \in Separate
               PROVE  [Serial!Next]_(Serial!vars)
    BY Zenon
  <2>1. IInv /\ batch' = batch
    BY Zenon, KeyedInvStep DEF KeyedInv
  <2> QED
    BY Zenon, <2>1, SerialStep
<1> HIDE DEF Facts, Inv
<1> QED
  BY <1>1, <1>2, <1>3, <1>4, <1>5, PTL DEF Spec, ImplementsSerialStore

\* A tx whose speculation counted, though its maps were merged, reports what it would
\* have returned in a serial run, if that depends on its own keys only.
THEOREM ReportsSerialByKey ==
    ASSUME NEW Key, NEW at, NEW keys, DisjointKeys(Key, at, keys), AnswersByKey(at, keys)
    PROVE  Spec => []ReportsAreSerial
<1> DEFINE Inv == KeyedInv(at, keys)
<1>1. Init => Inv
  BY Zenon, KeyedInvInit
<1>2. Inv /\ [Next]_vars => Inv'
  BY Zenon, KeyedInvStep
<1>3. Inv => ReportsAreSerial
  <2> SUFFICES ASSUME IInv, KeysKept(at, keys), NEW i \in 1 .. Len(report)
               PROVE  report[i].result = Answer(batch[i], View(Earlier(i), batch[i]))
    BY Zenon DEF KeyedInv, ReportsAreSerial
  <2> DEFINE p == batch[i]
             v == View(Earlier(i), p)
  <2>1. report[i].result = Answer(p, Seen(i))
    BY Zenon DEF IInv, AppliedInv
  <2>2. /\ p \in Program /\ Earlier(i) \in [Cells -> Row]
        /\ Seen(i) \in [ReadsOf(p) -> Value] /\ ~Fails(p, Seen(i))
        /\ Alike(p, at, keys[p], Seen(i), v)
    BY Zenon, KeyedRunOf
  <2>3. v \in [ReadsOf(p) -> Value]
    BY Zenon, <2>2, ViewType
  <2> QED
    BY Zenon, <2>1, <2>2, <2>3 DEF AnswersByKey
<1> HIDE DEF Inv
<1> QED
  BY <1>1, <1>2, <1>3, PTL DEF Spec
=============================================================================
