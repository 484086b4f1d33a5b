-------------------------- MODULE GroupCommitSerial --------------------------
(***************************************************************************)
(* What follows from each request taking effect once: the commit pipeline  *)
(* implements the merging store and, where nothing is merged, the serial   *)
(* one, and what a committed request was compiled from is as safe as what  *)
(* it wrote.                                                               *)
(***************************************************************************)
EXTENDS GroupCommitOnce

\* Entry e, a commit under the programs f of the requests, turned s into t.
IsRun(f, e, s, t) ==
    /\ f[e.req] \in Program /\ e.reads \in [ReadsOf(f[e.req]) -> Value]
    /\ MergedRun(s, f[e.req], e.reads, t)

\* Every entry of the history is a commit, on the store before it, of what its
\* program observed.
RunInv ==
    /\ states[1] = Fresh
    /\ \A i \in 1 .. Len(hist) : IsRun(program, hist[i], states[i], states[i + 1])

\* A job that commit_batch accepts has used what its predecessors left, but for
\* the map roots that are merged.
LEMMA AcceptedRun ==
    ASSUME IInv, NEW w \in Worker, validate_and_apply_job(w), JobApplies(w, NextJob(w))
    PROVE  \E e, t : /\ IsRun(program, e, states[Len(states)], t)
                     /\ hist' = Append(hist, e) /\ states' = Append(states, t)
<1> USE DEF store, handler, batch, bounds, history, vars
<1> DEFINE r == NextJob(w)
           p == program[r]
           s == states[Len(states)]
           M == {c \in ReadsOf(p) : ~read_matches(c, s[c], obs[r][c])}
           e == [req |-> r, reads |-> obs[r], writes |-> LocalWrites(w, r),
                 merged |-> Mismatched(w, r)]
<1>0. TypeOK /\ QueueInv /\ LockInv /\ SerialHistory
  BY Zenon DEF IInv
<1>1. /\ hist' = Append(hist, e)
      /\ states' = Append(states, Update(s, LocalWrites(w, r)))
  BY Zenon DEF validate_and_apply_job
<1>2. r \in Request /\ obs[r] \in [ReadsOf(p) -> Value] /\ ~Fails(p, obs[r]) /\ p \in Program
  BY Zenon, <1>0, NextJobComplete DEF Complete, Reverts, TypeOK
<1>3. s = Update(disk, overlay[w]) /\ s \in [Cells -> Row]
  <2>1. s = Update(disk, overlay[w])
    BY Zenon, <1>0, DistinctActors DEF LockInv, validate_and_apply_job
  <2>2. states \in Seq([Cells -> Row]) /\ Len(states) = Len(hist) + 1 /\ Len(hist) \in Nat
    BY <1>0 DEF TypeOK, SerialHistory
  <2> QED
    BY <2>1, <2>2
<1>4. ReadsOf(p) \subseteq Cells
  BY Zenon, <1>2, ProgramTypes
<1> HIDE DEF s, p
<1>5. \A c \in Cells : s[c] = Live(w, c)
  BY Zenon, <1>3 DEF Update, Live
<1>6. Mismatched(w, r) = M
  BY Zenon, <1>2, <1>4, <1>5 DEF Mismatched
<1>7. \A c \in M : /\ c \in MapCells /\ c \in DOMAIN Writes(r) /\ c \in Cells
                   /\ Merged(w, r, c) # NoMerge
  BY Zenon, <1>4, <1>6 DEF JobApplies, Reconcilable
<1>8. \A c \in M : Merged(w, r, c) = MergeThreeWay(Effect(p, obs[r])[c], ReadIn(s, c), obs[r][c])
  BY Zenon, <1>5, <1>7 DEF Merged, Writes, ReadIn, p
<1>9. LocalWrites(w, r) = MergedWrites(s, p, obs[r], M)
  BY Zenon, <1>6, <1>8 DEF LocalWrites, MergedWrites, Writes, p
<1>10. \A c \in M : /\ c \in MapCells /\ c \in DOMAIN Effect(p, obs[r])
                    /\ MergeThreeWay(Effect(p, obs[r])[c], ReadIn(s, c), obs[r][c]) # NoMerge
  BY Zenon, <1>7, <1>8 DEF Writes, p
<1>11. MergedRun(s, p, obs[r], Update(s, LocalWrites(w, r)))
  <2> HIDE DEF r
  <2>1. PICK X : X = M
    BY Zenon
  <2> QED
    BY Zenon, <1>2, <1>3, <1>9, <1>10, <2>1, ValidatedIsMergedRun
<1>12. e.req = r /\ e.reads = obs[r]
  OBVIOUS
<1> HIDE DEF e
<1>13. IsRun(program, e, s, Update(s, LocalWrites(w, r)))
  BY Zenon, <1>2, <1>11, <1>12 DEF IsRun, p
<1> QED
  BY Zenon, <1>1, <1>13 DEF s

\* A prefix of the history consists of the same runs.
LEMMA RunPrefix ==
    ASSUME TypeOK, SerialHistory, RunInv, program' = program, NEW n \in Nat, n <= Len(hist),
           Len(hist') = n, \A i \in 1 .. n : hist'[i] = hist[i],
           \A i \in 1 .. n + 1 : states'[i] = states[i]
    PROVE  RunInv'
<1>1. 1 \in 1 .. n + 1 /\ \A i \in 1 .. n : i \in 1 .. Len(hist) /\ i \in 1 .. n + 1 /\ i + 1 \in 1 .. n + 1
  BY DEF TypeOK
<1> QED
  BY Zenon, <1>1 DEF RunInv

\* What a step does to the history that is on disk.
LEMMA RunStep ==
    ASSUME IInv, OnceInv, RunInv, [Next]_vars
    PROVE  RunInv'
<1> USE DEF store, handler, batch, bounds, history, vars
<1>0. TypeOK /\ QueueInv /\ LockInv /\ SerialHistory
  BY Zenon DEF IInv
<1>1. /\ hist \in Seq(Entry) /\ states \in Seq([Cells -> Row]) /\ Len(states) = Len(hist) + 1
      /\ committed \in Nat /\ committed <= Len(hist) /\ survives \in Nat /\ survives <= Len(hist)
  BY <1>0 DEF TypeOK, SerialHistory, LockInv
<1>2. CASE UNCHANGED <<program, hist, states>>
  BY Zenon, <1>2 DEF RunInv
<1>3. CASE \E w \in Worker : validate_and_apply_job(w)
  <2>1. PICK w \in Worker : validate_and_apply_job(w)
    BY Zenon, <1>3
  <2>2. CASE ~JobApplies(w, NextJob(w))
    BY Zenon, <1>2, <2>1, <2>2 DEF validate_and_apply_job
  <2>3. CASE JobApplies(w, NextJob(w))
    <3> DEFINE s == states[Len(states)]
    <3>1. PICK e, t : /\ IsRun(program, e, s, t)
                      /\ hist' = Append(hist, e) /\ states' = Append(states, t)
      BY Zenon, <2>1, <2>3, AcceptedRun
    <3>3. program' = program
      BY Zenon, <2>1 DEF validate_and_apply_job
    <3> DEFINE n == Len(hist) + 1
    <3>4. /\ n \in Nat /\ 1 \in 1 .. n /\ n = Len(states)
          /\ \A i \in 1 .. n : states'[i] = states[i]
          /\ states'[n + 1] = t
      BY <1>1, <3>1
    <3>5. /\ Len(hist') = n /\ hist'[n] = e
          /\ \A i \in 1 .. n - 1 : hist'[i] = hist[i]
      BY <1>1, <3>1
    <3>6. \A i \in 1 .. n : i = n \/ (i \in 1 .. Len(hist) /\ i \in 1 .. n - 1 /\ i + 1 \in 1 .. n)
      BY <1>1
    <3>7. ASSUME NEW i \in 1 .. n
          PROVE  IsRun(program, hist'[i], states'[i], states'[i + 1])
      <4>1. CASE i = n
        BY Zenon, <3>1, <3>4, <3>5, <4>1
      <4>2. CASE i \in 1 .. Len(hist) /\ i \in 1 .. n - 1 /\ i + 1 \in 1 .. n
        <5>1. hist'[i] = hist[i] /\ states'[i] = states[i] /\ states'[i + 1] = states[i + 1]
          BY Zenon, <3>4, <3>5, <4>2
        <5> QED
          BY Zenon, <4>2, <5>1 DEF RunInv
      <4> QED
        BY Zenon, <3>6, <4>1, <4>2
    <3>8. states'[1] = Fresh
      BY Zenon, <3>4 DEF RunInv
    <3> QED
      BY Zenon, <3>3, <3>5, <3>7, <3>8 DEF RunInv
  <2> QED
    BY Zenon, <2>2, <2>3
<1>4. ASSUME NEW n \in Nat, n <= Len(hist), program' = program,
             hist' = SubSeq(hist, 1, n), states' = SubSeq(states, 1, n + 1)
      PROVE  RunInv'
  <2>1. Len(hist') = n /\ \A i \in 1 .. n : hist'[i] = hist[i]
    BY Zenon, <1>1, <1>4, Truncated
  <2>2. n + 1 \in Nat /\ n + 1 <= Len(states)
    BY <1>1, <1>4
  <2>3. \A i \in 1 .. n + 1 : states'[i] = states[i]
    BY Zenon, <1>1, <1>4, <2>2, Truncated
  <2> QED
    BY Zenon, <1>0, <1>4, <2>1, <2>3, RunPrefix
<1>5. CASE \E w \in Worker : CommitError(w)
  BY Zenon, <1>1, <1>4, <1>5 DEF CommitError
<1>6. CASE Crash
  BY Zenon, <1>1, <1>4, <1>6 DEF Crash
<1>7. CASE \/ \E a \in Artifact : Compile(a)
           \/ \E r \in Request : Accept(r) \/ ReadCell(r) \/ ReadError(r)
           \/ \E r \in Txs : ExecuteTx(r) \/ Send(r) \/ Disconnect(r) \/ ReceiveReply(r)
           \/ \E d \in Deploys : ExecuteDeploy(d) \/ DeployReturns(d)
           \/ \E q \in Queries : AnswerQuery(q)
           \/ Recv \/ Drain \/ Reply \/ Flush \/ Idle \/ UNCHANGED vars
           \/ \E w \in Worker : Acquire(w) \/ WriteBatch(w)
  BY Zenon, <1>2, <1>7 DEF Compile, Accept, ReadCell, ReadError, ExecuteTx, Send, Disconnect,
       ReceiveReply, ExecuteDeploy, DeployReturns, AnswerQuery, Recv, Drain, Reply, Flush, Idle,
       Acquire, WriteBatch
<1> QED
  BY Zenon, <1>3, <1>5, <1>6, <1>7 DEF Next
-----------------------------------------------------------------------------
\* The store the specifications of a commit path are about is this one.
LEMMA SameStore ==
    /\ \A s, p, o, t : Serial!MergedRun(s, p, o, t) = MergedRun(s, p, o, t)
    /\ \A s, p : Serial!View(s, p) = View(s, p) /\ Serial!RunAlone(s, p) = RunAlone(s, p)
    /\ \A Key, at, s, t : Serial!SameEntries(Key, at, s, t) = SameEntries(Key, at, s, t)
<1>1. \A s, c : Serial!ReadIn(s, c) = ReadIn(s, c)
  BY Zenon DEF Serial!ReadIn, ReadIn
<1>2. \A s, p : Serial!View(s, p) = View(s, p)
  BY Zenon, <1>1 DEF Serial!View, View
<1>3. \A f, g : Serial!Update(f, g) = Update(f, g)
  BY Zenon DEF Serial!Update, Update
<1>4. \A s, p, o, M : Serial!MergedWrites(s, p, o, M) = MergedWrites(s, p, o, M)
  BY ZenonT(40), <1>1 DEF Serial!MergedWrites, MergedWrites
<1>5. \A s, p, o, t : Serial!MergedRun(s, p, o, t) = MergedRun(s, p, o, t)
  BY <1>1, <1>3, <1>4 DEF Serial!MergedRun, MergedRun
<1>6. \A Key, at, s, t : Serial!SameEntries(Key, at, s, t) = SameEntries(Key, at, s, t)
  BY Zenon DEF Serial!SameEntries, SameEntries
<1> QED
  BY Zenon, <1>2, <1>3, <1>5, <1>6 DEF Serial!RunAlone, RunAlone

\* The log of the first n entries of the history.
LogOf(n) ==
    [i \in 1 .. n |-> [req |-> hist[i].req, prog |-> program[hist[i].req],
                       seen |-> hist[i].reads, after |-> states[i + 1]]]

\* Entry i of the log of a prefix of the history is the commit of its program, of a
\* request that did not commit before, between the states the history has there.
EntryAt(L, i) ==
    /\ i \in 1 .. Len(hist) /\ L[i].prog \in Program
    /\ L[i].prog = program[hist[i].req] /\ L[i].seen = hist[i].reads
    /\ L[i].after = states[i + 1] /\ Serial!Before(L, i) = states[i]
    /\ L[i].seen \in [ReadsOf(L[i].prog) -> Value]
    /\ MergedRun(states[i], L[i].prog, L[i].seen, states[i + 1])
    /\ \A j \in 1 .. i - 1 : L[j].req # L[i].req

\* So it is for every prefix of the history.
LEMMA LogEntry ==
    ASSUME IInv, OnceInv, RunInv, NEW n \in Nat, n <= Len(hist)
    PROVE  /\ Len(LogOf(n)) = n /\ Serial!Result(LogOf(n)) = states[n + 1]
           /\ \A i \in 1 .. n : EntryAt(LogOf(n), i)
<1> DEFINE L == LogOf(n)
<1>1. hist \in Seq(Entry) /\ Len(hist) \in Nat
  BY DEF IInv, TypeOK
<1>2. /\ L \in [1 .. n -> {L[i] : i \in 1 .. n}]
      /\ \A i \in 1 .. n : /\ L[i].req = hist[i].req
                           /\ L[i].prog = program[hist[i].req]
                           /\ L[i].seen = hist[i].reads
                           /\ L[i].after = states[i + 1]
  BY Zenon DEF LogOf
<1> HIDE DEF L
<1>3. Len(L) = n
  <2>1. n \in 0 .. n
    OBVIOUS
  <2> QED
    BY Zenon, <1>2, <2>1, PrefixOfFunction
<1>4. ASSUME NEW i \in 1 .. n + 1
      PROVE  Serial!Before(L, i) = states[i]
  <2>1. CASE i = 1
    BY Zenon, <2>1 DEF Serial!Before, RunInv
  <2>2. CASE i # 1
    <3>1. i - 1 \in 1 .. n /\ (i - 1) + 1 = i
      BY <2>2
    <3>2. L[i - 1].after = states[(i - 1) + 1]
      BY Zenon, <1>2, <3>1
    <3> QED
      BY Zenon, <2>2, <3>1, <3>2 DEF Serial!Before
  <2> QED
    BY Zenon, <2>1, <2>2
<1>5. ASSUME NEW i \in 1 .. n
      PROVE  /\ i \in 1 .. Len(hist) /\ L[i].prog \in Program
             /\ Serial!Before(L, i) = states[i]
             /\ L[i].seen \in [ReadsOf(L[i].prog) -> Value]
             /\ MergedRun(states[i], L[i].prog, L[i].seen, states[i + 1])
             /\ \A j \in 1 .. i - 1 : L[j].req # L[i].req
  <2> DEFINE p == program[hist[i].req]
             o == hist[i].reads
  <2>1. i \in 1 .. Len(hist) /\ i \in 1 .. n + 1
        /\ \A j \in 1 .. i - 1 : j \in 1 .. n /\ j \in 1 .. Len(hist) /\ j # i
    BY <1>1
  <2>2. p \in Program /\ o \in [ReadsOf(p) -> Value] /\ MergedRun(states[i], p, o, states[i + 1])
    BY Zenon, <2>1 DEF RunInv, IsRun
  <2>3. L[i].prog = p /\ L[i].seen = o /\ Serial!Before(L, i) = states[i]
    BY Zenon, <1>2, <1>4, <2>1
  <2>4. \A j \in 1 .. i - 1 : L[j].req # L[i].req
    <3> TAKE j \in 1 .. i - 1
    <3>1. L[j].req = hist[j].req /\ L[i].req = hist[i].req
      BY Zenon, <1>2, <2>1
    <3> QED
      BY Zenon, <2>1, <3>1 DEF OnceInv, HistOnce
  <2> HIDE DEF p, o
  <2> QED
    BY Zenon, <2>1, <2>2, <2>3, <2>4
<1>6. Serial!Result(L) = states[n + 1]
  <2>1. n + 1 \in 1 .. n + 1
    OBVIOUS
  <2> QED
    BY Zenon, <1>3, <1>4, <2>1 DEF Serial!Result
<1> QED
  BY Zenon, <1>2, <1>3, <1>5, <1>6 DEF L, EntryAt

\* So the log is one of the merging store and, where nothing is merged, of the serial.
LEMMA LogIsSerial ==
    ASSUME IInv, OnceInv, RunInv, NEW n \in Nat, n <= Len(hist)
    PROVE  /\ \A i \in 1 .. n : Serial!MergedAt(LogOf(n), i)
           /\ (\A p \in Program : MergesNothing(p)) =>
                  \A i \in 1 .. n : Serial!SerialAt(LogOf(n), i)
<1> DEFINE L == LogOf(n)
<1> SUFFICES ASSUME NEW i \in 1 .. n
             PROVE  /\ Serial!MergedAt(L, i)
                    /\ (\A p \in Program : MergesNothing(p)) => Serial!SerialAt(L, i)
  BY Zenon
<1> DEFINE p == L[i].prog
           o == L[i].seen
           b == Serial!Before(L, i)
           t == L[i].after
<1>1. /\ p \in Program /\ o \in [ReadsOf(p) -> Value] /\ MergedRun(b, p, o, t)
      /\ \A j \in 1 .. i - 1 : L[j].req # L[i].req
  <2>1. /\ L[i].prog \in Program
        /\ L[i].after = states[i + 1] /\ Serial!Before(L, i) = states[i]
        /\ L[i].seen \in [ReadsOf(L[i].prog) -> Value]
        /\ MergedRun(states[i], L[i].prog, L[i].seen, states[i + 1])
        /\ \A j \in 1 .. i - 1 : L[j].req # L[i].req
    <3>1. EntryAt(L, i)
      BY Zenon, LogEntry
    <3> HIDE DEF L
    <3> QED
      BY Zenon, <3>1 DEF EntryAt
  <2> HIDE DEF L
  <2> QED
    BY Zenon, <2>1
<1>2. Serial!MergedAt(L, i)
  BY Zenon, <1>1, SameStore DEF Serial!MergedAt
<1>3. ASSUME \A q \in Program : MergesNothing(q)
      PROVE  Serial!SerialAt(L, i)
  <2>1. ~Fails(p, View(b, p)) /\ t = RunAlone(b, p)
    <3> HIDE DEF p, o, b, t
    <3> QED
      BY Zenon, <1>1, <1>3, PlainRunsAlone
  <2> QED
    BY Zenon, <1>1, <2>1, SameStore DEF Serial!SerialAt
<1> QED
  BY Zenon, <1>2, <1>3

\* The log of a shorter prefix is a prefix of the log.
LEMMA LogPrefix ==
    ASSUME NEW n \in Nat, NEW m \in 0 .. n
    PROVE  SubSeq(LogOf(n), 1, m) = LogOf(m)
<1> DEFINE L == LogOf(n)
           E == {L[i] : i \in 1 .. n}
<1>1. L \in [1 .. n -> E]
  BY DEF LogOf
<1>2. \A i \in 1 .. m : i \in 1 .. n
  OBVIOUS
<1>3. [i \in 1 .. m |-> L[i]] = LogOf(m)
  <2>1. \A i \in 1 .. m : L[i] = [req |-> hist[i].req, prog |-> program[hist[i].req],
                                 seen |-> hist[i].reads, after |-> states[i + 1]]
    BY Zenon, <1>2 DEF LogOf
  <2> HIDE DEF L
  <2> QED
    BY Zenon, <2>1 DEF LogOf
<1> HIDE DEF L, E
<1>4. SubSeq(L, 1, m) = [i \in 1 .. m |-> L[i]]
  BY <1>1, PrefixOfFunction
<1> QED
  BY Zenon, <1>3, <1>4 DEF L

\* The batch on its way is written: the log grows by the rest of the history.
LogGrows ==
    /\ Len(CommittedLog') > Len(CommittedLog)
    /\ SubSeq(CommittedLog', 1, Len(CommittedLog)) = CommittedLog
    /\ CommittedLog' = LogOf(Len(hist)) /\ Len(CommittedLog') = Len(hist)
    /\ Len(CommittedLog) \in Nat
    /\ disk' = Serial!Result(CommittedLog')

\* Every step of the pipeline leaves the log alone or extends it, as WriteBatch does,
\* but for a crash, which may lose what was not synced.
LEMMA StepLog ==
    ASSUME IInv, OnceInv, RunInv, [Next]_vars
    PROVE  UNCHANGED Serial!vars \/ Serial!LoseSuffix \/ LogGrows
<1> USE DEF store, handler, batch, bounds, history, vars
<1>0. TypeOK /\ QueueInv /\ LockInv /\ SerialHistory
  BY Zenon DEF IInv
<1>1. /\ hist \in Seq(Entry) /\ states \in Seq([Cells -> Row]) /\ Len(states) = Len(hist) + 1
      /\ committed \in Nat /\ committed <= Len(hist) /\ survives \in Nat /\ survives <= committed
      /\ disk = states[committed + 1] /\ stable = states[survives + 1]
  BY Zenon, <1>0 DEF TypeOK, SerialHistory, LockInv
<1>2. CommittedLog = LogOf(committed)
  BY DEF CommittedLog, LogOf
<1>3. ASSUME UNCHANGED <<program, disk, committed>>,
             \A i \in 1 .. committed : hist'[i] = hist[i] /\ states'[i + 1] = states[i + 1]
      PROVE  UNCHANGED Serial!vars
  <2>1. CommittedLog' = CommittedLog
    BY <1>3 DEF CommittedLog
  <2> QED
    BY <1>3, <2>1 DEF Serial!vars
<1>4. CASE \E w \in Worker : WriteBatch(w)
  <2>1. PICK w \in Worker : WriteBatch(w)
    BY Zenon, <1>4
  <2>2. /\ UNCHANGED <<program, hist, states>> /\ committed' = Len(hist)
        /\ disk' = states[Len(hist) + 1]
    BY Zenon, <1>0, <1>1, <2>1, DistinctActors DEF WriteBatch, LockInv
  <2>3. CommittedLog' = LogOf(Len(hist))
    BY Zenon, <2>2 DEF CommittedLog, LogOf
  <2>4. Len(hist) \in Nat /\ Len(hist) <= Len(hist) /\ committed \in 0 .. Len(hist)
    BY <1>1
  <2>5. /\ Len(CommittedLog') = Len(hist) /\ Len(CommittedLog) = committed
        /\ disk' = Serial!Result(CommittedLog')
    BY Zenon, <1>1, <1>2, <2>2, <2>3, <2>4, LogEntry
  <2>6. SubSeq(CommittedLog', 1, committed) = CommittedLog
    BY Zenon, <1>2, <2>3, <2>4, LogPrefix
  <2>7. CASE committed = Len(hist)
    BY Zenon, <1>1, <1>2, <2>2, <2>3, <2>7 DEF Serial!vars
  <2>8. CASE committed < Len(hist)
    <3>1. Len(CommittedLog') > Len(CommittedLog)
      BY <1>1, <2>5, <2>8
    <3> QED
      BY Zenon, <1>1, <2>3, <2>5, <2>6, <3>1 DEF LogGrows
  <2> QED
    BY <1>1, <2>7, <2>8
<1>5. CASE Crash
  <2>1. /\ program' = program /\ committed' = survives /\ disk' = stable
        /\ hist' = SubSeq(hist, 1, survives) /\ states' = SubSeq(states, 1, survives + 1)
    BY Zenon, <1>5 DEF Crash
  <2>2. /\ survives <= Len(hist) /\ survives + 1 \in Nat /\ survives + 1 <= Len(states)
        /\ survives \in 0 .. committed
        /\ \A i \in 1 .. survives : i + 1 \in 1 .. survives + 1
    BY <1>1
  <2>3. \A i \in 1 .. survives : hist'[i] = hist[i]
    BY Zenon, <1>1, <2>1, <2>2, Truncated
  <2>4. \A i \in 1 .. survives + 1 : states'[i] = states[i]
    BY Zenon, <1>1, <2>1, <2>2, Truncated
  <2>5. \A i \in 1 .. survives : hist'[i] = hist[i] /\ states'[i + 1] = states[i + 1]
    BY Zenon, <2>2, <2>3, <2>4
  <2>6. committed' = survives /\ program' = program
    BY Zenon, <2>1
  <2>7. CASE Durable
    <3>1. survives = committed
      BY Zenon, <2>7 DEF OnceInv, HistOnce
    <3>2. disk' = disk
      BY Zenon, <1>1, <2>1, <3>1
    <3> QED
      BY Zenon, <1>3, <2>5, <2>6, <3>1, <3>2
  <2>8. CASE ~Durable
    <3>1. CommittedLog' = LogOf(survives)
      BY <2>5, <2>6 DEF CommittedLog, LogOf
    <3>2. CommittedLog' = SubSeq(CommittedLog, 1, survives)
      BY Zenon, <1>1, <1>2, <2>2, <3>1, LogPrefix
    <3>3. Len(CommittedLog) = committed
      BY Zenon, <1>1, <1>2, LogEntry
    <3>4. disk' = Serial!Result(CommittedLog')
      BY Zenon, <1>1, <2>1, <2>2, <3>1, LogEntry
    <3> QED
      BY Zenon, <2>2, <2>8, <3>2, <3>3, <3>4 DEF Serial!LoseSuffix
  <2> QED
    BY Zenon, <2>7, <2>8
<1>6. CASE \E w \in Worker : validate_and_apply_job(w)
  <2>1. PICK w \in Worker : validate_and_apply_job(w)
    BY Zenon, <1>6
  <2>2. UNCHANGED <<program, disk, committed>>
    BY Zenon, <2>1 DEF validate_and_apply_job
  <2>3. UNCHANGED <<hist, states>> \/ \E e, t : hist' = Append(hist, e) /\ states' = Append(states, t)
    BY Zenon, <2>1 DEF validate_and_apply_job
  <2>4. \A i \in 1 .. committed : hist'[i] = hist[i] /\ states'[i + 1] = states[i + 1]
    <3>1. CASE UNCHANGED <<hist, states>>
      BY Zenon, <3>1
    <3>2. CASE \E e, t : hist' = Append(hist, e) /\ states' = Append(states, t)
      <4>1. PICK e, t : hist' = Append(hist, e) /\ states' = Append(states, t)
        BY Zenon, <3>2
      <4> QED
        BY <1>1, <4>1
    <3> QED
      BY Zenon, <2>3, <3>1, <3>2
  <2> QED
    BY Zenon, <1>3, <2>2, <2>4
<1>7. CASE \E w \in Worker : CommitError(w)
  <2>1. /\ UNCHANGED <<program, disk, committed>>
        /\ hist' = SubSeq(hist, 1, committed) /\ states' = SubSeq(states, 1, committed + 1)
    BY Zenon, <1>7 DEF CommitError
  <2>2. /\ committed + 1 \in Nat /\ committed + 1 <= Len(states)
        /\ \A i \in 1 .. committed : i + 1 \in 1 .. committed + 1
    BY <1>1
  <2>3. \A i \in 1 .. committed : hist'[i] = hist[i]
    BY Zenon, <1>1, <2>1, Truncated
  <2>4. \A i \in 1 .. committed + 1 : states'[i] = states[i]
    BY Zenon, <1>1, <2>1, <2>2, Truncated
  <2>5. \A i \in 1 .. committed : hist'[i] = hist[i] /\ states'[i + 1] = states[i + 1]
    BY Zenon, <2>2, <2>3, <2>4
  <2>6. UNCHANGED <<program, disk, committed>>
    BY Zenon, <2>1
  <2> QED
    BY Zenon, <1>3, <2>5, <2>6
<1>8. CASE \/ \E a \in Artifact : Compile(a)
           \/ \E r \in Request : Accept(r) \/ ReadCell(r) \/ ReadError(r)
           \/ \E r \in Txs : ExecuteTx(r) \/ Send(r) \/ Disconnect(r) \/ ReceiveReply(r)
           \/ \E d \in Deploys : ExecuteDeploy(d) \/ DeployReturns(d)
           \/ \E q \in Queries : AnswerQuery(q)
           \/ Recv \/ Drain \/ Reply \/ Flush \/ Idle \/ UNCHANGED vars
           \/ \E w \in Worker : Acquire(w)
  <2>1. UNCHANGED <<program, disk, committed, hist, states>>
    BY Zenon, <1>8 DEF Compile, Accept, ReadCell, ReadError, ExecuteTx, Send, Disconnect,
         ReceiveReply, ExecuteDeploy, DeployReturns, AnswerQuery, Recv, Drain, Reply, Flush, Idle,
         Acquire
  <2> QED
    BY Zenon, <1>3, <2>1
<1> QED
  BY Zenon, <1>4, <1>5, <1>6, <1>7, <1>8 DEF Next

\* Hence every step is one of the merging store, where nothing is merged of the serial.
LEMMA StepSerial ==
    ASSUME IInv, OnceInv, RunInv, [Next]_vars
    PROVE  /\ [Serial!MergingCommit \/ Serial!LoseSuffix]_(Serial!vars)
           /\ (\A p \in Program : MergesNothing(p)) => [Serial!Next]_(Serial!vars)
<1>1. CASE LogGrows
  <2>1. Len(hist) \in Nat /\ Len(hist) <= Len(hist)
    BY DEF IInv, TypeOK
  <2>2. \A i \in Len(CommittedLog) + 1 .. Len(CommittedLog') : i \in 1 .. Len(hist)
    BY <1>1, <2>1 DEF LogGrows
  <2>3. /\ \A i \in 1 .. Len(hist) : Serial!MergedAt(CommittedLog', i)
        /\ (\A p \in Program : MergesNothing(p)) =>
              \A i \in 1 .. Len(hist) : Serial!SerialAt(CommittedLog', i)
    BY Zenon, <1>1, <2>1, LogIsSerial DEF LogGrows
  <2>4. Serial!MergingCommit
    BY Zenon, <1>1, <2>2, <2>3 DEF LogGrows, Serial!MergingCommit
  <2>5. (\A p \in Program : MergesNothing(p)) => Serial!Commit
    BY Zenon, <1>1, <2>2, <2>3 DEF LogGrows, Serial!Commit
  <2> QED
    BY Zenon, <2>4, <2>5 DEF Serial!Next
<1>2. CASE UNCHANGED Serial!vars \/ Serial!LoseSuffix
  BY Zenon, <1>2 DEF Serial!Next
<1> QED
  BY Zenon, <1>1, <1>2, StepLog

\* The commit pipeline implements the merging store: clients that read cell by cell
\* from the live database, several to a batch, over retries, disconnects, errors and
\* crashes, used what their predecessors left in every cell but the map roots that
\* were merged, and a crash takes back only a suffix of the commits, with durable
\* commits nothing; for every set of requests and programs and every batch size.
THEOREM PipelineMerges == Spec => ImplementsMergingStore
<1>1. Init => Serial!Init
  BY DEF Init, Serial!Init, CommittedLog
<1>2. Init => RunInv
  BY DEF Init, RunInv
<1>3. IInv /\ [Next]_vars => IInv'
  BY Zenon, TypeStep, QueueStep, HistoryStep DEF IInv
<1>4. IInv /\ OnceInv /\ [Next]_vars => OnceInv'
  BY OnceStep
<1>5. IInv /\ OnceInv /\ RunInv /\ [Next]_vars => RunInv'
  BY RunStep
<1>6. IInv /\ OnceInv /\ RunInv /\ [Next]_vars
         => [Serial!MergingCommit \/ Serial!LoseSuffix]_(Serial!vars)
  BY StepSerial
<1> QED
  BY <1>1, <1>2, <1>3, <1>4, <1>5, <1>6, InitInv, OnceInit, PTL
     DEF Spec, ImplementsMergingStore, Serial!MergingSpec

\* Where no program writes a map root it has read the pipeline implements the serial
\* store: its clients get the effects of running their programs one at a time.
THEOREM PipelineIsSerial ==
    (\A p \in Program : MergesNothing(p)) => (Spec => ImplementsSerialStore)
<1> SUFFICES ASSUME \A p \in Program : MergesNothing(p) PROVE Spec => ImplementsSerialStore
  OBVIOUS
<1>1. Init => Serial!Init
  BY DEF Init, Serial!Init, CommittedLog
<1>2. Init => RunInv
  BY DEF Init, RunInv
<1>3. IInv /\ [Next]_vars => IInv'
  BY Zenon, TypeStep, QueueStep, HistoryStep DEF IInv
<1>4. IInv /\ OnceInv /\ [Next]_vars => OnceInv'
  BY OnceStep
<1>5. IInv /\ OnceInv /\ RunInv /\ [Next]_vars => RunInv'
  BY RunStep
<1>6. IInv /\ OnceInv /\ RunInv /\ [Next]_vars => [Serial!Next]_(Serial!vars)
  BY StepSerial
<1> QED
  BY <1>1, <1>2, <1>3, <1>4, <1>5, <1>6, InitInv, OnceInit, PTL
     DEF Spec, ImplementsSerialStore, Serial!Spec

-----------------------------------------------------------------------------
(***************************************************************************)
(* Requests that use different keys.                                       *)
(***************************************************************************)

\* Under the keys of request r the map roots of f are as they were in the beginning.
Untouched(at, keys, r, f) ==
    \A c \in MapCells : c \in DOMAIN f =>
        \A k \in keys[program[r]][c] : at[f[c]][k] = at[DefaultOf[c]][k]

\* What a store holds, a missing row read as its default.
Contents(s) == [c \in Cells |-> ReadIn(s, c)]

\* Nobody touches the keys of a request before it commits, so that is what it reads.
KeysInv(at, keys) ==
    /\ program \in Assignments
    /\ \A r \in Request : Untouched(at, keys, r, obs[r])
    /\ \A i \in 1 .. Len(hist) : Untouched(at, keys, hist[i].req, hist[i].reads)
    /\ \A j \in 1 .. Len(hist) + 1 : \A r \in Request :
          (\A i \in 1 .. j - 1 : hist[i].req # r) => Untouched(at, keys, r, Contents(states[j]))

\* The commit of a request leaves the keys of every other.
LEMMA OthersUntouched ==
    ASSUME NEW Key, NEW at, NEW keys, DisjointKeys(Key, at, keys),
           program \in Assignments, NEW e, e.req \in Request,
           NEW s \in [Cells -> Row], NEW t, IsRun(program, e, s, t),
           NEW r \in Request, r # e.req, Untouched(at, keys, r, Contents(s))
    PROVE  Untouched(at, keys, r, Contents(t))
<1> DEFINE p == program[e.req]
<1>1. p \in Program /\ e.reads \in [ReadsOf(p) -> Value] /\ MergedRun(s, p, e.reads, t)
  BY Zenon DEF IsRun
<1>2. MergesByKey(Key, at) /\ KeyByKey(p, Key, at, keys[p])
  BY Zenon, <1>1 DEF DisjointKeys
<1>3. program[r] \in Program
  BY AssignmentTypes
<1> SUFFICES ASSUME NEW c \in MapCells, c \in Cells, NEW k \in keys[program[r]][c]
             PROVE  at[Contents(t)[c]][k] = at[DefaultOf[c]][k]
  BY Zenon DEF Untouched, Contents
<1>4. k \in Key /\ k \notin keys[p][c]
  BY Zenon, <1>3 DEF DisjointKeys
<1> HIDE DEF p
<1>5. at[ReadIn(t, c)][k] = at[ReadIn(s, c)][k]
  <2> DEFINE o == e.reads
  <2>1. o \in [ReadsOf(p) -> Value] /\ MergedRun(s, p, o, t)
    BY Zenon, <1>1
  <2> HIDE DEF o
  <2> QED
    BY <1>1, <1>2, <1>4, <2>1, KeyedLeavesOthers
<1>6. at[ReadIn(s, c)][k] = at[DefaultOf[c]][k]
  BY Zenon DEF Untouched, Contents
<1> QED
  BY Zenon, <1>5, <1>6 DEF Contents

\* A handler that executes reads its keys as they were in the beginning.
LEMMA ReadsUntouched ==
    ASSUME NEW at, NEW keys, IInv, OnceInv, KeysInv(at, keys),
           NEW r \in Request, ReadCell(r) \/ ReadError(r)
    PROVE  \A q \in Request : Untouched(at, keys, q, obs[q])'
<1>1. PICK c \in ReadsOf(program[r]) \ DOMAIN obs[r] :
          Record(r, c, ReadIn(disk, c)) \/ Record(r, c, DefaultOf[c])
  BY Zenon DEF ReadCell, ReadError
<1>2. PICK v : v \in {ReadIn(disk, c), DefaultOf[c]} /\ Record(r, c, v)
  BY Zenon, <1>1
<1>3. program' = program /\ pc[r] = "executing"
  BY Zenon DEF ReadCell, ReadError
<1>4. obs \in [Request -> Observation] /\ program \in [Request -> Program]
  BY Zenon DEF IInv, TypeOK
<1>5. c \in Cells
  BY Zenon, <1>4, ProgramTypes
<1> DEFINE f == [d \in DOMAIN obs[r] \cup {c} |-> IF d = c THEN v ELSE obs[r][d]]
<1>6. /\ obs'[r] = f
      /\ \A q \in Request : q # r => obs'[q] = obs[q]
  BY Zenon, <1>2, <1>4 DEF Record
<1>7. r \notin Applied
  BY Zenon, <1>3 DEF OnceInv, ReplyOnce, Unapplied
<1>8. Untouched(at, keys, r, Contents(disk))
  <2>1. /\ committed \in Nat /\ committed <= Len(hist) /\ disk = states[committed + 1]
        /\ Len(hist) \in Nat
    BY DEF IInv, TypeOK, SerialHistory
  <2>2. committed + 1 \in 1 .. Len(hist) + 1 /\ (committed + 1) - 1 = committed
    BY <2>1
  <2>3. \A i \in 1 .. committed : hist[i].req # r
    BY Zenon, <1>7 DEF Applied
  <2> QED
    BY Zenon, <2>1, <2>2, <2>3 DEF KeysInv
<1>9. c \in MapCells => \A k \in keys[program[r]][c] : at[v][k] = at[DefaultOf[c]][k]
  <2>1. c \in MapCells => \A k \in keys[program[r]][c] : at[ReadIn(disk, c)][k] = at[DefaultOf[c]][k]
    BY Zenon, <1>5, <1>8 DEF Untouched, Contents
  <2> QED
    BY Zenon, <1>2, <2>1
<1>10. Untouched(at, keys, r, obs[r])
  BY Zenon DEF KeysInv
<1>11. Untouched(at, keys, r, f)
  BY Zenon, <1>9, <1>10 DEF Untouched
<1> HIDE DEF f
<1>12. Untouched(at, keys, r, obs[r])'
  BY Zenon, <1>3, <1>6, <1>11 DEF Untouched
<1>13. ASSUME NEW q \in Request, q # r PROVE Untouched(at, keys, q, obs[q])'
  <2>1. Untouched(at, keys, q, obs[q]) /\ obs'[q] = obs[q]
    BY Zenon, <1>6, <1>13 DEF KeysInv
  <2> QED
    BY Zenon, <1>3, <2>1 DEF Untouched
<1> QED
  BY Zenon, <1>12, <1>13

\* A prefix of the history is as good.
LEMMA KeysPrefix ==
    ASSUME NEW at, NEW keys, KeysInv(at, keys), NEW n \in Nat, n <= Len(hist), Len(hist) \in Nat,
           program' = program, Len(hist') = n,
           \A r \in Request : obs'[r] = obs[r] \/ obs'[r] = <<>>,
           \A i \in 1 .. n : hist'[i] = hist[i], \A i \in 1 .. n + 1 : states'[i] = states[i]
    PROVE  KeysInv(at, keys)'
<1>1. \A r \in Request : Untouched(at, keys, r, obs[r])'
  <2> TAKE r \in Request
  <2>1. CASE obs'[r] = obs[r]
    <3>1. Untouched(at, keys, r, obs[r])
      BY Zenon DEF KeysInv
    <3> QED
      BY <2>1, <3>1 DEF Untouched
  <2>2. CASE obs'[r] = <<>>
    <3>1. DOMAIN obs'[r] = {}
      BY <2>2
    <3> QED
      BY Zenon, <3>1 DEF Untouched
  <2> QED
    BY Zenon, <2>1, <2>2
<1>2. \A i \in 1 .. n : i \in 1 .. Len(hist)
  OBVIOUS
<1>3. ASSUME NEW i \in 1 .. n PROVE Untouched(at, keys, hist[i].req, hist[i].reads)'
  <2>1. Untouched(at, keys, hist[i].req, hist[i].reads) /\ hist'[i] = hist[i]
    BY Zenon, <1>2 DEF KeysInv
  <2> QED
    BY <2>1 DEF Untouched
<1>4. ASSUME NEW j \in 1 .. n + 1, NEW r \in Request, \A i \in 1 .. j - 1 : hist'[i].req # r
      PROVE  Untouched(at, keys, r, Contents(states[j]))'
  <2>1. j \in 1 .. Len(hist) + 1 /\ \A i \in 1 .. j - 1 : i \in 1 .. n
    OBVIOUS
  <2>2. \A i \in 1 .. j - 1 : hist[i].req # r
    BY Zenon, <1>4, <2>1
  <2>3. Untouched(at, keys, r, Contents(states[j])) /\ states'[j] = states[j]
    BY Zenon, <2>1, <2>2 DEF KeysInv
  <2> QED
    BY <2>3 DEF Untouched, Contents
<1>5. program' \in Assignments
  BY Zenon DEF KeysInv
<1> QED
  BY Zenon, <1>1, <1>3, <1>4, <1>5 DEF KeysInv

\* Every step keeps the keys of the requests that have not committed.
LEMMA KeysStep ==
    ASSUME NEW Key, NEW at, NEW keys, DisjointKeys(Key, at, keys),
           IInv, OnceInv, RunInv, KeysInv(at, keys), [Next]_vars
    PROVE  KeysInv(at, keys)'
<1> USE DEF store, handler, batch, bounds, history, vars
<1>0. TypeOK /\ QueueInv /\ LockInv /\ SerialHistory
  BY Zenon DEF IInv
<1>1. /\ hist \in Seq(Entry) /\ states \in Seq([Cells -> Row]) /\ Len(states) = Len(hist) + 1
      /\ committed \in Nat /\ committed <= Len(hist) /\ survives \in Nat /\ survives <= Len(hist)
      /\ Len(hist) \in Nat
  BY <1>0 DEF TypeOK, SerialHistory, LockInv
<1>2. CASE /\ UNCHANGED <<program, hist, states>>
           /\ \A r \in Request : obs'[r] = obs[r] \/ obs'[r] = <<>>
  <2>1. Len(hist') = Len(hist) /\ Len(hist) <= Len(hist)
    BY <1>1, <1>2
  <2> QED
    BY Zenon, <1>1, <1>2, <2>1, KeysPrefix
<1>3. CASE \E r \in Request : ReadCell(r) \/ ReadError(r)
  <2>1. PICK r \in Request : ReadCell(r) \/ ReadError(r)
    BY Zenon, <1>3
  <2>2. UNCHANGED <<program, hist, states>>
    BY Zenon, <2>1 DEF ReadCell, ReadError
  <2>3. \A q \in Request : Untouched(at, keys, q, obs[q])'
    BY Zenon, <2>1, ReadsUntouched
  <2>4. /\ program' \in Assignments
        /\ \A i \in 1 .. Len(hist) : Untouched(at, keys, hist[i].req, hist[i].reads)'
    BY Zenon, <2>2 DEF KeysInv, Untouched
  <2>5. \A j \in 1 .. Len(hist) + 1 : \A q \in Request : 
          (\A i \in 1 .. j - 1 : hist[i].req # q) => Untouched(at, keys, q, Contents(states[j]))'
    BY ZenonT(40), <2>2 DEF KeysInv, Untouched, Contents
  <2> QED
    BY Zenon, <2>2, <2>3, <2>4, <2>5 DEF KeysInv
<1>4. CASE \E w \in Worker : validate_and_apply_job(w)
  <2>1. PICK w \in Worker : validate_and_apply_job(w)
    BY Zenon, <1>4
  <2>2. CASE ~JobApplies(w, NextJob(w))
    BY Zenon, <1>2, <2>1, <2>2 DEF validate_and_apply_job
  <2>3. CASE JobApplies(w, NextJob(w))
    <3> DEFINE s == states[Len(states)]
               q == NextJob(w)
    <3>1. PICK e, t : /\ IsRun(program, e, s, t)
                      /\ hist' = Append(hist, e) /\ states' = Append(states, t)
      BY Zenon, <2>1, <2>3, AcceptedRun
    <3>2. UNCHANGED <<program, obs>> /\ q \in Request
      <4>1. q \in Request
        BY Zenon, <1>0, <2>1, NextJobComplete
      <4> QED
        BY Zenon, <2>1, <4>1 DEF validate_and_apply_job
    <3>3. hist' = Append(hist, [req |-> q, reads |-> obs[q], writes |-> LocalWrites(w, q),
                                merged |-> Mismatched(w, q)])
      BY Zenon, <2>1, <2>3 DEF validate_and_apply_job
    <3> DEFINE n == Len(hist) + 1
    <3>4. /\ n \in Nat /\ n = Len(states) /\ s \in [Cells -> Row] /\ s = states[n]
          /\ \A i \in 1 .. n : states'[i] = states[i]
          /\ states'[n + 1] = t
      BY <1>1, <3>1
    <3>5. /\ Len(hist') = n /\ hist'[n] = e
          /\ \A i \in 1 .. n - 1 : hist'[i] = hist[i]
      BY SMTT(30), <1>1, <3>1
    <3>6. e.req = q /\ e.reads = obs[q]
      <4>1. hist'[n] = [req |-> q, reads |-> obs[q], writes |-> LocalWrites(w, q),
                        merged |-> Mismatched(w, q)]
        BY <1>1, <3>3
      <4> QED
        BY SMTT(30), <3>5, <4>1
    <3> HIDE DEF q, s
    <3>7. /\ \A i \in 1 .. n : i = n \/ (i \in 1 .. Len(hist) /\ i \in 1 .. n - 1)
          /\ \A j \in 1 .. n + 1 : j = n + 1 \/ j \in 1 .. n
          /\ \A j \in 1 .. n : \A i \in 1 .. j - 1 : i \in 1 .. n - 1
          /\ n \in 1 .. (n + 1) - 1 /\ n \in 1 .. n
          /\ \A i \in 1 .. n - 1 : i \in 1 .. (n + 1) - 1
      BY <1>1
    <3> HIDE DEF n
    <3>8. \A r \in Request : Untouched(at, keys, r, obs[r])'
      BY Zenon, <3>2 DEF KeysInv, Untouched
    <3>9. ASSUME NEW i \in 1 .. n
          PROVE  Untouched(at, keys, hist[i].req, hist[i].reads)'
      <4>1. CASE i = n
        <5>1. hist'[i].req = q /\ hist'[i].reads = obs[q] /\ Untouched(at, keys, q, obs[q])
          BY Zenon, <3>2, <3>5, <3>6, <4>1 DEF KeysInv
        <5> QED
          BY Zenon, <3>2, <5>1 DEF Untouched
      <4>2. CASE i \in 1 .. Len(hist) /\ i \in 1 .. n - 1
        <5>1. hist'[i] = hist[i] /\ Untouched(at, keys, hist[i].req, hist[i].reads)
          BY Zenon, <3>5, <4>2 DEF KeysInv
        <5> QED
          BY ZenonT(40), <3>2, <5>1 DEF Untouched
      <4> QED
        BY Zenon, <3>7, <4>1, <4>2
    <3>10. ASSUME NEW j \in 1 .. n + 1, NEW r \in Request, \A i \in 1 .. j - 1 : hist'[i].req # r
           PROVE  Untouched(at, keys, r, Contents(states[j]))'
      <4>1. CASE j \in 1 .. n
        <5>1. \A i \in 1 .. j - 1 : hist[i].req # r
          BY Zenon, <3>5, <3>7, <3>10, <4>1
        <5>2. Untouched(at, keys, r, Contents(states[j]))
          BY Zenon, <4>1, <5>1 DEF KeysInv, n
        <5>3. states'[j] = states[j]
          BY Zenon, <3>4, <4>1
        <5> QED
          BY Zenon, <3>2, <5>2, <5>3 DEF Untouched, Contents
      <4>2. CASE j = n + 1
        <5>1. r # e.req
          BY Zenon, <3>5, <3>7, <3>10, <4>2
        <5>2. \A i \in 1 .. n - 1 : hist[i].req # r
          BY Zenon, <3>5, <3>7, <3>10, <4>2
        <5>3. Untouched(at, keys, r, Contents(s))
          BY Zenon, <3>4, <3>7, <5>2 DEF KeysInv, n
        <5>4. program \in Assignments /\ e.req \in Request
          BY Zenon, <3>2, <3>6 DEF KeysInv
        <5>5. Untouched(at, keys, r, Contents(t))
          BY SMTT(30), <3>1, <3>4, <5>1, <5>3, <5>4, OthersUntouched
        <5>6. states'[j] = t
          BY Zenon, <3>4, <4>2
        <5> QED
          BY Zenon, <3>2, <5>5, <5>6 DEF Untouched, Contents
      <4> QED
        BY Zenon, <3>7, <4>1, <4>2
    <3>11. program' \in Assignments
      BY Zenon, <3>2 DEF KeysInv
    <3> QED
      BY Zenon, <3>5, <3>8, <3>9, <3>10, <3>11 DEF KeysInv
  <2> QED
    BY Zenon, <2>2, <2>3
<1>5. ASSUME NEW n \in Nat, n <= Len(hist), UNCHANGED <<program, obs>>,
             hist' = SubSeq(hist, 1, n), states' = SubSeq(states, 1, n + 1)
      PROVE  KeysInv(at, keys)'
  <2>1. Len(hist') = n /\ \A i \in 1 .. n : hist'[i] = hist[i]
    BY Zenon, <1>1, <1>5, Truncated
  <2>2. n + 1 \in Nat /\ n + 1 <= Len(states)
    BY <1>1, <1>5
  <2>3. \A i \in 1 .. n + 1 : states'[i] = states[i]
    BY Zenon, <1>1, <1>5, <2>2, Truncated
  <2> QED
    BY Zenon, <1>1, <1>5, <2>1, <2>3, KeysPrefix
<1>6. CASE \E w \in Worker : CommitError(w)
  BY Zenon, <1>1, <1>5, <1>6 DEF CommitError
<1>7. CASE Crash
  BY Zenon, <1>1, <1>5, <1>7 DEF Crash
<1>8. ASSUME NEW r \in Request, Retry(r)
      PROVE  \A q \in Request : obs'[q] = obs[q] \/ obs'[q] = <<>>
  BY Zenon, <1>0, <1>8 DEF Retry, TypeOK
<1>9. CASE (\E r \in Txs : ReceiveReply(r)) \/ (\E d \in Deploys : DeployReturns(d))
  <2>1. Txs \subseteq Request /\ Deploys \subseteq Request
    BY Zenon DEF Request
  <2>2. UNCHANGED <<program, hist, states>>
    BY Zenon, <1>9 DEF ReceiveReply, DeployReturns
  <2>3. obs' = obs \/ \E r \in Request : Retry(r)
    BY Zenon, <1>9, <2>1 DEF ReceiveReply, DeployReturns, Succeed
  <2> QED
    BY Zenon, <1>2, <1>8, <2>2, <2>3
<1>10. CASE \/ \E a \in Artifact : Compile(a)
            \/ \E r \in Request : Accept(r)
            \/ \E r \in Txs : ExecuteTx(r) \/ Send(r) \/ Disconnect(r)
            \/ \E d \in Deploys : ExecuteDeploy(d)
            \/ \E q \in Queries : AnswerQuery(q)
            \/ Recv \/ Drain \/ Reply \/ Flush \/ Idle \/ UNCHANGED vars
            \/ \E w \in Worker : Acquire(w) \/ WriteBatch(w)
  BY Zenon, <1>2, <1>10 DEF Compile, Accept, ExecuteTx, Send, Disconnect,
       ExecuteDeploy, AnswerQuery, Recv, Drain, Reply, Flush, Idle, Acquire, WriteBatch
<1> QED
  BY Zenon, <1>3, <1>4, <1>6, <1>7, <1>9, <1>10 DEF Next

\* In the beginning nothing has been touched.
LEMMA KeysInit ==
    ASSUME NEW at, NEW keys, Init
    PROVE  KeysInv(at, keys)
<1>1. /\ program \in Assignments /\ \A r \in Request : DOMAIN obs[r] = {}
      /\ Len(hist) = 0 /\ states[1] = Fresh
      /\ \A j \in 1 .. 0 + 1 : j = 1
  BY DEF Init
<1>2. \A r \in Request : Untouched(at, keys, r, obs[r])
  BY Zenon, <1>1 DEF Untouched
<1>3. \A i \in 1 .. 0 : FALSE
  OBVIOUS
<1>4. \A r : Untouched(at, keys, r, Contents(Fresh))
  BY Zenon DEF Untouched, Contents, ReadIn, Fresh
<1> QED
  BY Zenon, <1>1, <1>2, <1>3, <1>4 DEF KeysInv

\* The log of a prefix of the history is then one of the keyed store and, where every
\* mapping has one root, of the serial store.
LEMMA LogIsKeyed ==
    ASSUME NEW Key, NEW at, NEW keys, DisjointKeys(Key, at, keys),
           IInv, OnceInv, RunInv, KeysInv(at, keys), NEW n \in Nat, n <= Len(hist)
    PROVE  /\ \A i \in 1 .. n : Serial!KeyedAt(Key, at, LogOf(n), i)
           /\ OneRoot(Key, at) => \A i \in 1 .. n : Serial!SerialAt(LogOf(n), i)
<1> DEFINE L == LogOf(n)
<1> SUFFICES ASSUME NEW i \in 1 .. n
             PROVE  /\ Serial!KeyedAt(Key, at, L, i)
                    /\ OneRoot(Key, at) => Serial!SerialAt(L, i)
  BY Zenon
<1> DEFINE p == L[i].prog
           o == L[i].seen
           s == states[i]
           t == states[i + 1]
           r == hist[i].req
<1>1. /\ i \in 1 .. Len(hist) /\ p \in Program /\ p = program[r] /\ o = hist[i].reads
      /\ L[i].after = t /\ Serial!Before(L, i) = s
      /\ o \in [ReadsOf(p) -> Value] /\ MergedRun(s, p, o, t)
      /\ \A j \in 1 .. i - 1 : L[j].req # L[i].req
  <2>1. EntryAt(L, i)
    BY Zenon, LogEntry
  <2> HIDE DEF L
  <2> QED
    BY Zenon, <2>1 DEF EntryAt
<1>2. /\ s \in [Cells -> Row] /\ t \in [Cells -> Row] /\ r \in Request
      /\ i \in 1 .. Len(hist) + 1
      /\ \A j \in 1 .. i - 1 : j \in 1 .. Len(hist) /\ j # i
  <2>1. /\ states \in Seq([Cells -> Row]) /\ Len(states) = Len(hist) + 1 /\ Len(hist) \in Nat
        /\ hist \in Seq(Entry) /\ i \in 1 .. Len(hist)
    <3>1. /\ states \in Seq([Cells -> Row]) /\ Len(states) = Len(hist) + 1
          /\ hist \in Seq(Entry) /\ i \in 1 .. Len(hist)
      BY Zenon, <1>1 DEF IInv, TypeOK, SerialHistory
    <3>2. Len(hist) \in Nat
      BY ONLY <3>1
    <3> QED
      BY Zenon, <3>1, <3>2
  <2>2. /\ s \in [Cells -> Row] /\ t \in [Cells -> Row] /\ hist[i] \in Entry
    BY <2>1
  <2>3. /\ i \in 1 .. Len(hist) + 1
        /\ \A j \in 1 .. i - 1 : j \in 1 .. Len(hist) /\ j # i
    BY <2>1
  <2> QED
    BY <2>2, <2>3 DEF Entry
<1>3. \A j \in 1 .. i - 1 : hist[j].req # r
  BY Zenon, <1>1, <1>2 DEF OnceInv, HistOnce
<1>4. /\ Untouched(at, keys, r, hist[i].reads) /\ Untouched(at, keys, r, Contents(s))
  BY Zenon, <1>1, <1>2, <1>3 DEF KeysInv
<1>5. ReadsOf(p) \subseteq Cells
  BY Zenon, <1>1, ProgramTypes
<1>6. MergesByKey(Key, at) /\ KeyByKey(p, Key, at, keys[p])
  BY Zenon, <1>1 DEF DisjointKeys
<1> HIDE DEF p, o, s, t, r, L
<1>7. ASSUME NEW c \in MapCells, c \in ReadsOf(p), NEW k \in keys[p][c]
      PROVE  at[o[c]][k] = at[ReadIn(s, c)][k]
  <2>1. c \in DOMAIN hist[i].reads /\ c \in Cells /\ k \in keys[program[r]][c]
    BY Zenon, <1>1, <1>5, <1>7
  <2>2. at[hist[i].reads[c]][k] = at[DefaultOf[c]][k]
    BY Zenon, <1>4, <1>7, <2>1 DEF Untouched
  <2>3. at[ReadIn(s, c)][k] = at[DefaultOf[c]][k]
    BY Zenon, <1>4, <1>7, <2>1 DEF Untouched, Contents
  <2> QED
    BY Zenon, <1>1, <2>2, <2>3
<1>8. ~Fails(p, View(s, p)) /\ SameEntries(Key, at, t, RunAlone(s, p))
  <2>1. /\ p \in Program /\ o \in [ReadsOf(p) -> Value] /\ MergedRun(s, p, o, t)
        /\ s \in [Cells -> Row]
    BY Zenon, <1>1, <1>2
  <2>2. \A c \in MapCells : c \in ReadsOf(p) => \A k \in keys[p][c] :
            at[o[c]][k] = at[ReadIn(s, c)][k]
    BY Zenon, <1>7
  <2>3. RunsByKey(Key, at, keys[p], p, s, o, t)
    BY Zenon, <1>6, <2>1, <2>2, KeyedRunsAlone
  <2> QED
    BY Zenon, <2>3 DEF RunsByKey
<1>9. OneRoot(Key, at) => t = RunAlone(s, p)
  BY Zenon, <1>1, <1>2, <1>8, RunAloneType, SameEntriesSame
<1>10. Serial!KeyedAt(Key, at, L, i)
  BY Zenon, <1>1, <1>8, SameStore DEF Serial!KeyedAt, p
<1>11. OneRoot(Key, at) => Serial!SerialAt(L, i)
  BY Zenon, <1>1, <1>8, <1>9, SameStore DEF Serial!SerialAt, p
<1> QED
  BY Zenon, <1>10, <1>11

\* Hence every step is one of the keyed store.
LEMMA StepKeyed ==
    ASSUME NEW Key, NEW at, NEW keys, DisjointKeys(Key, at, keys),
           IInv, OnceInv, RunInv, KeysInv(at, keys), [Next]_vars
    PROVE  /\ [Serial!KeyedCommit(Key, at) \/ Serial!LoseSuffix]_(Serial!vars)
           /\ OneRoot(Key, at) => [Serial!Next]_(Serial!vars)
<1>1. CASE LogGrows
  <2>1. Len(hist) \in Nat /\ Len(hist) <= Len(hist)
    BY DEF IInv, TypeOK
  <2>2. \A i \in Len(CommittedLog) + 1 .. Len(CommittedLog') : i \in 1 .. Len(hist)
    BY <1>1, <2>1 DEF LogGrows
  <2>3. /\ \A i \in 1 .. Len(hist) : Serial!KeyedAt(Key, at, CommittedLog', i)
        /\ OneRoot(Key, at) => \A i \in 1 .. Len(hist) : Serial!SerialAt(CommittedLog', i)
    BY Zenon, <1>1, <2>1, LogIsKeyed DEF LogGrows
  <2>4. Serial!KeyedCommit(Key, at)
    BY Zenon, <1>1, <2>2, <2>3 DEF LogGrows, Serial!KeyedCommit
  <2>5. OneRoot(Key, at) => Serial!Commit
    BY Zenon, <1>1, <2>2, <2>3 DEF LogGrows, Serial!Commit
  <2> QED
    BY Zenon, <2>4, <2>5 DEF Serial!Next
<1>2. CASE UNCHANGED Serial!vars \/ Serial!LoseSuffix
  BY Zenon, <1>2 DEF Serial!Next
<1> QED
  BY Zenon, <1>1, <1>2, StepLog

\* Where no two requests use the same key of a map, and the merge respects keys, a
\* merge in commit_batch is as good as a retry: over crashes, retries and batches every
\* commit leaves the entries its program alone leaves on what its predecessors left.
THEOREM PipelineIsSerialByKey ==
    ASSUME NEW Key, NEW at, NEW keys, DisjointKeys(Key, at, keys)
    PROVE  Spec => ImplementsKeyedStore(Key, at)
<1> DEFINE Inv == IInv /\ OnceInv /\ RunInv /\ KeysInv(at, keys)
<1>1. Init => Serial!Init
  BY DEF Init, Serial!Init, CommittedLog
<1>2. Init => Inv
  <2>1. Init => RunInv
    BY DEF Init, RunInv
  <2> QED
    BY Zenon, <2>1, InitInv, OnceInit, KeysInit
<1>3. Inv /\ [Next]_vars => Inv'
  <2>1. IInv /\ [Next]_vars => IInv'
    BY Zenon, TypeStep, QueueStep, HistoryStep DEF IInv
  <2> QED
    BY Zenon, <2>1, OnceStep, RunStep, KeysStep
<1>4. Inv /\ [Next]_vars => [Serial!KeyedCommit(Key, at) \/ Serial!LoseSuffix]_(Serial!vars)
  BY Zenon, StepKeyed
<1> HIDE DEF Inv
<1> QED
  BY <1>1, <1>2, <1>3, <1>4, PTL DEF Spec, ImplementsKeyedStore, Serial!KeyedSpec

\* If moreover every mapping has one root the pipeline implements the serial store,
\* merges included.
THEOREM KeyedPipelineIsSerial ==
    ASSUME NEW Key, NEW at, NEW keys, DisjointKeys(Key, at, keys), OneRoot(Key, at)
    PROVE  Spec => ImplementsSerialStore
<1> DEFINE Inv == IInv /\ OnceInv /\ RunInv /\ KeysInv(at, keys)
<1>1. Init => Serial!Init
  BY DEF Init, Serial!Init, CommittedLog
<1>2. Init => Inv
  <2>1. Init => RunInv
    BY DEF Init, RunInv
  <2> QED
    BY Zenon, <2>1, InitInv, OnceInit, KeysInit
<1>3. Inv /\ [Next]_vars => Inv'
  <2>1. IInv /\ [Next]_vars => IInv'
    BY Zenon, TypeStep, QueueStep, HistoryStep DEF IInv
  <2> QED
    BY Zenon, <2>1, OnceStep, RunStep, KeysStep
<1>4. Inv /\ [Next]_vars => [Serial!Next]_(Serial!vars)
  BY Zenon, StepKeyed
<1> HIDE DEF Inv
<1> QED
  BY <1>1, <1>2, <1>3, <1>4, PTL DEF Spec, ImplementsSerialStore, Serial!Spec

-----------------------------------------------------------------------------
\* The requests whose artifacts are stored, and those whose artifacts are safe.
Backed == {r \in Request : NeedsArtifact(program[r]) \subseteq artifacts}
Safe == {r \in Request : NeedsArtifact(program[r]) \subseteq safeArts}

\* The artifacts of every request in flight are still there, and those of every
\* durable one are safe.
CodeInv ==
    /\ safeArts \subseteq artifacts
    /\ \A r \in Request : pc[r] \in Pending \ {"idle"} => r \in Backed
    /\ \A i \in DOMAIN channel : channel[i] \in Backed
    /\ \A w \in Worker : wpc[w] # "idle" => \A i \in DOMAIN jobs[w] : jobs[w][i] \in Backed
    /\ Durable => Applied \subseteq Safe

\* The steps that take no artifact away, move no job and write no batch.
LEMMA CodeFrame ==
    ASSUME CodeInv, Backed \subseteq Backed', Safe \subseteq Safe', safeArts' \subseteq artifacts',
           Applied' = Applied, channel' = channel,
           \A w \in Worker : wpc'[w] # "idle" => wpc[w] # "idle" /\ jobs'[w] = jobs[w],
           \A r \in Request : pc'[r] \in Pending \ {"idle"} =>
               pc[r] \in Pending \ {"idle"} \/ r \in Backed
    PROVE  CodeInv'
<1>1. \A w \in Worker : wpc'[w] # "idle" => \A i \in DOMAIN jobs'[w] : jobs'[w][i] \in Backed'
  BY Zenon DEF CodeInv
<1>2. \A i \in DOMAIN channel' : channel'[i] \in Backed'
  BY Zenon DEF CodeInv
<1>3. \A r \in Request : pc'[r] \in Pending \ {"idle"} => r \in Backed'
  BY Zenon DEF CodeInv
<1>4. Durable => Applied' \subseteq Safe'
  BY Zenon DEF CodeInv
<1> QED
  BY Zenon, <1>1, <1>2, <1>3, <1>4 DEF CodeInv

\* Every step keeps the artifacts of what it lets through.
LEMMA CodeStep == IInv /\ OnceInv /\ CodeInv /\ [Next]_vars => CodeInv'
<1> SUFFICES ASSUME IInv, OnceInv, CodeInv, [Next]_vars PROVE CodeInv'
  OBVIOUS
<1> USE DEF store, handler, batch, bounds, history, vars
<1>0. TypeOK /\ QueueInv /\ UniqueJobs /\ LockInv /\ SerialHistory /\ HistOnce /\ JobOnce
  BY Zenon DEF IInv, OnceInv
<1>00. Committer \in Worker /\ Deploys \subseteq Worker /\ Deploys \subseteq Request
       /\ Txs \subseteq Request /\ Queries \subseteq Request
  BY Zenon DEF Worker, Request
<1>a. UNCHANGED <<program, artifacts, safeArts>> =>
         Backed' = Backed /\ Safe' = Safe /\ safeArts' \subseteq artifacts'
  BY Zenon DEF Backed, Safe, CodeInv
<1>1. CASE (\E a \in Artifact : Compile(a)) \/ Flush
  <2>1. /\ UNCHANGED <<program, hist, committed, wpc, jobs, channel, pc>>
        /\ artifacts \subseteq artifacts' /\ safeArts \subseteq safeArts' /\ safeArts' \subseteq artifacts'
    BY Zenon, <1>1 DEF Compile, Flush, CodeInv
  <2>2. Backed \subseteq Backed' /\ Safe \subseteq Safe'
    BY Zenon, <2>1 DEF Backed, Safe
  <2>3. Applied' = Applied
    BY Zenon, <2>1, SameApplied
  <2> QED
    BY Zenon, <2>1, <2>2, <2>3, CodeFrame
<1>2. CASE Idle \/ UNCHANGED vars
  <2>1. UNCHANGED <<program, artifacts, safeArts, hist, committed, wpc, jobs, channel, pc>>
    BY Zenon, <1>2 DEF Idle
  <2>2. Applied' = Applied
    BY Zenon, <2>1, SameApplied
  <2> QED
    BY Zenon, <1>a, <2>1, <2>2, CodeFrame
<1>3. ASSUME NEW r \in Request, Accept(r)
      PROVE  CodeInv'
  <2>1. UNCHANGED <<program, artifacts, safeArts, hist, committed, wpc, jobs, channel>>
    BY Zenon, <1>3 DEF Accept
  <2>2. \/ r \in Backed /\ pc' = [pc EXCEPT ![r] = "executing"]
        \/ pc' = [pc EXCEPT ![r] = "notfound"]
    BY Zenon, <1>3 DEF Accept, Backed
  <2>3. \A q \in Request : pc'[q] \in Pending \ {"idle"} => pc[q] \in Pending \ {"idle"} \/ q \in Backed
    BY <1>0, <2>2 DEF TypeOK, Pending
  <2>4. Applied' = Applied
    BY ZenonT(40), <2>1, SameApplied
  <2> QED
    BY Zenon, <1>a, <2>1, <2>3, <2>4, CodeFrame
<1>4. ASSUME NEW r \in Request,
             ReadCell(r) \/ ReadError(r) \/ ExecuteTx(r) \/ Disconnect(r) \/ ReceiveReply(r) \/ AnswerQuery(r)
      PROVE  CodeInv'
  <2>1. UNCHANGED <<program, artifacts, safeArts, hist, committed, wpc, jobs, channel>>
    BY Zenon, <1>4 DEF ReadCell, ReadError, ExecuteTx, Disconnect, ReceiveReply, AnswerQuery
  <2>2. /\ pc[r] \in Pending \ {"idle"}
        /\ pc' = pc \/ \E s : pc' = [pc EXCEPT ![r] = s]
    BY Zenon, <1>4 DEF ReadCell, ReadError, ExecuteTx, Disconnect, ReceiveReply, AnswerQuery, Executed,
                       Succeed, Retry, Pending
  <2>3. \A q \in Request : pc'[q] \in Pending \ {"idle"} => pc[q] \in Pending \ {"idle"} \/ q \in Backed
    BY ZenonT(40), <1>0, <2>2 DEF TypeOK
  <2>4. Applied' = Applied
    BY Zenon, <2>1, SameApplied
  <2> QED
    BY Zenon, <1>a, <2>1, <2>3, <2>4, CodeFrame
<1>5. CASE \E r \in Txs : Send(r)
  <2>1. PICK r \in Txs : Send(r)
    BY Zenon, <1>5
  <2>2. /\ UNCHANGED <<program, artifacts, safeArts, hist, committed, wpc, jobs>>
        /\ pc[r] = "sending" /\ pc' = [pc EXCEPT ![r] = "waiting"]
        /\ channel' = Append(channel, r)
    BY Zenon, <2>1 DEF Send
  <2>3. Applied' = Applied
    BY Zenon, <2>2, SameApplied
  <2>4. r \in Backed
    BY Zenon, <1>00, <2>2 DEF CodeInv, Pending
  <2>5. \A i \in DOMAIN channel' : channel'[i] \in Backed
    <3>1. channel \in Seq(Txs)
      BY Zenon, <1>0 DEF TypeOK
    <3>2. \A i \in DOMAIN channel' : channel'[i] = r \/ (i \in DOMAIN channel /\ channel'[i] = channel[i])
      BY Zenon, <2>2, <3>1, AppendJob
    <3> QED
      BY Zenon, <2>4, <3>2 DEF CodeInv
  <2>6. \A q \in Request : pc'[q] \in Pending \ {"idle"} => q \in Backed
    BY Zenon, <1>0, <2>2, <2>4 DEF TypeOK, CodeInv
  <2> QED
    BY Zenon, <1>a, <2>2, <2>3, <2>5, <2>6 DEF CodeInv
<1>6. CASE \E d \in Deploys : ExecuteDeploy(d)
  <2>1. PICK d \in Deploys : ExecuteDeploy(d)
    BY Zenon, <1>6
  <2>2. /\ UNCHANGED <<program, artifacts, safeArts, hist, committed, channel>>
        /\ pc[d] = "executing"
        /\ \E s : pc' = [pc EXCEPT ![d] = s]
        /\ \/ UNCHANGED <<wpc, jobs>>
           \/ wpc' = [wpc EXCEPT ![d] = "locking"] /\ jobs' = [jobs EXCEPT ![d] = <<d>>]
    BY Zenon, <2>1 DEF ExecuteDeploy, Executed
  <2>3. Applied' = Applied
    BY Zenon, <2>2, SameApplied
  <2>4. d \in Backed
    BY Zenon, <1>00, <2>2 DEF CodeInv, Pending
  <2>5. \A i \in DOMAIN <<d>> : <<d>>[i] \in Backed
    BY <2>4
  <2>6. \A w \in Worker : \/ wpc'[w] = wpc[w] /\ jobs'[w] = jobs[w]
                          \/ jobs'[w] = <<d>>
    BY Zenon, <1>0, <2>2 DEF TypeOK
  <2>7. \A w \in Worker : wpc'[w] # "idle" => \A i \in DOMAIN jobs'[w] : jobs'[w][i] \in Backed
    BY Zenon, <2>5, <2>6 DEF CodeInv
  <2>8. \A q \in Request : pc'[q] \in Pending \ {"idle"} => q \in Backed
    BY Zenon, <1>0, <2>2, <2>4 DEF TypeOK, CodeInv
  <2> QED
    BY Zenon, <1>a, <2>2, <2>3, <2>7, <2>8 DEF CodeInv
<1>7. CASE \E d \in Deploys : DeployReturns(d)
  <2>1. PICK d \in Deploys : DeployReturns(d)
    BY Zenon, <1>7
  <2>2. /\ UNCHANGED <<program, artifacts, safeArts, hist, committed, jobs, channel>>
        /\ wpc' = [wpc EXCEPT ![d] = "idle"] /\ wpc[d] \in {"ok", "err"}
        /\ \E s : pc' = [pc EXCEPT ![d] = s]
    BY Zenon, <2>1 DEF DeployReturns, Succeed, Retry
  <2>3. Applied' = Applied
    BY Zenon, <2>2, SameApplied
  <2>4. pc[d] \in Pending \ {"idle"}
    BY Zenon, <1>0, <2>2 DEF QueueInv, Pending
  <2>5. \A q \in Request : pc'[q] \in Pending \ {"idle"} => pc[q] \in Pending \ {"idle"}
    BY Zenon, <1>0, <2>2, <2>4 DEF TypeOK
  <2>6. \A w \in Worker : wpc'[w] # "idle" => wpc[w] # "idle" /\ jobs'[w] = jobs[w]
    BY Zenon, <1>0, <2>2 DEF TypeOK
  <2> QED
    BY Zenon, <1>a, <2>2, <2>3, <2>5, <2>6, CodeFrame
<1>8. CASE Recv \/ Drain
  <2>1. /\ UNCHANGED <<program, artifacts, safeArts, hist, committed, pc>>
        /\ \/ /\ channel # <<>> /\ channel' = Tail(channel)
              /\ \/ jobs' = [jobs EXCEPT ![Committer] = <<Head(channel)>>]
                 \/ /\ wpc[Committer] # "idle"
                    /\ jobs' = [jobs EXCEPT ![Committer] = Append(jobs[Committer], Head(channel))]
           \/ UNCHANGED <<jobs, channel>> /\ wpc[Committer] # "idle"
        /\ wpc' = wpc \/ \E s : wpc' = [wpc EXCEPT ![Committer] = s]
    BY Zenon, <1>8 DEF Recv, Drain
  <2>2. Applied' = Applied
    BY Zenon, <2>1, SameApplied
  <2>3. \A w \in Worker : w # Committer => wpc'[w] = wpc[w] /\ jobs'[w] = jobs[w]
    BY Zenon, <1>0, <2>1 DEF TypeOK
  <2>4. channel \in Seq(Txs) /\ jobs[Committer] \in Seq(Txs)
    BY Zenon, <1>0 DEF TypeOK, QueueInv
  <2>5. \A i \in DOMAIN channel' : \E j \in DOMAIN channel : channel'[i] = channel[j]
    <3>1. CASE channel' = channel
      BY Zenon, <3>1
    <3>2. CASE channel # <<>> /\ channel' = Tail(channel)
      <4>1. \A i \in DOMAIN channel' : i + 1 \in DOMAIN channel /\ channel'[i] = channel[i + 1]
        BY <2>4, <3>2
      <4> QED
        BY Zenon, <4>1
    <3> QED
      BY Zenon, <2>1, <3>1, <3>2
  <2>6. ASSUME NEW i \in DOMAIN jobs'[Committer]
        PROVE  jobs'[Committer][i] \in Backed
    <3>1. CASE UNCHANGED <<jobs, channel>> /\ wpc[Committer] # "idle"
      BY Zenon, <1>00, <2>6, <3>1 DEF CodeInv
    <3>2. CASE channel # <<>>
      <4>1. Head(channel) \in Backed /\ Head(channel) \in Txs
        <5>1. 1 \in DOMAIN channel /\ Head(channel) = channel[1] /\ Head(channel) \in Txs
          BY <2>4, <3>2
        <5> QED
          BY Zenon, <5>1 DEF CodeInv
      <4>2. CASE jobs' = [jobs EXCEPT ![Committer] = <<Head(channel)>>]
        <5>1. jobs'[Committer] = <<Head(channel)>>
          BY Zenon, <1>0, <1>00, <4>2 DEF TypeOK
        <5> QED
          BY SMTT(30), <2>6, <4>1, <5>1
      <4>3. CASE /\ wpc[Committer] # "idle"
                 /\ jobs' = [jobs EXCEPT ![Committer] = Append(jobs[Committer], Head(channel))]
        <5> DEFINE s == Append(jobs[Committer], Head(channel))
        <5>1. jobs'[Committer] = s
          BY Zenon, <1>0, <1>00, <4>3 DEF TypeOK
        <5>2. \A k \in DOMAIN s : \/ k \in DOMAIN jobs[Committer] /\ s[k] = jobs[Committer][k]
                                  \/ s[k] = Head(channel)
          BY Zenon, <2>4, <4>1, AppendJob
        <5> HIDE DEF s
        <5> QED
          BY Zenon, <1>00, <2>6, <4>1, <4>3, <5>1, <5>2 DEF CodeInv
      <4>4. CASE UNCHANGED <<jobs, channel>> /\ wpc[Committer] # "idle"
        BY Zenon, <3>1, <4>4
      <4> QED
        BY Zenon, <2>1, <4>2, <4>3, <4>4
    <3> QED
      BY Zenon, <2>1, <3>1, <3>2
  <2>7. \A w \in Worker : wpc'[w] # "idle" => \A i \in DOMAIN jobs'[w] : jobs'[w][i] \in Backed
    <3> TAKE w \in Worker
    <3>1. CASE w = Committer
      BY Zenon, <2>6, <3>1
    <3>2. CASE w # Committer
      BY Zenon, <2>3, <3>2 DEF CodeInv
    <3> QED
      BY Zenon, <3>1, <3>2
  <2> QED
    BY Zenon, <1>a, <2>1, <2>2, <2>5, <2>7 DEF CodeInv
<1>9. CASE Reply
  <2>1. /\ UNCHANGED <<program, artifacts, safeArts, hist, committed, jobs, channel>>
        /\ wpc' = [wpc EXCEPT ![Committer] = "idle"]
        /\ \A r \in Request : pc'[r] = pc[r] \/ pc[r] = "waiting"
    BY Zenon, <1>9 DEF Reply
  <2>2. Applied' = Applied
    BY Zenon, <2>1, SameApplied
  <2>3. \A r \in Request : pc'[r] \in Pending \ {"idle"} => pc[r] \in Pending \ {"idle"}
    BY Zenon, <2>1 DEF Pending
  <2>4. \A w \in Worker : wpc'[w] # "idle" => wpc[w] # "idle" /\ jobs'[w] = jobs[w]
    BY Zenon, <1>0, <2>1 DEF TypeOK
  <2> QED
    BY Zenon, <1>a, <2>1, <2>2, <2>3, <2>4, CodeFrame
<1>10. ASSUME NEW w \in Worker, Acquire(w) \/ validate_and_apply_job(w) \/ CommitError(w)
       PROVE  CodeInv'
  <2>1. /\ UNCHANGED <<program, artifacts, safeArts, committed, jobs, channel, pc>>
        /\ wpc[w] # "idle" /\ (wpc' = wpc \/ \E s : wpc' = [wpc EXCEPT ![w] = s])
    BY Zenon, <1>10 DEF Acquire, validate_and_apply_job, CommitError
  <2>2. /\ hist \in Seq(Entry) /\ committed \in Nat /\ committed <= Len(hist)
    BY Zenon, <1>0 DEF TypeOK, SerialHistory
  <2>3. \A i \in 1 .. committed : hist'[i] = hist[i]
    <3>1. CASE hist' = hist
      BY Zenon, <3>1
    <3>2. CASE hist' = SubSeq(hist, 1, committed)
      BY Zenon, <2>2, <3>2, Truncated
    <3>3. CASE \E e : hist' = Append(hist, e)
      <4>1. PICK e : hist' = Append(hist, e)
        BY Zenon, <3>3
      <4> QED
        BY <2>2, <4>1
    <3> QED
      BY Zenon, <1>10, <3>1, <3>2, <3>3 DEF Acquire, validate_and_apply_job, CommitError
  <2>4. Applied' = Applied
    BY Zenon, <2>1, <2>3 DEF Applied
  <2>5. \A v \in Worker : wpc'[v] # "idle" => wpc[v] # "idle" /\ jobs'[v] = jobs[v]
    BY Zenon, <1>0, <2>1 DEF TypeOK
  <2> QED
    BY Zenon, <1>a, <2>1, <2>4, <2>5, CodeFrame
<1>11. CASE \E w \in Worker : WriteBatch(w)
  <2>1. PICK w \in Worker : WriteBatch(w)
    BY Zenon, <1>11
  <2>2. /\ UNCHANGED <<program, artifacts, jobs, channel, pc, hist>>
        /\ wpc[w] = "validating" /\ lock = w
        /\ wpc' = [wpc EXCEPT ![w] = "ok"] /\ committed' = Len(hist)
        /\ IF Durable THEN safeArts' = artifacts ELSE safeArts' = safeArts
    BY Zenon, <1>0, <2>1 DEF WriteBatch, LockInv
  <2>3. Backed' = Backed /\ safeArts' \subseteq artifacts'
    BY Zenon, <2>2 DEF Backed, CodeInv
  <2>4. wpc[w] # "idle"
    BY <2>2
  <2>5. ASSUME Durable PROVE Applied' \subseteq Safe'
    <3>1. Safe' = Backed /\ Safe \subseteq Backed
      BY Zenon, <2>2, <2>5 DEF Safe, Backed, CodeInv
    <3>2. ASSUME NEW i \in 1 .. Len(hist) PROVE hist[i].req \in Backed
      <4>1. CASE i \in 1 .. committed
        BY Zenon, <2>5, <3>1, <4>1 DEF Applied, CodeInv
      <4>2. CASE i > committed
        <5>1. PICK k \in DOMAIN outcomes[w] : jobs[w][k] = hist[i].req
          BY Zenon, <1>0, <2>2, <4>2 DEF HistOnce
        <5>2. k \in DOMAIN jobs[w]
          <6>1. jobs[w] \in Seq(Request) /\ outcomes[w] \in Seq({"Committed", "Conflict"})
            BY Zenon, <1>0 DEF TypeOK
          <6>2. Len(outcomes[w]) <= Len(jobs[w])
            BY Zenon, <1>0, <2>2 DEF HistOnce
          <6> QED
            BY <6>1, <6>2
        <5> QED
          BY Zenon, <2>4, <5>1, <5>2 DEF CodeInv
      <4> QED
        BY SMTT(30), <1>0, <4>1, <4>2 DEF TypeOK
    <3> QED
      BY Zenon, <2>2, <3>1, <3>2 DEF Applied
  <2>6. \A v \in Worker : wpc'[v] # "idle" => wpc[v] # "idle"
    BY Zenon, <1>0, <2>2, <2>4 DEF TypeOK
  <2> QED
    BY ZenonT(40), <2>2, <2>3, <2>5, <2>6 DEF CodeInv
<1>12. CASE Crash
  <2>1. /\ hist' = SubSeq(hist, 1, survives) /\ committed' = survives
        /\ channel' = <<>> /\ wpc' = [v \in Worker |-> "idle"]
        /\ pc' = [r \in Request |-> IF pc[r] \in Pending \ {"idle"} THEN "lost" ELSE pc[r]]
        /\ UNCHANGED <<program, safeArts>> /\ safeArts \subseteq artifacts'
    BY ZenonT(40), <1>12 DEF Crash
  <2>2. survives \in Nat /\ committed \in Nat /\ survives <= committed /\ survives <= Len(hist)
    BY SMTT(30), <1>0 DEF TypeOK, SerialHistory, LockInv
  <2>3. \A i \in 1 .. survives : hist'[i] = hist[i] /\ i \in 1 .. committed
    <3>1. \A i \in 1 .. survives : hist'[i] = hist[i]
      BY Zenon, <1>0, <2>1, <2>2, OnceTruncated
    <3> QED
      BY <2>2, <3>1
  <2>4. Applied' \subseteq Applied /\ Safe' = Safe
    <3>1. committed' = survives
      BY Zenon, <2>1
    <3>2. Applied' \subseteq Applied
      BY Zenon, <2>3, <3>1 DEF Applied
    <3> QED
      BY Zenon, <2>1, <3>2 DEF Safe
  <2>5. \A r \in Request : pc'[r] \notin Pending \ {"idle"}
    <3>1. "lost" \notin Pending
      BY DEF Pending
    <3> QED
      BY Zenon, <2>1, <3>1
  <2>6. \A v \in Worker : wpc'[v] = "idle"
    BY Zenon, <2>1
  <2>7. DOMAIN channel' = {}
    BY <2>1
  <2> QED
    BY Zenon, <2>1, <2>4, <2>5, <2>6, <2>7 DEF CodeInv
<1> QED
  BY Zenon, <1>00, <1>1, <1>2, <1>3, <1>4, <1>5, <1>6, <1>7, <1>8, <1>9, <1>10, <1>11, <1>12
     DEF Next

\* State never outlives the code that produced it: although do_compile does not
\* sync, with durable commits a crash never takes an artifact that a committed
\* request was compiled against.
THEOREM CodeIsSafe == Spec => []CodeOutlivesState
<1>1. IInv /\ [Next]_vars => IInv'
  BY Zenon, TypeStep, QueueStep, HistoryStep DEF IInv
<1>2. CodeInv => CodeOutlivesState
  BY Zenon DEF CodeInv, CodeOutlivesState, Applied, Safe
<1>3. IInv /\ OnceInv /\ [Next]_vars => OnceInv'
  BY OnceStep
<1>4. IInv /\ OnceInv /\ CodeInv /\ [Next]_vars => CodeInv'
  BY CodeStep
<1>5. Init => CodeInv
  <2> SUFFICES ASSUME Init PROVE CodeInv
    OBVIOUS
  <2>1. Applied = {}
    BY DEF Init, Applied
  <2> QED
    BY <2>1 DEF Init, CodeInv
<1> QED
  BY <1>1, <1>2, <1>3, <1>4, <1>5, InitInv, OnceInit, PTL DEF Spec

-----------------------------------------------------------------------------
\* Only validate_and_apply_job adds a verdict, and Conflict only for a job that
\* does not apply.
LEMMA ConflictStep ==
    ASSUME TypeOK, [Next]_vars, NEW w \in Worker, wpc[w] = "validating",
           outcomes'[w] = Append(outcomes[w], "Conflict")
    PROVE  ~JobApplies(w, NextJob(w))
<1> USE DEF store, handler, batch, bounds, history, vars
<1>1. /\ outcomes \in [Worker -> Seq({"Committed", "Conflict"})]
      /\ outcomes[w] \in Seq({"Committed", "Conflict"})
  BY Zenon DEF TypeOK
<1>2. outcomes'[w] # outcomes[w] /\ outcomes'[w] # <<>> /\ outcomes'[w] # Append(outcomes[w], "Committed")
  BY SMTT(30), <1>1
<1>3. CASE outcomes' = outcomes
  BY Zenon, <1>2, <1>3
<1>4. CASE \E v \in Worker : Acquire(v)
  BY Zenon, <1>1, <1>2, <1>4 DEF Acquire
<1>5. CASE \E v \in Worker : validate_and_apply_job(v)
  <2>1. PICK v \in Worker : validate_and_apply_job(v)
    BY Zenon, <1>5
  <2>2. CASE v # w
    BY Zenon, <1>1, <1>2, <2>1, <2>2 DEF validate_and_apply_job
  <2>3. CASE v = w
    <3> SUFFICES ASSUME JobApplies(w, NextJob(w)) PROVE FALSE
      OBVIOUS
    <3>1. outcomes' = [outcomes EXCEPT ![w] = Append(outcomes[w], "Committed")]
      BY Zenon, <2>1, <2>3 DEF validate_and_apply_job
    <3> QED
      BY Zenon, <1>1, <1>2, <3>1
  <2> QED
    BY Zenon, <2>2, <2>3
<1>6. CASE Crash
  BY Zenon, <1>2, <1>6 DEF Crash
<1>7. CASE \/ \E a \in Artifact : Compile(a)
           \/ \E r \in Request : Accept(r) \/ ReadCell(r) \/ ReadError(r)
           \/ \E r \in Txs : ExecuteTx(r) \/ Send(r) \/ Disconnect(r) \/ ReceiveReply(r)
           \/ \E d \in Deploys : ExecuteDeploy(d) \/ DeployReturns(d)
           \/ \E q \in Queries : AnswerQuery(q)
           \/ Recv \/ Drain \/ Reply \/ Flush \/ Idle \/ UNCHANGED vars
           \/ \E v \in Worker : WriteBatch(v) \/ CommitError(v)
  BY Zenon, <1>3, <1>7 DEF Compile, Accept, ReadCell, ReadError, ExecuteTx, Send, Disconnect,
       ReceiveReply, ExecuteDeploy, DeployReturns, AnswerQuery, Recv, Drain, Reply, Flush, Idle,
       WriteBatch, CommitError
<1> QED
  BY Zenon, <1>4, <1>5, <1>6, <1>7 DEF Next

\* If is_default lists the default of every cell's type, commit_batch reports
\* Conflict only for a job that read something which no longer holds.
THEOREM NoSpuriousConflict ==
    UnlistedDefault = {} => (Spec => ConflictMeansOverwritten)
<1> SUFFICES ASSUME UnlistedDefault = {} PROVE Spec => ConflictMeansOverwritten
  OBVIOUS
<1> DEFINE Overwritten(w) ==
             (/\ wpc[w] = "validating"
              /\ outcomes'[w] = Append(outcomes[w], "Conflict"))
             => LET r == NextJob(w) IN
                \E c \in DOMAIN obs[r] :
                   obs[r][c] # IF Live(w, c) = Absent THEN DefaultOf[c] ELSE Live(w, c)
<1>1. ASSUME TypeOK, [Next]_vars PROVE \A w \in Worker : Overwritten(w)
  <2> SUFFICES ASSUME NEW w \in Worker, wpc[w] = "validating",
                      outcomes'[w] = Append(outcomes[w], "Conflict")
               PROVE  \E c \in DOMAIN obs[NextJob(w)] :
                         obs[NextJob(w)][c] # IF Live(w, c) = Absent THEN DefaultOf[c] ELSE Live(w, c)
    OBVIOUS
  <2>1. ~JobApplies(w, NextJob(w))
    BY Zenon, <1>1, ConflictStep
  <2>2. PICK c \in Mismatched(w, NextJob(w)) : TRUE
    BY Zenon, <2>1 DEF JobApplies
  <2>3. c \in DOMAIN obs[NextJob(w)] /\ ~read_matches(c, Live(w, c), obs[NextJob(w)][c])
    BY Zenon, <2>2 DEF Mismatched
  <2> QED
    BY Zenon, <2>3 DEF read_matches, is_default
<1>2. IInv /\ [Next]_vars => IInv'
  BY Zenon, TypeStep, QueueStep, HistoryStep DEF IInv
<1>3. IInv /\ [Next]_vars => [\A w \in Worker : Overwritten(w)]_vars
  BY Zenon, <1>1 DEF IInv
<1> QED
  BY <1>2, <1>3, InitInv, PTL DEF Spec, ConflictMeansOverwritten
=============================================================================
