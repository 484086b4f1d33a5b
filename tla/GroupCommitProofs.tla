------------------------- MODULE GroupCommitProofs --------------------------
(***************************************************************************)
(* The inductive invariant of the commit pipeline, the steps that keep it  *)
(* well-typed, and that the pipeline is serializable: the history the      *)
(* mutex orders explains the disk.  For any programs, requests, cells,     *)
(* batch size, channel capacity, crashes and errors.                       *)
(***************************************************************************)
EXTENDS GroupCommit, CellStoreProofs, TLAPS

\* A read set that is complete: the program ran to its end on it.
Complete(r) == obs[r] \in [ReadsOf(program[r]) -> Value] /\ ~Reverts(r)

Handed == {"waiting", "disconnected", "committing"}

\* The requests a job can be in flight for.
Ready == {r \in Request : pc[r] \in Handed /\ Complete(r)}

\* Whoever has a job in the channel or in a batch stays put, with the read set
\* the job was made of, until the verdict is in.
QueueInv ==
    /\ \A i \in DOMAIN channel : channel[i] \in Ready
    /\ \A w \in Worker : wpc[w] # "idle" => \A i \in DOMAIN jobs[w] : jobs[w][i] \in Ready
    /\ jobs[Committer] \in Seq(Txs)
    /\ \A d \in Deploys : wpc[d] # "idle" => jobs[d] = <<d>> /\ pc[d] = "committing"
    /\ \A r \in Request : pc[r] = "sending" => Complete(r)
    /\ \A r \in Request : pc[r] \in Pending => attempt[r] < COMMIT_MAX_ATTEMPTS

\* The mutex: one caller validates at a time.  While it does, the history runs
\* ahead of the disk by exactly its overlay.
LockInv ==
    /\ \A w \in Worker : wpc[w] = "validating" <=> lock = w
    /\ lock = None => Len(hist) = committed
    /\ lock # None => states[Len(states)] = Update(disk, overlay[lock])
    /\ survives <= committed
    /\ stable = states[survives + 1]

\* A request has one job at a time, in the channel or with the committer.
UniqueJobs ==
    /\ \A i, j \in DOMAIN channel : channel[i] = channel[j] => i = j
    /\ wpc[Committer] # "idle" =>
          /\ \A i, j \in DOMAIN jobs[Committer] :
                jobs[Committer][i] = jobs[Committer][j] => i = j
          /\ \A i \in DOMAIN jobs[Committer], j \in DOMAIN channel :
                jobs[Committer][i] # channel[j]

IInv == TypeOK /\ QueueInv /\ UniqueJobs /\ LockInv /\ SerialHistory

-----------------------------------------------------------------------------
(***************************************************************************)
(* The operators.                                                          *)
(***************************************************************************)

\* Promoting a job's writes into the overlay gives an overlay.
LEMMA PromoteType ==
    ASSUME NEW o \in Observation, NEW g \in Observation
    PROVE  Promote(o, g) \in Observation
<1>1. /\ DOMAIN o \subseteq Cells /\ o \in [DOMAIN o -> Value]
      /\ DOMAIN g \subseteq Cells /\ g \in [DOMAIN g -> Value]
  BY Zenon, ObservationFacts
<1>2. Promote(o, g) \in [DOMAIN o \cup DOMAIN g -> Value]
  BY Zenon, <1>1 DEF Promote
<1> QED
  BY Zenon, <1>1, <1>2, ObservationFacts

\* Writing the overlay at once is writing its jobs one after the other.
LEMMA UpdatePromote ==
    ASSUME NEW f \in [Cells -> Row], NEW o \in Observation, NEW g \in Observation
    PROVE  Update(f, Promote(o, g)) = Update(Update(f, o), g)
BY Zenon, ObservationFacts DEF Update, Promote

\* A complete job's writes, merged or not, are values of cells.
LEMMA LocalWritesType ==
    ASSUME TypeOK, NEW w \in Worker, NEW r \in Request, Complete(r), JobApplies(w, r)
    PROVE  LocalWrites(w, r) \in Observation
<1>1. program[r] \in Program
  BY Zenon DEF TypeOK
<1>2. Writes(r) \in Observation
  BY Zenon, <1>1, ProgramTypes DEF Complete, Writes
<1>3. DOMAIN Writes(r) \subseteq Cells /\ Writes(r) \in [DOMAIN Writes(r) -> Value]
  BY Zenon, <1>2, ObservationFacts
<1>4. ASSUME NEW c \in DOMAIN Writes(r), c \in Mismatched(w, r)
      PROVE  Merged(w, r, c) \in Value
  <2>1. c \in Cells /\ Writes(r)[c] \in Value
    BY Zenon, <1>3
  <2>2. obs[r] \in [DOMAIN obs[r] -> Value] /\ c \in DOMAIN obs[r]
    BY Zenon, <1>4, ObservationFacts DEF TypeOK, Mismatched
  <2>3. Live(w, c) \in Row
    <3>1. overlay[w] \in [DOMAIN overlay[w] -> Value]
      BY Zenon, ObservationFacts DEF TypeOK
    <3> QED
      BY Zenon, <2>1, <3>1 DEF TypeOK, Live, Row
  <2>4. (IF Live(w, c) = Absent THEN DefaultOf[c] ELSE Live(w, c)) \in Value
    BY Zenon, <2>1, <2>3, CellTypes DEF Row
  <2>5. Merged(w, r, c) \in Value \cup {NoMerge}
    BY Zenon, <2>1, <2>2, <2>4, MergeType DEF Merged
  <2> QED
    BY Zenon, <1>4, <2>5 DEF JobApplies, Reconcilable
<1>5. LocalWrites(w, r) \in [DOMAIN Writes(r) -> Value]
  BY Zenon, <1>3, <1>4 DEF LocalWrites
<1> QED
  BY Zenon, <1>3, <1>5, ObservationFacts

\* The job commit_batch validates next is complete.
LEMMA NextJobComplete ==
    ASSUME TypeOK, QueueInv, NEW w \in Worker, validate_and_apply_job(w)
    PROVE  NextJob(w) \in Request /\ Complete(NextJob(w))
<1>1. jobs[w] \in Seq(Request) /\ outcomes[w] \in Seq({"Committed", "Conflict"})
  BY Zenon DEF TypeOK
<1>2. wpc[w] = "validating" /\ Len(outcomes[w]) < Len(jobs[w])
  BY Zenon DEF validate_and_apply_job
<1>3. Len(outcomes[w]) + 1 \in DOMAIN jobs[w]
  BY <1>1, <1>2
<1> QED
  BY Zenon, <1>1, <1>2, <1>3 DEF NextJob, QueueInv, Ready

-----------------------------------------------------------------------------
(***************************************************************************)
(* Type correctness.                                                       *)
(***************************************************************************)

\* A freshly opened namespace satisfies the inductive invariant.
LEMMA InitInv == Init => IInv
<1> SUFFICES ASSUME Init PROVE IInv
  OBVIOUS
<1>1. program \in [Request -> Program]
  BY Zenon, AssignmentTypes DEF Init
<1>2. TypeOK
  BY <1>1, ObservationFacts, BoundTypes DEF Init, TypeOK, Fresh, Row, Pending, WorkerState
<1>3. QueueInv
  BY BoundTypes DEF Init, QueueInv, Worker
<1>4. LockInv /\ UniqueJobs
  BY DistinctActors DEF Init, LockInv, UniqueJobs, Worker
<1>5. SerialHistory
  BY DEF Init, SerialHistory
<1> QED
  BY Zenon, <1>2, <1>3, <1>4, <1>5 DEF IInv

\* One step per action: whatever step is taken, every variable keeps its type.
LEMMA TypeStep == IInv /\ [Next]_vars => TypeOK'
<1> SUFFICES ASSUME TypeOK, QueueInv, LockInv, SerialHistory, [Next]_vars PROVE TypeOK'
  BY Zenon DEF IInv
<1> USE DEF store, handler, batch, bounds, history, vars
<1>1. CASE \E a \in Artifact : Compile(a)
  BY Zenon, <1>1 DEF Compile, TypeOK
<1>2. CASE \E r \in Request : Accept(r)
  <2>1. PICK r \in Request : Accept(r)
    BY Zenon, <1>2
  <2>2. \E s \in Pending \cup Answered : pc' = [pc EXCEPT ![r] = s]
    BY Zenon, <2>1 DEF Accept, Pending, Answered
  <2>3. pc' \in [Request -> Pending \cup Answered]
    BY <2>2 DEF TypeOK
  <2>4. faults' \in Nat
    BY <2>1 DEF Accept, TypeOK
  <2> QED
    BY Zenon, <2>1, <2>3, <2>4 DEF Accept, TypeOK
<1>3. CASE \E r \in Request : ReadCell(r) \/ ReadError(r)
  <2>1. PICK r \in Request : ReadCell(r) \/ ReadError(r)
    BY Zenon, <1>3
  <2>2. PICK c \in ReadsOf(program[r]) \ DOMAIN obs[r] :
           Record(r, c, ReadIn(disk, c)) \/ Record(r, c, DefaultOf[c])
    BY Zenon, <2>1 DEF ReadCell, ReadError
  <2>3. c \in Cells
    BY Zenon, <2>2, ProgramTypes DEF TypeOK
  <2>4. PICK v \in Value : Record(r, c, v)
    BY Zenon, <2>2, <2>3, CellTypes DEF TypeOK, Row, ReadIn
  <2>5. DOMAIN obs[r] \subseteq Cells /\ obs[r] \in [DOMAIN obs[r] -> Value]
    BY Zenon, ObservationFacts DEF TypeOK
  <2>6. [d \in DOMAIN obs[r] \cup {c} |-> IF d = c THEN v ELSE obs[r][d]]
           \in [DOMAIN obs[r] \cup {c} -> Value]
    BY Zenon, <2>4, <2>5
  <2>7. obs' \in [Request -> Observation]
    BY ZenonT(30), <2>3, <2>4, <2>5, <2>6, ObservationFacts DEF Record, TypeOK
  <2>8. faults' \in Nat
    BY <2>1 DEF ReadCell, ReadError, TypeOK
  <2>9. UNCHANGED <<store, program, pc, attempt, channel, batch, crashes, history>>
    BY Zenon, <2>1 DEF ReadCell, ReadError
  <2> QED
    BY Zenon, <2>7, <2>8, <2>9 DEF TypeOK
<1>4. CASE \E r \in Txs : ExecuteTx(r)
  BY Zenon, <1>4 DEF ExecuteTx, TypeOK, Pending, Answered
<1>5. CASE \E r \in Txs : Send(r)
  <2>1. PICK r \in Txs : Send(r)
    BY Zenon, <1>5
  <2>2. channel' \in Seq(Txs)
    BY <2>1 DEF Send, TypeOK
  <2>3. pc' \in [Request -> Pending \cup Answered]
    BY Zenon, <2>1 DEF Send, TypeOK, Pending
  <2> QED
    BY Zenon, <2>1, <2>2, <2>3 DEF Send, TypeOK
<1>6. CASE \E r \in Txs : Disconnect(r)
  BY Zenon, <1>6 DEF Disconnect, TypeOK, Pending, Answered
<1>7. ASSUME NEW r \in Request, pc[r] \in Pending, Retry(r)
      PROVE  /\ pc' \in [Request -> Pending \cup Answered]
             /\ obs' \in [Request -> Observation]
             /\ attempt' \in [Request -> 0 .. COMMIT_MAX_ATTEMPTS]
  <2>1. attempt[r] \in Nat /\ attempt[r] < COMMIT_MAX_ATTEMPTS
    BY <1>7 DEF TypeOK, QueueInv
  <2>2. attempt[r] + 1 \in 0 .. COMMIT_MAX_ATTEMPTS
    BY <2>1, BoundTypes
  <2>3. attempt' \in [Request -> 0 .. COMMIT_MAX_ATTEMPTS]
    BY Zenon, <1>7, <2>2 DEF Retry, TypeOK
  <2>4. obs' \in [Request -> Observation]
    BY Zenon, <1>7, ObservationFacts DEF Retry, TypeOK
  <2>5. pc' \in [Request -> Pending \cup Answered]
    BY Zenon, <1>7 DEF Retry, TypeOK, Pending, Answered
  <2> QED
    BY Zenon, <2>3, <2>4, <2>5
<1>8. CASE \E r \in Txs : ReceiveReply(r)
  <2>1. PICK r \in Txs : ReceiveReply(r)
    BY <1>8
  <2>2. r \in Request
    BY Zenon DEF Request
  <2>3. CASE pc[r] = "replyCommitted" /\ Succeed(r)
    <3>1. pc' \in [Request -> Pending \cup Answered]
      BY Zenon, <2>3 DEF Succeed, TypeOK, Answered
    <3> QED
      BY Zenon, <2>1, <2>3, <3>1 DEF ReceiveReply, Succeed, TypeOK
  <2>4. CASE pc[r] = "replyConflict" /\ Retry(r)
    <3>1. pc[r] \in Pending
      BY Zenon, <2>4 DEF Pending
    <3> QED
      BY Zenon, <1>7, <2>1, <2>2, <2>4, <3>1 DEF ReceiveReply, TypeOK
  <2> QED
    BY Zenon, <2>1, <2>3, <2>4 DEF ReceiveReply
<1>9. CASE \E d \in Deploys : ExecuteDeploy(d)
  <2>1. PICK d \in Deploys : ExecuteDeploy(d)
    BY <1>9
  <2>2. d \in Request /\ d \in Worker
    BY Zenon DEF Request, Worker
  <2>3. pc' \in [Request -> Pending \cup Answered]
    BY Zenon, <2>1 DEF ExecuteDeploy, TypeOK, Pending, Answered
  <2>4. wpc' \in [Worker -> WorkerState]
    BY Zenon, <2>1 DEF ExecuteDeploy, TypeOK, WorkerState
  <2>5. jobs' \in [Worker -> Seq(Request)]
    <3>1. <<d>> \in Seq(Request)
      BY <2>2
    <3> QED
      BY Zenon, <2>1, <3>1 DEF ExecuteDeploy, TypeOK
  <2> QED
    BY Zenon, <2>1, <2>3, <2>4, <2>5 DEF ExecuteDeploy, TypeOK
<1>10. CASE \E d \in Deploys : DeployReturns(d)
  <2>1. PICK d \in Deploys : DeployReturns(d)
    BY <1>10
  <2>2. d \in Request /\ d \in Worker
    BY DEF Request, Worker
  <2>3. wpc' \in [Worker -> WorkerState]
    BY Zenon, <2>1 DEF DeployReturns, TypeOK, WorkerState
  <2>4. CASE Retry(d) /\ wpc[d] = "ok"
    <3>1. pc[d] \in Pending
      BY Zenon, <2>4 DEF QueueInv, Pending
    <3> QED
      BY Zenon, <1>7, <2>1, <2>2, <2>3, <2>4, <3>1 DEF DeployReturns, TypeOK
  <2>5. CASE ~(Retry(d) /\ wpc[d] = "ok")
    <3>1. /\ pc' \in [Request -> Pending \cup Answered]
          /\ UNCHANGED <<obs, attempt>>
      BY Zenon, <2>1, <2>5 DEF DeployReturns, Succeed, TypeOK, Answered
    <3> QED
      BY Zenon, <2>1, <2>3, <3>1 DEF DeployReturns, TypeOK
  <2> QED
    BY Zenon, <2>4, <2>5
<1>11. CASE \E q \in Queries : AnswerQuery(q)
  BY Zenon, <1>11 DEF AnswerQuery, TypeOK, Pending, Answered
<1>12. CASE Recv
  <2>1. channel' \in Seq(Txs) /\ Head(channel) \in Txs
    BY <1>12 DEF Recv, TypeOK
  <2>2. jobs' \in [Worker -> Seq(Request)]
    <3>1. <<Head(channel)>> \in Seq(Request)
      BY <2>1 DEF Request
    <3> QED
      BY Zenon, <1>12, <3>1 DEF Recv, TypeOK
  <2>3. wpc' \in [Worker -> WorkerState]
    BY Zenon, <1>12 DEF Recv, TypeOK, WorkerState
  <2> QED
    BY Zenon, <1>12, <2>1, <2>2, <2>3 DEF Recv, TypeOK
<1>13. CASE Drain
  <2>1. CASE channel # <<>> /\ Len(jobs[Committer]) < MAX_BATCH
    <3>1. channel' \in Seq(Txs) /\ Head(channel) \in Txs
      <4>1. channel' = Tail(channel)
        BY Zenon, <1>13, <2>1 DEF Drain
      <4> QED
        BY <2>1, <4>1 DEF TypeOK
    <3>2. jobs[Committer] \in Seq(Request)
      BY Zenon DEF TypeOK, Worker
    <3>3. jobs' \in [Worker -> Seq(Request)]
      <4>1. Append(jobs[Committer], Head(channel)) \in Seq(Request)
        <5>1. Head(channel) \in Request
          BY Zenon, <3>1 DEF Request
        <5> QED
          BY <3>2, <5>1
      <4> QED
        BY Zenon, <1>13, <2>1, <4>1 DEF Drain, TypeOK
    <3> QED
      BY Zenon, <1>13, <2>1, <3>1, <3>3 DEF Drain, TypeOK
  <2>2. CASE ~(channel # <<>> /\ Len(jobs[Committer]) < MAX_BATCH)
    <3>1. wpc' \in [Worker -> WorkerState]
      BY Zenon, <1>13, <2>2 DEF Drain, TypeOK, WorkerState
    <3> QED
      BY Zenon, <1>13, <2>2, <3>1 DEF Drain, TypeOK
  <2> QED
    BY Zenon, <2>1, <2>2
<1>14. CASE Reply
  BY Zenon, <1>14 DEF Reply, Verdict, TypeOK, Pending, Answered, Worker, WorkerState
<1>15. CASE \E w \in Worker : Acquire(w)
  BY <1>15, ObservationFacts DEF Acquire, TypeOK, WorkerState
<1>16. CASE \E w \in Worker : validate_and_apply_job(w)
  <2>1. PICK w \in Worker : validate_and_apply_job(w)
    BY Zenon, <1>16
  <2>2. NextJob(w) \in Request /\ Complete(NextJob(w))
    BY Zenon, <2>1, NextJobComplete
  <2>3. outcomes' \in [Worker -> Seq({"Committed", "Conflict"})]
    <3>1. outcomes[w] \in Seq({"Committed", "Conflict"})
      BY Zenon DEF TypeOK
    <3>2. /\ Append(outcomes[w], "Committed") \in Seq({"Committed", "Conflict"})
          /\ Append(outcomes[w], "Conflict") \in Seq({"Committed", "Conflict"})
      BY <3>1
    <3> QED
      BY Zenon, <2>1, <3>2 DEF validate_and_apply_job, TypeOK
  <2>4. CASE JobApplies(w, NextJob(w))
    <3> DEFINE r == NextJob(w)
               entry == [req |-> r, reads |-> obs[r], writes |-> LocalWrites(w, r),
                         merged |-> Mismatched(w, r)]
    <3>1. LocalWrites(w, r) \in Observation
      BY Zenon, <2>2, <2>4, LocalWritesType
    <3>2. overlay' \in [Worker -> Observation]
      <4>1. Promote(overlay[w], LocalWrites(w, r)) \in Observation
        BY Zenon, <3>1, PromoteType DEF TypeOK
      <4>2. overlay' = [overlay EXCEPT ![w] = Promote(@, LocalWrites(w, r))]
        BY Zenon, <2>1, <2>4 DEF validate_and_apply_job
      <4> QED
        BY Zenon, <4>1, <4>2 DEF TypeOK
    <3>3. obs[r] \in Observation /\ Mismatched(w, r) \subseteq Cells
      BY Zenon, <2>2, ObservationFacts DEF TypeOK, Mismatched
    <3>4. entry \in Entry
      BY Zenon, <2>2, <3>1, <3>3 DEF Entry
    <3>5. hist' = Append(hist, entry)
      BY Zenon, <2>1, <2>4 DEF validate_and_apply_job
    <3>6. hist' \in Seq(Entry)
      BY <3>4, <3>5 DEF TypeOK
    <3>7. states' \in Seq([Cells -> Row])
      <4>1. states[Len(states)] \in [Cells -> Row]
        BY DEF TypeOK, SerialHistory
      <4>2. Update(states[Len(states)], LocalWrites(w, r)) \in [Cells -> Row]
        BY Zenon, <3>1, <4>1, UpdateType
      <4>3. states' = Append(states, Update(states[Len(states)], LocalWrites(w, r)))
        BY Zenon, <2>1, <2>4 DEF validate_and_apply_job
      <4> QED
        BY <4>2, <4>3 DEF TypeOK
    <3> QED
      BY Zenon, <2>1, <2>3, <3>2, <3>6, <3>7 DEF validate_and_apply_job, TypeOK
  <2>5. CASE ~JobApplies(w, NextJob(w))
    BY Zenon, <2>1, <2>3, <2>5 DEF validate_and_apply_job, TypeOK
  <2> QED
    BY Zenon, <2>4, <2>5
<1>17. CASE \E w \in Worker : WriteBatch(w)
  <2>1. PICK w \in Worker : WriteBatch(w)
    BY <1>17
  <2>2. disk' \in [Cells -> Row]
    BY Zenon, <2>1, UpdateType DEF WriteBatch, TypeOK
  <2>3. Len(hist) \in Nat
    BY DEF TypeOK
  <2> QED
    BY Zenon, <2>1, <2>2, <2>3 DEF WriteBatch, TypeOK, WorkerState
<1>18. CASE \E w \in Worker : CommitError(w)
  <2>1. PICK w \in Worker : CommitError(w)
    BY <1>18
  <2>2. SubSeq(hist, 1, committed) \in Seq(Entry)
    BY Zenon, Truncated DEF TypeOK, SerialHistory
  <2>3. SubSeq(states, 1, committed + 1) \in Seq([Cells -> Row])
    <3>1. committed + 1 \in Nat /\ committed + 1 <= Len(states)
      BY DEF TypeOK, SerialHistory
    <3> QED
      BY Zenon, <3>1, Truncated DEF TypeOK
  <2> QED
    BY SMTT(30), <2>1, <2>2, <2>3 DEF CommitError, TypeOK, WorkerState
<1>19. CASE Flush
  BY Zenon, <1>19 DEF Flush, TypeOK
<1>20. CASE Crash
  <2>1. /\ SubSeq(hist, 1, survives) \in Seq(Entry)
        /\ SubSeq(states, 1, survives + 1) \in Seq([Cells -> Row])
    <3>1. /\ survives <= Len(hist)
          /\ survives + 1 \in Nat /\ survives + 1 <= Len(states)
      <4>1. /\ survives \in Nat /\ committed \in Nat
            /\ Len(hist) \in Nat
        BY DEF TypeOK
      <4>2. /\ survives <= committed /\ committed <= Len(hist)
            /\ Len(states) = Len(hist) + 1
        BY Zenon DEF SerialHistory, LockInv
      <4> HIDE DEF IInv
      <4> QED
        BY <4>1, <4>2
    <3>2. SubSeq(hist, 1, survives) \in Seq(Entry)
      BY Zenon, <3>1, Truncated DEF TypeOK
    <3>3. SubSeq(states, 1, survives + 1) \in Seq([Cells -> Row])
      BY Zenon, <3>1, Truncated DEF TypeOK
    <3> QED
      BY Zenon, <3>2, <3>3
  <2>2. pc' \in [Request -> Pending \cup Answered]
    BY Zenon, <1>20 DEF Crash, TypeOK, Answered
  <2>3. artifacts' \subseteq Artifact
    BY Zenon, <1>20 DEF Crash, TypeOK
  <2>4. overlay' \in [Worker -> Observation] /\ wpc' \in [Worker -> WorkerState]
    BY Zenon, <1>20, ObservationFacts DEF Crash, WorkerState
  <2>5. /\ jobs' \in [Worker -> Seq(Request)] /\ channel' \in Seq(Txs)
        /\ outcomes' \in [Worker -> Seq({"Committed", "Conflict"})]
    BY <1>20 DEF Crash
  <2> QED
    BY <1>20, <2>1, <2>2, <2>3, <2>4, <2>5 DEF Crash, TypeOK
<1>21. CASE Idle \/ UNCHANGED vars
  BY Zenon, <1>21 DEF Idle, TypeOK
<1> QED
  BY Zenon, <1>1, <1>2, <1>3, <1>4, <1>5, <1>6, <1>8, <1>9, <1>10, <1>11, <1>12, <1>13, <1>14,
     <1>15, <1>16, <1>17, <1>18, <1>19, <1>20, <1>21 DEF Next

-----------------------------------------------------------------------------
(***************************************************************************)
(* A job stays with its request: the channel and the batches hold each     *)
(* complete request at most once.                                          *)
(***************************************************************************)

\* A job drained from the channel goes to the end of the batch.
LEMMA AppendJob ==
    ASSUME NEW S, NEW s \in Seq(S), NEW e \in S
    PROVE  /\ Append(s, e) \in Seq(S)
           /\ \A i \in DOMAIN Append(s, e) : \/ i \in DOMAIN s /\ Append(s, e)[i] = s[i]
                                             \/ i = Len(s) + 1 /\ Append(s, e)[i] = e
OBVIOUS

\* The steps that move neither jobs nor workers disturb at most the request that
\* takes them, which has no job in flight.
LEMMA QueueFrame ==
    ASSUME TypeOK, QueueInv, NEW r \in Request,
           pc[r] \notin Handed,
           UNCHANGED <<program, channel, wpc, jobs>>,
           \A s \in Request \ {r} :
               pc'[s] = pc[s] /\ obs'[s] = obs[s] /\ attempt'[s] = attempt[s],
           pc'[r] = "sending" => Complete(r)',
           pc'[r] \in Pending => attempt'[r] < COMMIT_MAX_ATTEMPTS
    PROVE  QueueInv'
<1>1. \A s \in Request : s # r /\ Complete(s) => Complete(s)'
  BY Zenon DEF Complete, Reverts
<1>2. Ready \subseteq Ready'
  BY Zenon, <1>1 DEF Ready
<1>3. \A d \in Deploys : wpc'[d] # "idle" => jobs'[d] = <<d>> /\ pc'[d] = "committing"
  BY Zenon DEF QueueInv, Handed, Request
<1>4. \A s \in Request : pc'[s] = "sending" => Complete(s)'
  BY Zenon, <1>1 DEF QueueInv
<1>5. \A s \in Request : pc'[s] \in Pending => attempt'[s] < COMMIT_MAX_ATTEMPTS
  BY Zenon DEF QueueInv
<1> QED
  BY Zenon, <1>2, <1>3, <1>4, <1>5 DEF QueueInv

\* The steps of commit_batch move no job and touch no request.
LEMMA QueueWorker ==
    ASSUME TypeOK, QueueInv, UniqueJobs,
           UNCHANGED <<handler, channel, jobs>>,
           \A w \in Worker : wpc'[w] # "idle" => wpc[w] # "idle"
    PROVE  QueueInv' /\ UniqueJobs'
<1> USE DEF handler
<1>1. \A r \in Request : Complete(r)' <=> Complete(r)
  BY Zenon DEF Complete, Reverts
<1>2. Committer \in Worker /\ Deploys \subseteq Worker
  BY Zenon DEF Worker
<1>3. Ready' = Ready
  BY Zenon, <1>1 DEF Ready
<1>4. QueueInv'
  BY Zenon, <1>1, <1>2, <1>3 DEF QueueInv
<1>5. UniqueJobs'
  BY <1>2 DEF UniqueJobs
<1> QED
  BY Zenon, <1>4, <1>5

\* Every step leaves the jobs in flight alone, or moves them together with the
\* handlers that wait for them.
LEMMA QueueStep == IInv /\ [Next]_vars => QueueInv' /\ UniqueJobs'
<1> SUFFICES ASSUME TypeOK, QueueInv, UniqueJobs, LockInv, [Next]_vars
             PROVE  QueueInv' /\ UniqueJobs'
  BY Zenon DEF IInv
<1> USE DEF store, handler, batch, bounds, history, vars
<1>1. CASE \E a \in Artifact : Compile(a)
  BY Zenon, <1>1, QueueWorker DEF Compile
<1>2. CASE \E r \in Request : Accept(r)
  <2>1. PICK r \in Request : Accept(r)
    BY Zenon, <1>2
  <2>2. QueueInv'
    BY Zenon, <2>1, QueueFrame DEF Accept, TypeOK, QueueInv, Handed, Pending
  <2> QED
    BY Zenon, <2>1, <2>2 DEF Accept, UniqueJobs
<1>3. CASE \E r \in Request : ReadCell(r) \/ ReadError(r)
  <2>1. PICK r \in Request : ReadCell(r) \/ ReadError(r)
    BY Zenon, <1>3
  <2>2. \A s \in Request \ {r} : obs'[s] = obs[s]
    BY Zenon, <2>1 DEF ReadCell, ReadError, Record, TypeOK
  <2>3. QueueInv'
    BY Zenon, <2>1, <2>2, QueueFrame DEF ReadCell, ReadError, Record, QueueInv, Handed, Pending
  <2> QED
    BY Zenon, <2>1, <2>3 DEF ReadCell, ReadError, Record, UniqueJobs
<1>4. CASE \E r \in Txs : ExecuteTx(r)
  <2>1. PICK r \in Txs : ExecuteTx(r)
    BY Zenon, <1>4
  <2>2. r \in Request
    BY Zenon DEF Request
  <2>3. obs[r] \in [ReadsOf(program[r]) -> Value]
    BY Zenon, <2>1, <2>2, ObservationFacts DEF ExecuteTx, Executed, TypeOK
  <2>4. pc'[r] = "sending" => Complete(r)'
    BY Zenon, <2>1, <2>2, <2>3 DEF ExecuteTx, TypeOK, Complete, Reverts
  <2>5. QueueInv'
    BY Zenon, <2>1, <2>2, <2>4, QueueFrame DEF ExecuteTx, Executed, TypeOK, QueueInv, Handed, Pending
  <2> QED
    BY Zenon, <2>1, <2>5 DEF ExecuteTx, UniqueJobs
<1>5. CASE \E r \in Txs : Send(r)
  <2>1. PICK r \in Txs : Send(r)
    BY <1>5
  <2>2. /\ r \in Request /\ pc[r] = "sending" /\ Complete(r)
        /\ UNCHANGED <<program, obs, attempt, wpc, jobs>>
        /\ channel' = Append(channel, r)
        /\ pc' = [pc EXCEPT ![r] = "waiting"]
    BY Zenon, <2>1 DEF Send, Request, QueueInv
  <2>3. \A s \in Request : Complete(s)' <=> Complete(s)
    BY Zenon, <2>2 DEF Complete, Reverts
  <2>4. Ready \subseteq Ready' /\ r \in Ready' /\ r \notin Ready
    BY Zenon, <2>2, <2>3 DEF Ready, TypeOK, Handed
  <2>5. \A i \in DOMAIN channel : channel[i] # r
    BY Zenon, <2>4 DEF QueueInv
  <2>6. \A i \in DOMAIN channel' :
           channel'[i] = r \/ (i \in DOMAIN channel /\ channel'[i] = channel[i])
    BY <2>2 DEF TypeOK
  <2>7. \A i \in DOMAIN channel' : channel'[i] \in Ready'
    BY Zenon, <2>4, <2>6 DEF QueueInv
  <2>8. \A w \in Worker : wpc[w] # "idle" =>
           \A i \in DOMAIN jobs[w] : jobs[w][i] # r /\ jobs[w][i] \in Ready'
    BY Zenon, <2>4 DEF QueueInv
  <2>9. \A d \in Deploys : wpc[d] # "idle" => jobs[d] = <<d>> /\ pc'[d] = "committing"
    BY Zenon, <2>2 DEF QueueInv, TypeOK, Request
  <2>10. \A s \in Request : /\ pc'[s] = "sending" => Complete(s)'
                            /\ pc'[s] \in Pending => attempt[s] < COMMIT_MAX_ATTEMPTS
    BY Zenon, <2>2, <2>3 DEF QueueInv, TypeOK, Pending
  <2>11. QueueInv'
    BY Zenon, <2>2, <2>7, <2>8, <2>9, <2>10 DEF QueueInv
  <2>12. \A i, j \in DOMAIN channel' : channel'[i] = channel'[j] => i = j
    <3>1. \A i \in DOMAIN channel' : channel'[i] = r => i = Len(channel) + 1
      BY <2>2, <2>5 DEF TypeOK
    <3> QED
      BY Zenon, <2>5, <2>6, <3>1 DEF UniqueJobs
  <2>13. UniqueJobs'
    <3>1. Committer \in Worker
      BY Zenon DEF Worker
    <3> QED
      BY <2>2, <2>6, <2>8, <2>12, <3>1 DEF UniqueJobs
  <2> QED
    BY Zenon, <2>11, <2>13
<1>6. CASE \E r \in Txs : Disconnect(r)
  <2>1. PICK r \in Txs : Disconnect(r)
    BY <1>6
  <2>2. /\ r \in Request /\ r \notin Deploys
        /\ UNCHANGED <<program, obs, attempt, channel, wpc, jobs>>
        /\ pc' = [pc EXCEPT ![r] = "disconnected"]
    BY Zenon, <2>1, DistinctActors DEF Disconnect, Request
  <2>3. \A s \in Request : Complete(s)' <=> Complete(s)
    BY Zenon, <2>2 DEF Complete, Reverts
  <2>4. Ready \subseteq Ready'
    BY Zenon, <2>2, <2>3 DEF Ready, TypeOK, Handed
  <2>5. \A d \in Deploys : wpc[d] # "idle" => jobs[d] = <<d>> /\ pc'[d] = "committing"
    BY Zenon, <2>2 DEF QueueInv, TypeOK, Request
  <2>6. \A s \in Request : /\ pc'[s] = "sending" => Complete(s)'
                           /\ pc'[s] \in Pending => attempt[s] < COMMIT_MAX_ATTEMPTS
    BY Zenon, <2>2, <2>3 DEF QueueInv, TypeOK, Pending
  <2>7. QueueInv'
    BY Zenon, <2>2, <2>4, <2>5, <2>6 DEF QueueInv
  <2> QED
    BY Zenon, <2>2, <2>7 DEF UniqueJobs
<1>7. ASSUME NEW r \in Request, Retry(r)
      PROVE  /\ \A s \in Request \ {r} :
                   pc'[s] = pc[s] /\ obs'[s] = obs[s] /\ attempt'[s] = attempt[s]
             /\ pc'[r] # "sending"
             /\ pc'[r] \in Pending => attempt'[r] < COMMIT_MAX_ATTEMPTS
  BY Zenon, <1>7 DEF Retry, TypeOK, Pending
<1>8. CASE \E r \in Txs : ReceiveReply(r)
  <2>1. PICK r \in Txs : ReceiveReply(r)
    BY <1>8
  <2>2. r \in Request /\ pc[r] \notin Handed
    BY Zenon, <2>1 DEF Request, ReceiveReply, Handed
  <2>3. CASE Succeed(r)
    <3>1. QueueInv'
      BY Zenon, <2>1, <2>2, <2>3, QueueFrame DEF ReceiveReply, Succeed, TypeOK, Pending
    <3> QED
      BY Zenon, <2>1, <3>1 DEF ReceiveReply, UniqueJobs
  <2>4. CASE Retry(r)
    <3>1. QueueInv'
      BY Zenon, <1>7, <2>1, <2>2, <2>4, QueueFrame DEF ReceiveReply
    <3> QED
      BY <2>1, <3>1 DEF ReceiveReply, UniqueJobs
  <2> QED
    BY Zenon, <2>1, <2>3, <2>4 DEF ReceiveReply
<1>9. CASE \E d \in Deploys : ExecuteDeploy(d)
  <2>1. PICK d \in Deploys : ExecuteDeploy(d)
    BY <1>9
  <2>2. /\ d \in Request /\ d \in Worker /\ d # Committer
        /\ pc[d] = "executing" /\ UNCHANGED <<program, obs, attempt, channel>>
    BY Zenon, <2>1, DistinctActors DEF Request, Worker, ExecuteDeploy, Executed
  <2>3. CASE UNCHANGED <<wpc, jobs>> /\ pc' \in {[pc EXCEPT ![d] = "noop"],
                                               [pc EXCEPT ![d] = "rejected422"]}
    <3>1. QueueInv'
      BY ZenonT(40), <2>2, <2>3, QueueFrame DEF TypeOK, Handed, Pending
    <3> QED
      BY Zenon, <2>2, <2>3, <3>1 DEF UniqueJobs
  <2>4. CASE /\ ~Reverts(d)
             /\ pc' = [pc EXCEPT ![d] = "committing"]
             /\ wpc' = [wpc EXCEPT ![d] = "locking"]
             /\ jobs' = [jobs EXCEPT ![d] = <<d>>]
    <3>1. Complete(d)
      BY Zenon, <2>1, <2>2, <2>4, ObservationFacts DEF ExecuteDeploy, Executed, TypeOK, Complete
    <3>2. \A s \in Request : Complete(s)' <=> Complete(s)
      BY Zenon, <2>2 DEF Complete, Reverts
    <3>3. Ready \subseteq Ready' /\ d \in Ready'
      BY Zenon, <2>2, <2>4, <3>1, <3>2 DEF Ready, TypeOK, Handed
    <3>4. \A w \in Worker : wpc'[w] # "idle" => \A i \in DOMAIN jobs'[w] : jobs'[w][i] \in Ready'
      <4> SUFFICES ASSUME NEW w \in Worker, wpc'[w] # "idle", NEW i \in DOMAIN jobs'[w]
                   PROVE  jobs'[w][i] \in Ready'
        OBVIOUS
      <4>1. CASE w = d
        <5>1. jobs'[w] = <<d>>
          BY Zenon, <2>2, <2>4, <4>1 DEF TypeOK
        <5> QED
          BY <3>3, <5>1
      <4>2. CASE w # d
        <5>1. jobs'[w] = jobs[w] /\ wpc'[w] = wpc[w]
          BY Zenon, <2>2, <2>4, <4>2 DEF TypeOK
        <5> QED
          BY Zenon, <3>3, <5>1 DEF QueueInv
      <4> QED
        BY Zenon, <4>1, <4>2
    <3>5. \A e \in Deploys : wpc'[e] # "idle" => jobs'[e] = <<e>> /\ pc'[e] = "committing"
      BY Zenon, <2>2, <2>4 DEF QueueInv, TypeOK, Request, Worker
    <3>6. \A s \in Request : /\ pc'[s] = "sending" => Complete(s)'
                             /\ pc'[s] \in Pending => attempt[s] < COMMIT_MAX_ATTEMPTS
      BY Zenon, <2>2, <2>4, <3>2 DEF QueueInv, TypeOK, Pending
    <3>7. jobs'[Committer] = jobs[Committer] /\ wpc'[Committer] = wpc[Committer]
      BY Zenon, <2>2, <2>4 DEF TypeOK, Worker
    <3>8. QueueInv'
      BY Zenon, <2>2, <3>3, <3>4, <3>5, <3>6, <3>7 DEF QueueInv
    <3> QED
      BY <2>2, <3>7, <3>8 DEF UniqueJobs
  <2> QED
    BY Zenon, <2>1, <2>3, <2>4 DEF ExecuteDeploy
<1>10. CASE \E d \in Deploys : DeployReturns(d)
  <2>1. PICK d \in Deploys : DeployReturns(d)
    BY <1>10
  <2>2. /\ d \in Request /\ d \in Worker /\ d # Committer /\ d \notin Txs
        /\ wpc' = [wpc EXCEPT ![d] = "idle"] /\ UNCHANGED <<program, channel, jobs>>
    BY Zenon, <2>1, DistinctActors DEF Request, Worker, DeployReturns
  <2>3. /\ \A s \in Request \ {d} :
              pc'[s] = pc[s] /\ obs'[s] = obs[s] /\ attempt'[s] = attempt[s]
        /\ pc'[d] # "sending"
        /\ pc'[d] \in Pending => attempt'[d] < COMMIT_MAX_ATTEMPTS
    <3>1. CASE Retry(d)
      BY Zenon, <1>7, <2>2, <3>1
    <3>2. CASE ~Retry(d)
      BY Zenon, <2>1, <2>2, <3>2 DEF DeployReturns, Succeed, TypeOK, Pending
    <3> QED
      BY Zenon, <3>1, <3>2
  <2>4. \A s \in Request \ {d} : Complete(s)' <=> Complete(s)
    BY Zenon, <2>2, <2>3 DEF Complete, Reverts
  <2>5. Ready \ {d} \subseteq Ready'
    BY Zenon, <2>3, <2>4 DEF Ready
  <2>6. \A i \in DOMAIN channel : channel[i] \in Ready'
    BY <2>2, <2>5 DEF QueueInv, TypeOK
  <2>7. \A w \in Worker : wpc'[w] # "idle" => \A i \in DOMAIN jobs[w] : jobs[w][i] \in Ready'
    <3> SUFFICES ASSUME NEW w \in Worker, wpc'[w] # "idle", NEW i \in DOMAIN jobs[w]
                 PROVE  jobs[w][i] \in Ready'
      OBVIOUS
    <3>1. w # d /\ wpc[w] # "idle"
      BY Zenon, <2>2 DEF TypeOK
    <3>2. jobs[w][i] # d
      <4>1. CASE w = Committer
        BY <2>2, <4>1 DEF QueueInv
      <4>2. CASE w \in Deploys
        <5>1. jobs[w] = <<w>>
          BY Zenon, <3>1, <4>2 DEF QueueInv
        <5> QED
          BY <3>1, <5>1
      <4> QED
        BY Zenon, <4>1, <4>2 DEF Worker
    <3> QED
      BY Zenon, <2>5, <3>1, <3>2 DEF QueueInv
  <2>8. \A e \in Deploys : wpc'[e] # "idle" => jobs[e] = <<e>> /\ pc'[e] = "committing"
    BY Zenon, <2>2, <2>3 DEF QueueInv, TypeOK, Request, Worker
  <2>9. \A s \in Request : /\ pc'[s] = "sending" => Complete(s)'
                           /\ pc'[s] \in Pending => attempt'[s] < COMMIT_MAX_ATTEMPTS
    BY Zenon, <2>3, <2>4 DEF QueueInv
  <2>10. QueueInv'
    BY Zenon, <2>2, <2>6, <2>7, <2>8, <2>9 DEF QueueInv
  <2>11. wpc'[Committer] = wpc[Committer]
    BY Zenon, <2>2 DEF TypeOK, Worker
  <2> QED
    BY Zenon, <2>2, <2>10, <2>11 DEF UniqueJobs
<1>11. CASE \E q \in Queries : AnswerQuery(q)
  <2>1. PICK q \in Queries : AnswerQuery(q)
    BY <1>11
  <2>2. q \in Request
    BY Zenon DEF Request
  <2>3. QueueInv'
    BY Zenon, <2>1, <2>2, QueueFrame DEF AnswerQuery, Executed, TypeOK, Handed, Pending
  <2> QED
    BY <2>1, <2>3 DEF AnswerQuery, UniqueJobs
<1>12. CASE Recv
  <2>1. /\ channel \in Seq(Txs) /\ channel # <<>> /\ channel' = Tail(channel)
        /\ jobs' = [jobs EXCEPT ![Committer] = <<Head(channel)>>]
        /\ wpc' = [wpc EXCEPT ![Committer] = "draining"]
        /\ UNCHANGED <<program, pc, obs, attempt>>
    BY Zenon, <1>12 DEF Recv, TypeOK
  <2>2. Committer \in Worker /\ Committer \notin Deploys
    BY Zenon, DistinctActors DEF Worker
  <2>3. /\ jobs'[Committer] = <<Head(channel)>> /\ wpc'[Committer] = "draining"
        /\ \A w \in Worker \ {Committer} : jobs'[w] = jobs[w] /\ wpc'[w] = wpc[w]
    BY Zenon, <2>1, <2>2 DEF TypeOK
  <2>4. /\ Head(channel) = channel[1] /\ 1 \in DOMAIN channel /\ Head(channel) \in Txs
        /\ \A i \in DOMAIN Tail(channel) :
              i + 1 \in DOMAIN channel /\ i \in Nat \ {0} /\ Tail(channel)[i] = channel[i + 1]
    BY <2>1
  <2>5. \A s \in Request : Complete(s)' <=> Complete(s)
    BY Zenon, <2>1 DEF Complete, Reverts
  <2>6. Ready' = Ready
    BY Zenon, <2>1, <2>5 DEF Ready
  <2>7. \A w \in Worker : wpc'[w] # "idle" => \A i \in DOMAIN jobs'[w] : jobs'[w][i] \in Ready
    BY <2>3, <2>4 DEF QueueInv
  <2>8. \A d \in Deploys : wpc'[d] # "idle" => jobs'[d] = <<d>> /\ pc'[d] = "committing"
    BY Zenon, <2>1, <2>2, <2>3 DEF QueueInv, Worker
  <2>9. jobs'[Committer] \in Seq(Txs)
    BY <2>3, <2>4
  <2>10. \A i \in DOMAIN channel' : channel'[i] \in Ready
    BY ZenonT(40), <2>1, <2>4 DEF QueueInv
  <2>11. QueueInv'
    BY SMTT(30), <2>1, <2>5, <2>6, <2>7, <2>8, <2>9, <2>10 DEF QueueInv
  <2>12. \A i, j \in DOMAIN channel' : channel'[i] = channel'[j] => i = j
    BY <2>1, <2>4 DEF UniqueJobs
  <2>13. \A i \in DOMAIN jobs'[Committer], j \in DOMAIN channel' :
            jobs'[Committer][i] # channel'[j]
    <3> SUFFICES ASSUME NEW j \in DOMAIN Tail(channel)
                 PROVE  Head(channel) # Tail(channel)[j]
      BY <2>1, <2>3
    <3>1. j + 1 # 1 /\ j + 1 \in DOMAIN channel /\ Tail(channel)[j] = channel[j + 1]
      BY SMTT(30), <2>4
    <3> QED
      BY Zenon, <2>4, <3>1 DEF UniqueJobs
  <2>14. UniqueJobs'
    BY <2>3, <2>12, <2>13 DEF UniqueJobs
  <2> QED
    BY Zenon, <2>11, <2>14
<1>13. CASE Drain
  <2>1. CASE channel # <<>> /\ Len(jobs[Committer]) < MAX_BATCH
    <3> DEFINE J == jobs[Committer]
    <3>1. /\ channel \in Seq(Txs) /\ channel' = Tail(channel)
          /\ jobs' = [jobs EXCEPT ![Committer] = Append(@, Head(channel))]
          /\ wpc[Committer] = "draining"
          /\ UNCHANGED <<wpc, program, pc, obs, attempt>>
      BY Zenon, <1>13, <2>1 DEF Drain, TypeOK
    <3>2. Committer \in Worker /\ Committer \notin Deploys /\ J \in Seq(Txs)
      BY Zenon, DistinctActors DEF Worker, QueueInv
    <3>3. /\ jobs'[Committer] = Append(J, Head(channel))
          /\ \A w \in Worker \ {Committer} : jobs'[w] = jobs[w]
      BY Zenon, <3>1, <3>2 DEF TypeOK
    <3>4. /\ Head(channel) = channel[1] /\ 1 \in DOMAIN channel /\ Head(channel) \in Txs
          /\ \A i \in DOMAIN Tail(channel) :
                i + 1 \in DOMAIN channel /\ i \in Nat \ {0} /\ Tail(channel)[i] = channel[i + 1]
      BY <2>1, <3>1
    <3>5. /\ jobs'[Committer] \in Seq(Txs)
          /\ \A i \in DOMAIN jobs'[Committer] :
                \/ i \in DOMAIN J /\ jobs'[Committer][i] = J[i]
                \/ i = Len(J) + 1 /\ jobs'[Committer][i] = channel[1]
      <4> DEFINE B == Append(J, Head(channel))
      <4>1. /\ B \in Seq(Txs)
            /\ \A i \in DOMAIN B : \/ i \in DOMAIN J /\ B[i] = J[i]
                                   \/ i = Len(J) + 1 /\ B[i] = Head(channel)
        <5> HIDE DEF J
        <5> QED
          BY ZenonT(40), <3>2, <3>4, AppendJob
      <4>2. B = jobs'[Committer] /\ Head(channel) = channel[1]
        BY Zenon, <3>3, <3>4
      <4> HIDE DEF B, J
      <4> QED
        BY Zenon, <4>1, <4>2
    <3>6. \A s \in Request : Complete(s)' <=> Complete(s)
      BY Zenon, <3>1 DEF Complete, Reverts
    <3>7. Ready' = Ready
      BY Zenon, <3>1, <3>6 DEF Ready
    <3>8. \A i \in DOMAIN jobs'[Committer] : jobs'[Committer][i] \in Ready
      BY Zenon, <3>1, <3>2, <3>4, <3>5 DEF QueueInv
    <3>9. \A w \in Worker : wpc'[w] # "idle" => \A i \in DOMAIN jobs'[w] : jobs'[w][i] \in Ready
      BY Zenon, <3>1, <3>3, <3>8 DEF QueueInv
    <3>10. \A d \in Deploys : wpc'[d] # "idle" => jobs'[d] = <<d>> /\ pc'[d] = "committing"
      BY Zenon, <3>1, <3>2, <3>3 DEF QueueInv, Worker
    <3>11. \A i \in DOMAIN channel' : channel'[i] \in Ready
      BY SMTT(30), <3>1, <3>4 DEF QueueInv
    <3>12. QueueInv'
      BY SMTT(30), <3>1, <3>5, <3>6, <3>7, <3>9, <3>10, <3>11 DEF QueueInv
    <3>13. \A i, j \in DOMAIN channel' : channel'[i] = channel'[j] => i = j
      BY <3>1, <3>4 DEF UniqueJobs
    <3>14. \A i \in DOMAIN J : J[i] # channel[1]
      BY Zenon, <3>1, <3>4 DEF UniqueJobs
    <3>15. \A i, j \in DOMAIN jobs'[Committer] :
              jobs'[Committer][i] = jobs'[Committer][j] => i = j
      BY SMTT(30), <3>1, <3>5, <3>14 DEF UniqueJobs
    <3>16. \A i \in DOMAIN jobs'[Committer], j \in DOMAIN channel' :
              jobs'[Committer][i] # channel'[j]
      <4> SUFFICES ASSUME NEW i \in DOMAIN jobs'[Committer], NEW j \in DOMAIN Tail(channel)
                   PROVE  jobs'[Committer][i] # Tail(channel)[j]
        BY Zenon, <3>1
      <4>1. j + 1 # 1 /\ j + 1 \in DOMAIN channel /\ Tail(channel)[j] = channel[j + 1]
        BY <3>4
      <4> QED
        BY <3>1, <3>4, <3>5, <4>1 DEF UniqueJobs
    <3>17. UniqueJobs'
      BY Zenon, <3>13, <3>15, <3>16 DEF UniqueJobs
    <3> QED
      BY <3>12, <3>17
  <2>2. CASE ~(channel # <<>> /\ Len(jobs[Committer]) < MAX_BATCH)
    BY Zenon, <1>13, <2>2, QueueWorker DEF Drain, TypeOK
  <2> QED
    BY Zenon, <2>1, <2>2
<1>14. CASE Reply
  <2> DEFINE J == jobs[Committer]
             Told == {J[i] : i \in DOMAIN J}
  <2>1. /\ wpc[Committer] # "idle" /\ wpc' = [wpc EXCEPT ![Committer] = "idle"]
        /\ UNCHANGED <<program, obs, attempt, channel, jobs>>
        /\ \A r \in Request : \/ pc'[r] = pc[r]
                               \/ /\ r \in Told /\ pc[r] = "waiting"
                                  /\ pc'[r] \in {"replyCommitted", "replyConflict"}
    BY Zenon, <1>14 DEF Reply, Verdict
  <2>2. /\ Committer \in Worker /\ Committer \notin Deploys /\ J \in Seq(Txs)
        /\ Told \subseteq Txs /\ Txs \cap Deploys = {}
    <3>1. /\ Committer \in Worker /\ Committer \notin Deploys /\ J \in Seq(Txs)
          /\ Txs \cap Deploys = {}
      BY Zenon, DistinctActors DEF Worker, QueueInv
    <3>2. \A i \in DOMAIN J : J[i] \in Txs
      BY <3>1
    <3> QED
      BY Zenon, <3>1, <3>2
  <2>3. wpc'[Committer] = "idle" /\ \A w \in Worker \ {Committer} : wpc'[w] = wpc[w]
    BY Zenon, <2>1, <2>2 DEF TypeOK
  <2>4. \A s \in Request : Complete(s)' <=> Complete(s)
    BY Zenon, <2>1 DEF Complete, Reverts
  <2>5. Ready \ Told \subseteq Ready'
    BY Zenon, <2>1, <2>4 DEF Ready
  <2>6. \A i \in DOMAIN channel : channel[i] \in Ready'
    BY <2>1, <2>5 DEF QueueInv, UniqueJobs
  <2>7. \A w \in Worker : wpc'[w] # "idle" => \A i \in DOMAIN jobs[w] : jobs[w][i] \in Ready'
    <3> SUFFICES ASSUME NEW w \in Worker, wpc'[w] # "idle", NEW i \in DOMAIN jobs[w]
                 PROVE  jobs[w][i] \in Ready'
      OBVIOUS
    <3>1. w \in Deploys /\ wpc[w] # "idle"
      BY Zenon, <2>3 DEF Worker
    <3>2. jobs[w] = <<w>> /\ jobs[w][i] \in Ready
      BY Zenon, <3>1 DEF QueueInv
    <3>3. jobs[w][i] \notin Told
      BY <2>2, <3>1, <3>2
    <3> QED
      BY ZenonT(40), <2>5, <3>2, <3>3
  <2>8. \A d \in Deploys : wpc'[d] # "idle" => jobs[d] = <<d>> /\ pc'[d] = "committing"
    BY Zenon, <2>1, <2>2, <2>3 DEF QueueInv, Worker, Request
  <2>9. \A s \in Request : /\ pc'[s] = "sending" => Complete(s)'
                           /\ pc'[s] \in Pending => attempt[s] < COMMIT_MAX_ATTEMPTS
    BY Zenon, <2>1, <2>4 DEF QueueInv, Pending
  <2>10. QueueInv'
    BY Zenon, <2>1, <2>6, <2>7, <2>8, <2>9 DEF QueueInv
  <2>11. UniqueJobs'
    BY Zenon, <2>1, <2>3 DEF UniqueJobs
  <2> QED
    BY <2>10, <2>11
<1>15. CASE \E w \in Worker : Acquire(w)
  BY Zenon, <1>15, QueueWorker DEF Acquire, TypeOK
<1>16. CASE \E w \in Worker : validate_and_apply_job(w)
  BY Zenon, <1>16, QueueWorker DEF validate_and_apply_job
<1>17. CASE \E w \in Worker : WriteBatch(w)
  BY Zenon, <1>17, QueueWorker DEF WriteBatch, TypeOK
<1>18. CASE \E w \in Worker : CommitError(w)
  BY Zenon, <1>18, QueueWorker DEF CommitError, TypeOK
<1>19. CASE Flush
  BY Zenon, <1>19, QueueWorker DEF Flush
<1>20. CASE Crash
  <2>1. Committer \in Worker /\ Deploys \subseteq Worker
    BY Zenon DEF Worker
  <2>2. /\ channel' = <<>> /\ jobs' = [w \in Worker |-> <<>>]
        /\ wpc' = [w \in Worker |-> "idle"] /\ UNCHANGED attempt
        /\ pc' = [r \in Request |-> IF pc[r] \in Pending \ {"idle"} THEN "lost" ELSE pc[r]]
    BY Zenon, <1>20 DEF Crash
  <2>3. \A r \in Request : pc'[r] \in Pending => pc[r] = "idle" /\ pc'[r] = "idle"
    BY Zenon, <2>2 DEF Pending
  <2>4. UniqueJobs'
    BY <2>1, <2>2 DEF UniqueJobs
  <2>5. /\ DOMAIN channel' = {} /\ jobs'[Committer] = <<>>
        /\ \A w \in Worker : wpc'[w] = "idle"
    BY <2>1, <2>2
  <2>6. jobs'[Committer] \in Seq(Txs)
    BY <2>5
  <2>7. \A d \in Deploys : wpc'[d] = "idle"
    BY Zenon, <2>1, <2>5
  <2>8. \A r \in Request : /\ pc'[r] # "sending"
                           /\ pc'[r] \in Pending => attempt'[r] < COMMIT_MAX_ATTEMPTS
    BY Zenon, <2>2, <2>3 DEF QueueInv, Pending
  <2>9. QueueInv'
    BY Zenon, <2>5, <2>6, <2>7, <2>8 DEF QueueInv
  <2> QED
    BY Zenon, <2>4, <2>9
<1>21. CASE Idle \/ UNCHANGED vars
  BY Zenon, <1>21, QueueWorker DEF Idle
<1> QED
  BY Zenon, <1>1, <1>2, <1>3, <1>4, <1>5, <1>6, <1>8, <1>9, <1>10, <1>11, <1>12, <1>13, <1>14,
     <1>15, <1>16, <1>17, <1>18, <1>19, <1>20, <1>21 DEF Next

(***************************************************************************)
(* The history.                                                            *)
(***************************************************************************)

\* t is s with e at its end.
Appends(t, s, e) ==
    /\ Len(s) \in Nat /\ Len(t) = Len(s) + 1 /\ t[Len(t)] = e
    /\ \A i \in 1 .. Len(s) : t[i] = s[i]

\* What the log of commits and the states between them are appended with.
LEMMA Appended ==
    ASSUME NEW S, NEW s, s \in Seq(S), NEW e, NEW t, t = Append(s, e)
    PROVE  Appends(t, s, e)
<1>1. Len(s) \in Nat /\ Len(t) = Len(s) + 1
  OBVIOUS
<1>2. t[Len(s) + 1] = e /\ \A i \in 1 .. Len(s) : t[i] = s[i]
  OBVIOUS
<1> QED
  BY Zenon, <1>1, <1>2 DEF Appends

\* The steps outside commit_batch leave the store, the mutex and the history
\* alone.
LEMMA HistoryFrame ==
    ASSUME LockInv, SerialHistory,
           UNCHANGED <<disk, stable, lock, overlay, history>>,
           \A w \in Worker : wpc'[w] = "validating" <=> wpc[w] = "validating"
    PROVE  LockInv' /\ SerialHistory'
BY SMTT(30) DEF LockInv, SerialHistory, history

\* Cutting the history and its states back to n entries leaves a serial history
\* of those n.
LEMMA SerialPrefix ==
    ASSUME TypeOK, SerialHistory, NEW n \in Nat, n <= Len(hist),
           hist' = SubSeq(hist, 1, n), states' = SubSeq(states, 1, n + 1),
           committed' = n, disk' = states[n + 1]
    PROVE  /\ SerialHistory'
           /\ Len(hist') = n
           /\ \A i \in 1 .. n + 1 : states'[i] = states[i]
<1>1. hist \in Seq(Entry) /\ states \in Seq([Cells -> Row]) /\ Len(states) = Len(hist) + 1
  BY Zenon DEF TypeOK, SerialHistory
<1>2. Len(hist') = n /\ \A i \in 1 .. n : hist'[i] = hist[i]
  BY Zenon, <1>1, Truncated
<1>3. Len(states') = n + 1 /\ \A i \in 1 .. n + 1 : states'[i] = states[i]
  <2>1. n + 1 \in Nat /\ n + 1 <= Len(states)
    BY <1>1
  <2> QED
    BY Zenon, <1>1, <2>1, Truncated
<1>4. ASSUME NEW i \in 1 .. n
      PROVE  /\ states'[i + 1] = Update(states'[i], hist'[i].writes)
             /\ \A c \in DOMAIN hist'[i].reads \ hist'[i].merged :
                   hist'[i].reads[c] = ReadIn(states'[i], c)
  <2>1. i \in 1 .. Len(hist) /\ i \in 1 .. n + 1 /\ i + 1 \in 1 .. n + 1
    BY <1>1
  <2> QED
    BY <1>2, <1>3, <2>1 DEF SerialHistory
<1> QED
  BY SMTT(30), <1>2, <1>3, <1>4 DEF SerialHistory

\* Every step keeps the history serial and the disk where the mutex says it is.
\* Only validate_and_apply_job extends the history, and only a failed or crashed
\* batch cuts it back.
LEMMA HistoryStep == IInv /\ [Next]_vars => LockInv' /\ SerialHistory'
<1> SUFFICES ASSUME TypeOK, QueueInv, LockInv, SerialHistory, [Next]_vars
             PROVE  LockInv' /\ SerialHistory'
  BY Zenon DEF IInv
<1> USE DEF store, handler, batch, bounds, history, vars
<1>1. CASE \E a \in Artifact : Compile(a)
  BY Zenon, <1>1, HistoryFrame DEF Compile
<1>2. CASE \E r \in Request : Accept(r) \/ ReadCell(r) \/ ReadError(r)
  BY Zenon, <1>2, HistoryFrame DEF Accept, ReadCell, ReadError
<1>3. CASE \E r \in Txs : ExecuteTx(r) \/ Send(r) \/ Disconnect(r) \/ ReceiveReply(r)
  BY Zenon, <1>3, HistoryFrame DEF ExecuteTx, Send, Disconnect, ReceiveReply
<1>4. CASE \E d \in Deploys : ExecuteDeploy(d)
  <2>1. PICK d \in Deploys : ExecuteDeploy(d)
    BY Zenon, <1>4
  <2>2. wpc[d] = "idle"
    BY Zenon, <2>1 DEF ExecuteDeploy, Executed, QueueInv
  <2>3. \A w \in Worker : wpc'[w] = "validating" <=> wpc[w] = "validating"
    BY Zenon, <2>1, <2>2 DEF ExecuteDeploy, TypeOK
  <2> QED
    BY Zenon, <2>1, <2>3, HistoryFrame DEF ExecuteDeploy
<1>5. CASE \E d \in Deploys : DeployReturns(d)
  <2>1. PICK d \in Deploys : DeployReturns(d)
    BY <1>5
  <2>2. \A w \in Worker : wpc'[w] = "validating" <=> wpc[w] = "validating"
    BY Zenon, <2>1 DEF DeployReturns, TypeOK
  <2> QED
    BY Zenon, <2>1, <2>2, HistoryFrame DEF DeployReturns
<1>6. CASE \E q \in Queries : AnswerQuery(q)
  BY Zenon, <1>6, HistoryFrame DEF AnswerQuery
<1>7. CASE Recv \/ Drain \/ Reply
  <2>1. \A w \in Worker : wpc'[w] = "validating" <=> wpc[w] = "validating"
    BY Zenon, <1>7 DEF Recv, Drain, Reply, TypeOK
  <2> QED
    BY Zenon, <1>7, <2>1, HistoryFrame DEF Recv, Drain, Reply
<1>8. CASE \E w \in Worker : Acquire(w)
  <2>1. PICK w \in Worker : Acquire(w)
    BY Zenon, <1>8
  <2>2. /\ w # None /\ lock = None /\ lock' = w /\ overlay'[w] = <<>>
        /\ wpc' = [wpc EXCEPT ![w] = "validating"]
        /\ UNCHANGED <<disk, stable, hist, states, committed, survives>>
    BY Zenon, <2>1, DistinctActors DEF Acquire, TypeOK
  <2>3. states[Len(states)] = disk
    BY Zenon, <2>2 DEF LockInv, SerialHistory
  <2>4. Update(disk, <<>>) = disk
    BY DEF Update, TypeOK
  <2>5. LockInv'
    <3>1. \A v \in Worker : wpc'[v] = "validating" <=> lock' = v
      BY Zenon, <2>2, DistinctActors DEF LockInv, TypeOK
    <3>2. lock' # None /\ states'[Len(states')] = Update(disk', overlay'[lock'])
      BY Zenon, <2>2, <2>3, <2>4
    <3> QED
      BY Zenon, <2>2, <3>1, <3>2 DEF LockInv
  <2>6. SerialHistory'
    BY Zenon, <2>2 DEF SerialHistory
  <2> QED
    BY Zenon, <2>5, <2>6
<1>9. CASE \E w \in Worker : validate_and_apply_job(w)
  <2>1. PICK w \in Worker : validate_and_apply_job(w)
    BY <1>9
  <2> DEFINE r == NextJob(w)
             g == LocalWrites(w, r)
             now == states[Len(states)]
  <2>2. /\ lock = w /\ w # None
        /\ UNCHANGED <<disk, stable, lock, wpc, committed, survives>>
    BY Zenon, <2>1, DistinctActors DEF validate_and_apply_job, LockInv
  <2>3. CASE ~JobApplies(w, r)
    <3>1. UNCHANGED <<overlay, hist, states>>
      BY Zenon, <2>1, <2>3 DEF validate_and_apply_job
    <3> QED
      BY Zenon, <2>2, <3>1, HistoryFrame
  <2>4. CASE JobApplies(w, r)
    <3>1. /\ overlay' = [overlay EXCEPT ![w] = Promote(overlay[w], g)]
          /\ hist' = Append(hist, [req |-> r, reads |-> obs[r], writes |-> g,
                                   merged |-> Mismatched(w, r)])
          /\ states' = Append(states, Update(now, g))
      BY Zenon, <2>1, <2>4 DEF validate_and_apply_job
    <3>2. r \in Request /\ g \in Observation
      BY Zenon, <2>1, <2>4, NextJobComplete, LocalWritesType
    <3>3. now = Update(disk, overlay[w])
      BY Zenon, <2>2 DEF LockInv
    <3> HIDE DEF r, g, now
    <3>4. Update(disk, Promote(overlay[w], g)) = Update(now, g)
      <4>1. disk \in [Cells -> Row] /\ overlay[w] \in Observation
        BY Zenon DEF TypeOK
      <4> QED
        BY Zenon, <3>2, <3>3, <4>1, UpdatePromote
    <3>5. /\ hist \in Seq(Entry) /\ states \in Seq([Cells -> Row])
          /\ Len(hist) \in Nat /\ Len(states) = Len(hist) + 1
      <4>1. hist \in Seq(Entry) /\ states \in Seq([Cells -> Row]) /\ Len(states) = Len(hist) + 1
        BY Zenon DEF TypeOK, SerialHistory
      <4>2. Len(hist) \in Nat
        BY ONLY <4>1
      <4> QED
        BY Zenon, <4>1, <4>2
    <3>6. /\ Len(hist') = Len(hist) + 1 /\ Len(states') = Len(states) + 1
          /\ \A i \in 1 .. Len(hist) : hist'[i] = hist[i]
          /\ \A i \in 1 .. Len(states) : states'[i] = states[i]
          /\ states'[Len(states')] = Update(now, g)
          /\ hist'[Len(hist')].reads = obs[r]
          /\ hist'[Len(hist')].writes = g
          /\ hist'[Len(hist')].merged = Mismatched(w, r)
      <4> DEFINE e == [req |-> r, reads |-> obs[r], writes |-> g, merged |-> Mismatched(w, r)]
      <4>1. e.reads = obs[r] /\ e.writes = g /\ e.merged = Mismatched(w, r)
        OBVIOUS
      <4>2. hist' = Append(hist, e)
        BY Zenon, <3>1
      <4> HIDE DEF e
      <4>3. Appends(hist', hist, e) /\ Appends(states', states, Update(now, g))
        BY Zenon, <3>1, <3>5, <4>2, Appended
      <4> QED
        BY Zenon, <4>1, <4>3 DEF Appends
    <3>7. LockInv'
      <4>1. lock' # None /\ states'[Len(states')] = Update(disk', overlay'[lock'])
        BY ZenonT(40), <2>2, <3>1, <3>4, <3>6 DEF TypeOK
      <4>2. survives + 1 \in 1 .. Len(states)
        BY <3>5 DEF LockInv, SerialHistory, TypeOK
      <4> QED
        BY ZenonT(40), <2>2, <3>6, <4>1, <4>2 DEF LockInv
    <3>8. \A c \in DOMAIN obs[r] \ Mismatched(w, r) : obs[r][c] = ReadIn(now, c)
      <4>1. SUFFICES ASSUME NEW c \in DOMAIN obs[r], c \notin Mismatched(w, r)
                     PROVE  obs[r][c] = ReadIn(now, c)
        OBVIOUS
      <4>2. c \in Cells /\ obs[r][c] \in Value
        BY Zenon, <3>2, ObservationFacts DEF TypeOK
      <4>3. now[c] = Live(w, c)
        BY Zenon, <3>3, <4>2 DEF Update, Live
      <4>4. read_matches(c, Live(w, c), obs[r][c])
        BY Zenon, <4>1 DEF Mismatched
      <4> QED
        BY Zenon, <4>3, <4>4 DEF read_matches, is_default, ReadIn
    <3>9. ASSUME NEW i \in 1 .. Len(hist')
          PROVE  /\ states'[i + 1] = Update(states'[i], hist'[i].writes)
                 /\ \A c \in DOMAIN hist'[i].reads \ hist'[i].merged :
                       hist'[i].reads[c] = ReadIn(states'[i], c)
      <4>1. CASE i \in 1 .. Len(hist)
        <5>1. i \in 1 .. Len(states) /\ i + 1 \in 1 .. Len(states)
          BY <3>5, <4>1
        <5> QED
          BY <3>6, <4>1, <5>1 DEF SerialHistory
      <4>2. CASE i = Len(hist')
        <5>1. i = Len(states) /\ i + 1 = Len(states') /\ i \in 1 .. Len(states)
          BY Zenon, <3>5, <3>6, <4>2
        <5>2. states'[i] = now
          BY Zenon, <3>6, <5>1 DEF now
        <5> QED
          BY Zenon, <3>6, <3>8, <4>2, <5>1, <5>2
      <4> QED
        BY SMTT(30), <3>5, <3>6, <4>1, <4>2
    <3>10. disk' = states'[committed' + 1] /\ committed' <= Len(hist')
      <4>1. committed + 1 \in 1 .. Len(states) /\ committed <= Len(hist)
        BY <3>5 DEF SerialHistory, TypeOK
      <4>2. disk' = states'[committed + 1]
        BY Zenon, <2>2, <3>6, <4>1 DEF SerialHistory
      <4>3. committed \in Nat
        BY ZenonT(40) DEF TypeOK
      <4>4. committed <= Len(hist')
        BY <3>5, <3>6, <4>1, <4>3
      <4> QED
        BY ZenonT(40), <2>2, <4>2, <4>4
    <3>11. SerialHistory'
      BY Zenon, <3>5, <3>6, <3>9, <3>10 DEF SerialHistory
    <3> QED
      BY <3>7, <3>11
  <2> QED
    BY Zenon, <2>3, <2>4
<1>10. CASE \E w \in Worker : WriteBatch(w)
  <2>1. PICK w \in Worker : WriteBatch(w)
    BY <1>10
  <2>2. /\ lock = w /\ w # None /\ lock' = None
        /\ wpc' = [wpc EXCEPT ![w] = "ok"]
        /\ disk' = states[Len(states)] /\ committed' = Len(hist)
        /\ UNCHANGED <<hist, states>>
    BY ZenonT(40), <2>1, DistinctActors DEF WriteBatch, LockInv
  <2>3. /\ hist \in Seq(Entry) /\ Len(hist) \in Nat /\ Len(states) = Len(hist) + 1
        /\ committed <= Len(hist)
    BY SMTT(30) DEF TypeOK, SerialHistory
  <2>4. SerialHistory'
    BY <2>2, <2>3 DEF SerialHistory
  <2>5. survives' <= committed' /\ stable' = states[survives' + 1]
    <3>1. CASE Durable
      <4>1. stable' = disk' /\ survives' = Len(hist)
        BY ZenonT(40), <2>1, <3>1 DEF WriteBatch
      <4>2. survives' <= committed' /\ survives' + 1 = Len(states)
        BY ONLY SMTT(30), <2>2, <2>3, <4>1
      <4> QED
        BY ZenonT(40), <2>2, <4>1, <4>2
    <3>2. CASE ~Durable
      <4>1. survives' = survives /\ stable' = stable
        BY ZenonT(40), <2>1, <3>2 DEF WriteBatch
      <4>2. survives <= committed /\ stable = states[survives + 1]
        BY ZenonT(40) DEF LockInv
      <4>3. survives \in Nat /\ committed \in Nat
        BY ZenonT(40) DEF TypeOK
      <4>4. survives <= committed'
        BY ONLY SMTT(30), <2>2, <2>3, <4>2, <4>3
      <4> QED
        BY ZenonT(40), <4>1, <4>2, <4>4, <2>2
    <3> QED
      BY ZenonT(40), <3>1, <3>2
  <2>6. \A v \in Worker : wpc'[v] = "validating" <=> lock' = v
    BY Zenon, <2>2, DistinctActors DEF LockInv, TypeOK
  <2> QED
    BY Zenon, <2>2, <2>4, <2>5, <2>6 DEF LockInv
<1>11. CASE \E w \in Worker : CommitError(w)
  <2>1. PICK w \in Worker : CommitError(w)
    BY <1>11
  <2>2. /\ lock = w /\ w # None /\ lock' = None
        /\ wpc' = [wpc EXCEPT ![w] = "err"]
        /\ hist' = SubSeq(hist, 1, committed)
        /\ states' = SubSeq(states, 1, committed + 1)
        /\ UNCHANGED <<disk, stable, committed, survives>>
    BY Zenon, <2>1, DistinctActors DEF CommitError, LockInv
  <2>3. committed \in Nat /\ committed <= Len(hist) /\ disk = states[committed + 1]
    BY Zenon DEF TypeOK, SerialHistory
  <2>4. /\ SerialHistory' /\ Len(hist') = committed
        /\ \A i \in 1 .. committed + 1 : states'[i] = states[i]
    BY Zenon, <2>2, <2>3, SerialPrefix
  <2>5. survives + 1 \in 1 .. committed + 1
    BY <2>3 DEF LockInv, TypeOK
  <2>6. \A v \in Worker : wpc'[v] = "validating" <=> lock' = v
    BY Zenon, <2>2, DistinctActors DEF LockInv, TypeOK
  <2>7. LockInv'
    BY Zenon, <2>2, <2>4, <2>5, <2>6 DEF LockInv
  <2> QED
    BY Zenon, <2>4, <2>7
<1>12. CASE Flush
  <2>1. SerialHistory'
    BY Zenon, <1>12 DEF Flush, SerialHistory
  <2>2. LockInv'
    <3>1. /\ stable' = disk /\ survives' = committed
          /\ UNCHANGED <<disk, lock, wpc, overlay, hist, states, committed>>
      BY Zenon, <1>12 DEF Flush
    <3>2. committed \in Nat /\ disk = states[committed + 1]
      BY Zenon DEF TypeOK, SerialHistory
    <3> QED
      BY <3>1, <3>2 DEF LockInv
  <2> QED
    BY Zenon, <2>1, <2>2
<1>13. CASE Crash
  <2>1. /\ lock' = None /\ wpc' = [w \in Worker |-> "idle"]
        /\ disk' = stable /\ committed' = survives
        /\ hist' = SubSeq(hist, 1, survives)
        /\ states' = SubSeq(states, 1, survives + 1)
        /\ UNCHANGED <<stable, survives>>
    BY ZenonT(40), <1>13 DEF Crash
  <2>2. survives \in Nat /\ survives <= Len(hist) /\ stable = states[survives + 1]
    BY DEF TypeOK, SerialHistory, LockInv
  <2>3. /\ SerialHistory' /\ Len(hist') = survives
        /\ \A i \in 1 .. survives + 1 : states'[i] = states[i]
    BY Zenon, <2>1, <2>2, SerialPrefix
  <2>4. survives + 1 \in 1 .. survives + 1
    BY <2>2
  <2>5. LockInv'
    BY <2>1, <2>2, <2>3, <2>4, DistinctActors DEF LockInv
  <2> QED
    BY Zenon, <2>3, <2>5
<1>14. CASE Idle \/ UNCHANGED vars
  BY Zenon, <1>14, HistoryFrame DEF Idle
<1> QED
  BY Zenon, <1>1, <1>2, <1>3, <1>4, <1>5, <1>6, <1>7, <1>8, <1>9, <1>10, <1>11, <1>12, <1>13, <1>14
     DEF Next

-----------------------------------------------------------------------------
\* Every variable keeps its type: in particular a re-executed request never
\* counts past COMMIT_MAX_ATTEMPTS, and a merged map root is a value of its cell.
THEOREM TypeCorrect == Spec => []TypeOK
<1>1. IInv /\ [Next]_vars => IInv'
  BY Zenon, TypeStep, QueueStep, HistoryStep DEF IInv
<1> QED
  BY <1>1, InitInv, PTL DEF Spec, IInv

\* The commit pipeline is serializable but for merged map cells: the jobs
\* commit_batch applied form a serial history that explains the disk, for every
\* set of requests and programs, every batch size, and any crashes and errors.
THEOREM Serializable == Spec => []SerialHistory
<1>1. IInv /\ [Next]_vars => IInv'
  BY TypeStep, QueueStep, HistoryStep DEF IInv
<1> QED
  BY <1>1, InitInv, PTL DEF Spec, IInv
=============================================================================
