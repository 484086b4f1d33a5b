--------------------------- MODULE GroupCommitOnce ---------------------------
(***************************************************************************)
(* A request takes effect at most once, and none is forgotten, for every   *)
(* value of the constants.                                                 *)
(***************************************************************************)
EXTENDS GroupCommitProofs

\* The requests whose writes are on disk.
Applied == {hist[i].req : i \in 1 .. committed}

\* Handlers whose request has no job in flight and has not committed.
Unapplied == {"idle", "executing", "sending", "replyConflict", "conflict409",
              "rejected422", "notfound", "error500", "noop", "answered"}

\* The part of the history that is not on disk is made of the jobs the lock
\* holder has accepted, each once.
HistOnce ==
    /\ \A i, j \in 1 .. Len(hist) : hist[i].req = hist[j].req => i = j
    /\ \A i \in 1 .. Len(hist) : i > committed =>
          /\ lock \in Worker
          /\ \E k \in DOMAIN outcomes[lock] :
                outcomes[lock][k] = "Committed" /\ jobs[lock][k] = hist[i].req
    /\ \A w \in Worker : wpc[w] = "validating" =>
          /\ Len(outcomes[w]) <= Len(jobs[w])
          /\ \A k \in DOMAIN outcomes[w] : outcomes[w][k] = "Committed" =>
                \E i \in 1 .. Len(hist) : hist[i].req = jobs[w][k]
    /\ Durable => survives = committed

\* No job in flight is on disk before its batch is written; then exactly those
\* are that commit_batch reports as committed.
JobOnce ==
    /\ \A i \in DOMAIN channel : channel[i] \notin Applied
    /\ \A w \in Worker : wpc[w] \notin {"idle", "ok"} =>
          \A i \in DOMAIN jobs[w] : jobs[w][i] \notin Applied
    /\ \A w \in Worker : wpc[w] = "ok" =>
          /\ DOMAIN outcomes[w] = DOMAIN jobs[w]
          /\ \A i \in DOMAIN jobs[w] : (outcomes[w][i] = "Committed") <=> (jobs[w][i] \in Applied)

\* What a handler has been told is so.
ReplyOnce ==
    \A r \in Request :
        /\ pc[r] \in Unapplied => r \notin Applied
        /\ pc[r] = "replyCommitted" => r \in Applied
        /\ pc[r] = "committed" => r \in Applied \/ (~Durable /\ crashes > 0)

OnceInv == HistOnce /\ JobOnce /\ ReplyOnce

-----------------------------------------------------------------------------
(***************************************************************************)
(* What steps leave alone.                                                 *)
(***************************************************************************)

\* The disk shows the same requests as long as the written history is the same.
LEMMA SameApplied ==
    ASSUME UNCHANGED <<hist, committed>>
    PROVE  Applied' = Applied
BY Zenon DEF Applied

\* Only the lock holder's batch matters to the history.
LEMMA HistFrame ==
    ASSUME LockInv, HistOnce, UNCHANGED <<hist, committed, survives, lock>>,
           \A w \in Worker : wpc'[w] = "validating" => wpc[w] = "validating",
           \A w \in Worker : wpc[w] = "validating" =>
               jobs'[w] = jobs[w] /\ outcomes'[w] = outcomes[w]
    PROVE  HistOnce'
<1>1. lock \in Worker => jobs'[lock] = jobs[lock] /\ outcomes'[lock] = outcomes[lock]
  BY Zenon DEF LockInv
<1>2. \A i \in 1 .. Len(hist) : i > committed =>
          /\ lock \in Worker
          /\ \E k \in DOMAIN outcomes'[lock] :
                outcomes'[lock][k] = "Committed" /\ jobs'[lock][k] = hist[i].req
  BY <1>1 DEF HistOnce
<1>3. \A w \in Worker : wpc'[w] = "validating" =>
          /\ Len(outcomes'[w]) <= Len(jobs'[w])
          /\ \A k \in DOMAIN outcomes'[w] : outcomes'[w][k] = "Committed" =>
                \E i \in 1 .. Len(hist) : hist[i].req = jobs'[w][k]
  BY DEF HistOnce
<1> QED
  BY <1>2, <1>3 DEF HistOnce

\* Jobs that move, while no batch is written.
LEMMA JobMoves ==
    ASSUME JobOnce, Applied' = Applied,
           \A i \in DOMAIN channel' : channel'[i] \notin Applied,
           \A w \in Worker : wpc'[w] \notin {"idle", "ok"} =>
               \A i \in DOMAIN jobs'[w] : jobs'[w][i] \notin Applied,
           \A w \in Worker : wpc'[w] = "ok" =>
               wpc[w] = "ok" /\ jobs'[w] = jobs[w] /\ outcomes'[w] = outcomes[w]
    PROVE  JobOnce'
<1>1. \A w \in Worker : wpc'[w] = "ok" =>
          /\ DOMAIN outcomes'[w] = DOMAIN jobs'[w]
          /\ \A i \in DOMAIN jobs'[w] : (outcomes'[w][i] = "Committed") <=> (jobs'[w][i] \in Applied)
  <2> TAKE w \in Worker
  <2> HAVE wpc'[w] = "ok"
  <2>1. jobs'[w] = jobs[w] /\ wpc[w] = "ok" /\ outcomes'[w] = outcomes[w]
    BY Zenon
  <2>2. /\ DOMAIN outcomes[w] = DOMAIN jobs[w]
        /\ \A i \in DOMAIN jobs[w] : (outcomes[w][i] = "Committed") <=> (jobs[w][i] \in Applied)
    BY Zenon, <2>1 DEF JobOnce
  <2> QED
    BY Zenon, <2>1, <2>2
<1> QED
  BY Zenon, <1>1 DEF JobOnce

\* A batch that is not written and not changed keeps its standing.
LEMMA JobFrame ==
    ASSUME JobOnce, Applied' = Applied, channel' = channel,
           \A w \in Worker :
               \/ wpc'[w] = "idle"
               \/ /\ jobs'[w] = jobs[w]
                  /\ \/ wpc'[w] = wpc[w] /\ outcomes'[w] = outcomes[w]
                     \/ wpc[w] \notin {"idle", "ok"} /\ wpc'[w] # "ok"
    PROVE  JobOnce'
<1>1. \A i \in DOMAIN channel' : channel'[i] \notin Applied
  BY Zenon DEF JobOnce
<1>2. \A w \in Worker : wpc'[w] \notin {"idle", "ok"} =>
          \A i \in DOMAIN jobs'[w] : jobs'[w][i] \notin Applied
  BY Zenon DEF JobOnce
<1>3. \A w \in Worker : wpc'[w] = "ok" =>
          wpc[w] = "ok" /\ jobs'[w] = jobs[w] /\ outcomes'[w] = outcomes[w]
  BY Zenon
<1> QED
  BY Zenon, <1>1, <1>2, <1>3, JobMoves

\* A handler that moves on without a verdict.
LEMMA ReplyFrame ==
    ASSUME ReplyOnce, Applied' = Applied, crashes' = crashes,
           \A r \in Request :
               \/ pc'[r] = pc[r]
               \/ pc[r] \in Unapplied /\ pc'[r] \notin {"replyCommitted", "committed"}
               \/ pc[r] = "replyCommitted" /\ pc'[r] = "committed"
               \/ pc'[r] = "disconnected"
    PROVE  ReplyOnce'
<1>2. "disconnected" \notin Unapplied /\ "committed" \notin Unapplied
  BY DEF Unapplied
<1>3. \A r \in Request :
        /\ pc'[r] \in Unapplied => r \notin Applied
        /\ pc'[r] = "replyCommitted" => r \in Applied
        /\ pc'[r] = "committed" => r \in Applied \/ (~Durable /\ crashes' > 0)
  BY Zenon, <1>2 DEF ReplyOnce
<1> QED
  BY Zenon, <1>3 DEF ReplyOnce

\* A fresh namespace.
LEMMA OnceInit == Init => OnceInv
<1> SUFFICES ASSUME Init PROVE OnceInv
  OBVIOUS
<1>1. HistOnce
  BY DEF Init, HistOnce
<1>2. Applied = {}
  BY DEF Init, Applied
<1>3. JobOnce
  BY <1>2 DEF Init, JobOnce, Worker
<1>4. ReplyOnce
  BY <1>2 DEF Init, ReplyOnce
<1> QED
  BY Zenon, <1>1, <1>3, <1>4 DEF OnceInv

\* The jobs of a batch are different requests.
LEMMA BatchDistinct ==
    ASSUME TypeOK, QueueInv, UniqueJobs, NEW w \in Worker, wpc[w] # "idle",
           NEW i \in DOMAIN jobs[w], NEW j \in DOMAIN jobs[w], jobs[w][i] = jobs[w][j]
    PROVE  i = j
<1>1. CASE w = Committer
  BY Zenon, <1>1 DEF UniqueJobs
<1>2. CASE w \in Deploys
  <2>1. jobs[w] = <<w>>
    BY Zenon, <1>2 DEF QueueInv
  <2> QED
    BY <2>1
<1> QED
  BY Zenon, <1>1, <1>2 DEF Worker

\* Two batches have no request in common.
LEMMA BatchesDisjoint ==
    ASSUME TypeOK, QueueInv, NEW v \in Worker, NEW w \in Worker, v # w,
           wpc[v] # "idle", wpc[w] # "idle",
           NEW i \in DOMAIN jobs[v], NEW j \in DOMAIN jobs[w]
    PROVE  jobs[v][i] # jobs[w][j]
<1>1. ASSUME NEW d \in Deploys, wpc[d] # "idle", NEW k \in DOMAIN jobs[d]
      PROVE  jobs[d][k] = d
  <2>1. jobs[d] = <<d>>
    BY Zenon, <1>1 DEF QueueInv
  <2> QED
    BY <1>1, <2>1
<1>2. ASSUME NEW k \in DOMAIN jobs[Committer]
      PROVE  jobs[Committer][k] \in Txs
  BY <1>2 DEF QueueInv
<1>3. Txs \cap Deploys = {}
  BY Zenon, DistinctActors
<1>4. CASE v = Committer
  <2>1. w \in Deploys
    BY Zenon, <1>4 DEF Worker
  <2>2. jobs[w][j] = w
    BY Zenon, <1>1, <2>1
  <2>3. jobs[v][i] \in Txs
    BY Zenon, <1>2, <1>4
  <2> QED
    BY Zenon, <1>3, <2>1, <2>2, <2>3
<1>5. CASE v \in Deploys
  <2>1. jobs[v][i] = v
    BY Zenon, <1>1, <1>5
  <2>2. CASE w = Committer
    <3>1. jobs[w][j] \in Txs
      BY Zenon, <1>2, <2>2
    <3> QED
      BY Zenon, <1>3, <1>5, <2>1, <3>1
  <2>3. CASE w \in Deploys
    <3>1. jobs[w][j] = w
      BY Zenon, <1>1, <2>3
    <3> QED
      BY Zenon, <2>1, <3>1
  <2> QED
    BY Zenon, <2>2, <2>3 DEF Worker
<1> QED
  BY Zenon, <1>4, <1>5 DEF Worker

\* No request of a batch is still in the channel.
LEMMA ChannelDisjoint ==
    ASSUME TypeOK, QueueInv, UniqueJobs, NEW w \in Worker, wpc[w] # "idle",
           NEW i \in DOMAIN jobs[w], NEW j \in DOMAIN channel
    PROVE  jobs[w][i] # channel[j]
<1>1. CASE w = Committer
  BY Zenon, <1>1 DEF UniqueJobs
<1>2. CASE w \in Deploys
  <2>1. jobs[w] = <<w>>
    BY Zenon, <1>2 DEF QueueInv
  <2>2. jobs[w][i] = w
    BY <2>1
  <2>3. channel[j] \in Txs
    BY DEF TypeOK
  <2> QED
    BY Zenon, <1>2, <2>2, <2>3, DistinctActors
<1> QED
  BY Zenon, <1>1, <1>2 DEF Worker

-----------------------------------------------------------------------------
(***************************************************************************)
(* The steps of commit_batch and of crashes.                               *)
(***************************************************************************)

\* Accepting a job extends the history by a request that is not in it.
LEMMA OnceValidate ==
    ASSUME IInv, OnceInv, NEW w \in Worker, validate_and_apply_job(w)
    PROVE  OnceInv'
<1> USE DEF store, handler, batch, bounds, history, vars
<1> DEFINE n == Len(outcomes[w]) + 1
           r == jobs[w][n]
<1>0. TypeOK /\ QueueInv /\ UniqueJobs /\ LockInv /\ SerialHistory /\ HistOnce /\ JobOnce /\ ReplyOnce
  BY Zenon DEF IInv, OnceInv
<1>1. /\ wpc[w] = "validating" /\ lock = w
      /\ UNCHANGED <<lock, wpc, jobs, channel, pc, committed, survives, crashes>>
  BY Zenon, <1>0 DEF validate_and_apply_job, LockInv
<1>2. /\ jobs[w] \in Seq(Request) /\ outcomes[w] \in Seq({"Committed", "Conflict"})
      /\ hist \in Seq(Entry) /\ committed \in Nat /\ committed <= Len(hist)
  BY Zenon, <1>0 DEF TypeOK, SerialHistory
<1>3. n \in DOMAIN jobs[w] /\ \A k \in DOMAIN outcomes[w] : k \in DOMAIN jobs[w] /\ k # n
  <2>1. Len(outcomes[w]) < Len(jobs[w])
    BY Zenon DEF validate_and_apply_job
  <2> QED
    BY <1>2, <2>1
<1>4. \A v \in Worker : wpc[v] = "validating" => v = w
  BY Zenon, <1>0, <1>1 DEF LockInv
<1>5. CASE JobApplies(w, r)
  <2> DEFINE e == [req |-> r, reads |-> obs[r], writes |-> LocalWrites(w, r),
                   merged |-> Mismatched(w, r)]
  <2>1. /\ outcomes' = [outcomes EXCEPT ![w] = Append(outcomes[w], "Committed")]
        /\ hist' = Append(hist, e)
    BY Zenon, <1>5 DEF validate_and_apply_job, NextJob
  <2>2. /\ outcomes'[w] = Append(outcomes[w], "Committed")
        /\ \A v \in Worker : v # w => outcomes'[v] = outcomes[v]
    BY Zenon, <1>0, <2>1 DEF TypeOK
  <2>3. e.req = r
    OBVIOUS
  <2> HIDE DEF e
  <2>4. /\ Len(hist') = Len(hist) + 1 /\ hist'[Len(hist) + 1].req = r
        /\ \A i \in 1 .. Len(hist) : hist'[i] = hist[i]
    BY <1>2, <2>1, <2>3
  <2>5. /\ Len(outcomes'[w]) = n /\ outcomes'[w][n] = "Committed"
        /\ DOMAIN outcomes'[w] = DOMAIN outcomes[w] \cup {n}
        /\ \A k \in DOMAIN outcomes[w] : outcomes'[w][k] = outcomes[w][k]
    BY <1>2, <2>2
  <2>6. \A i \in 1 .. Len(hist) : hist[i].req # r
    <3> SUFFICES ASSUME NEW i \in 1 .. Len(hist), hist[i].req = r PROVE FALSE
      OBVIOUS
    <3>1. CASE i \in 1 .. committed
      <4>1. wpc[w] \notin {"idle", "ok"}
        BY <1>1
      <4>2. r \notin Applied
        <5> HIDE DEF n
        <5> QED
          BY <1>0, <1>3, <4>1 DEF JobOnce
      <4> QED
        BY Zenon, <3>1, <4>2 DEF Applied
    <3>2. CASE i > committed
      <4>1. PICK k \in DOMAIN outcomes[w] : jobs[w][k] = hist[i].req
        BY Zenon, <1>0, <1>1, <3>2 DEF HistOnce
      <4>2. wpc[w] # "idle" /\ k \in DOMAIN jobs[w] /\ k # n
        BY <1>1, <1>3
      <4> QED
        BY Zenon, <1>0, <1>3, <4>1, <4>2, BatchDistinct
    <3> QED
      BY <1>2, <3>1, <3>2
  <2> HIDE DEF n, r
  <2>7. Applied' = Applied
    <3>1. \A i \in 1 .. committed : hist'[i] = hist[i]
      BY <1>2, <2>4
    <3> QED
      BY Zenon, <1>1, <3>1 DEF Applied
  <2>8. \A i, j \in 1 .. Len(hist') : hist'[i].req = hist'[j].req => i = j
    <3>1. \A i \in 1 .. Len(hist') : i \in 1 .. Len(hist) \/ i = Len(hist) + 1
      BY <1>2, <2>4
    <3>2. \A i, j \in 1 .. Len(hist) : hist[i].req = hist[j].req => i = j
      BY Zenon, <1>0 DEF HistOnce
    <3> QED
      BY Zenon, <2>4, <2>6, <3>1, <3>2
  <2>9. ASSUME NEW i \in 1 .. Len(hist'), i > committed
        PROVE  \E k \in DOMAIN outcomes'[w] :
                  outcomes'[w][k] = "Committed" /\ jobs[w][k] = hist'[i].req
    <3>1. CASE i \in 1 .. Len(hist)
      <4>1. PICK k \in DOMAIN outcomes[w] :
               outcomes[w][k] = "Committed" /\ jobs[w][k] = hist[i].req
        BY Zenon, <1>0, <1>1, <2>9, <3>1 DEF HistOnce
      <4> QED
        BY Zenon, <2>4, <2>5, <3>1, <4>1
    <3>2. CASE i = Len(hist) + 1
      BY Zenon, <2>4, <2>5, <3>2 DEF r
    <3> QED
      BY <1>2, <2>4, <3>1, <3>2
  <2>10. Len(outcomes'[w]) <= Len(jobs[w])
    BY <1>2, <1>3, <2>5 DEF n
  <2>11. ASSUME NEW k \in DOMAIN outcomes'[w], outcomes'[w][k] = "Committed"
         PROVE  \E i \in 1 .. Len(hist') : hist'[i].req = jobs[w][k]
    <3>2. Len(hist) + 1 \in 1 .. Len(hist') /\ \A i \in 1 .. Len(hist) : i \in 1 .. Len(hist')
      BY <1>2, <2>4
    <3>3. CASE k = n
      BY Zenon, <2>4, <3>2, <3>3 DEF r
    <3>4. CASE k \in DOMAIN outcomes[w]
      <4>1. PICK i \in 1 .. Len(hist) : hist[i].req = jobs[w][k]
        BY <1>0, <1>1, <2>5, <2>11, <3>4 DEF HistOnce
      <4> QED
        BY Zenon, <2>4, <3>2, <4>1
    <3> QED
      BY Zenon, <2>5, <3>3, <3>4
  <2>12. HistOnce'
    BY SMTT(30), <1>0, <1>1, <1>4, <2>8, <2>9, <2>10, <2>11 DEF HistOnce
  <2>13. JobOnce'
    BY Zenon, <1>0, <1>1, <1>4, <2>2, <2>7, JobFrame
  <2>14. ReplyOnce'
    BY Zenon, <1>0, <1>1, <2>7, ReplyFrame
  <2> QED
    BY Zenon, <2>12, <2>13, <2>14 DEF OnceInv
<1>6. CASE ~JobApplies(w, r)
  <2>1. /\ outcomes' = [outcomes EXCEPT ![w] = Append(outcomes[w], "Conflict")]
        /\ hist' = hist
    BY Zenon, <1>6 DEF validate_and_apply_job, NextJob
  <2>2. /\ outcomes'[w] = Append(outcomes[w], "Conflict")
        /\ \A v \in Worker : v # w => outcomes'[v] = outcomes[v]
    BY Zenon, <1>0, <2>1 DEF TypeOK
  <2>3. /\ Len(outcomes'[w]) = n /\ outcomes'[w][n] = "Conflict"
        /\ DOMAIN outcomes'[w] = DOMAIN outcomes[w] \cup {n}
        /\ \A k \in DOMAIN outcomes[w] : outcomes'[w][k] = outcomes[w][k]
    BY <1>2, <2>2
  <2>4. Len(outcomes'[w]) <= Len(jobs[w])
    BY <1>2, <1>3, <2>3
  <2> HIDE DEF n, r
  <2>5. Applied' = Applied
    BY Zenon, <1>1, <2>1, SameApplied
  <2>6. HistOnce'
    BY SMTT(30), <1>0, <1>1, <1>4, <2>1, <2>3, <2>4 DEF HistOnce
  <2>7. JobOnce'
    BY ZenonT(40), <1>0, <1>1, <1>4, <2>2, <2>5, JobFrame
  <2>8. ReplyOnce'
    BY Zenon, <1>0, <1>1, <2>5, ReplyFrame
  <2> QED
    BY Zenon, <2>6, <2>7, <2>8 DEF OnceInv
<1> QED
  BY Zenon, <1>5, <1>6

\* Writing the batch puts the jobs that were accepted on disk, and no other.
LEMMA OnceWrite ==
    ASSUME IInv, OnceInv, NEW w \in Worker, WriteBatch(w)
    PROVE  OnceInv'
<1> USE DEF store, handler, batch, bounds, history, vars
<1>0. TypeOK /\ QueueInv /\ UniqueJobs /\ LockInv /\ SerialHistory /\ HistOnce /\ JobOnce /\ ReplyOnce
  BY Zenon DEF IInv, OnceInv
<1>1. /\ wpc[w] = "validating" /\ lock = w /\ Len(outcomes[w]) = Len(jobs[w])
      /\ wpc' = [wpc EXCEPT ![w] = "ok"]
      /\ committed' = Len(hist) /\ (Durable => survives' = Len(hist))
      /\ UNCHANGED <<jobs, outcomes, channel, pc, hist, crashes>>
  BY Zenon, <1>0 DEF WriteBatch, LockInv
<1>2. /\ jobs[w] \in Seq(Request) /\ outcomes[w] \in Seq({"Committed", "Conflict"})
      /\ hist \in Seq(Entry) /\ committed \in Nat /\ committed <= Len(hist)
  BY Zenon, <1>0 DEF TypeOK, SerialHistory
<1>3. DOMAIN outcomes[w] = DOMAIN jobs[w]
  BY <1>1, <1>2
<1>4. wpc'[w] = "ok" /\ \A v \in Worker : v # w => wpc'[v] = wpc[v] /\ wpc[v] # "validating"
  BY Zenon, <1>0, <1>1 DEF TypeOK, LockInv
<1>5. wpc[w] # "idle" /\ wpc[w] \notin {"idle", "ok"}
  BY <1>1
<1>6. Applied \subseteq Applied'
  <2>1. \A i \in 1 .. committed : i \in 1 .. Len(hist)
    BY <1>2
  <2> QED
    BY Zenon, <1>1, <2>1 DEF Applied
<1>7. \A r \in Applied' : r \in Applied \/ \E k \in DOMAIN jobs[w] :
                                             outcomes[w][k] = "Committed" /\ jobs[w][k] = r
  <2>1. SUFFICES ASSUME NEW i \in 1 .. Len(hist), hist[i].req \notin Applied
                 PROVE  \E k \in DOMAIN jobs[w] :
                           outcomes[w][k] = "Committed" /\ jobs[w][k] = hist[i].req
    BY Zenon, <1>1 DEF Applied
  <2>2. i \notin 1 .. committed
    BY Zenon, <2>1 DEF Applied
  <2>3. i > committed
    BY <1>2, <2>2
  <2> QED
    BY Zenon, <1>0, <1>1, <1>3, <2>3 DEF HistOnce
<1>8. \A k \in DOMAIN jobs[w] : outcomes[w][k] = "Committed" => jobs[w][k] \in Applied'
  <2>1. SUFFICES ASSUME NEW k \in DOMAIN jobs[w], outcomes[w][k] = "Committed"
                 PROVE  jobs[w][k] \in Applied'
    BY Zenon
  <2>2. PICK i \in 1 .. Len(hist) : hist[i].req = jobs[w][k]
    BY <1>0, <1>1, <1>3, <2>1 DEF HistOnce
  <2> QED
    BY Zenon, <1>1, <2>2 DEF Applied
<1>9. HistOnce'
  <2>1. \A i \in 1 .. Len(hist') : ~(i > committed')
    BY <1>1, <1>2
  <2>2. \A v \in Worker : wpc'[v] # "validating"
    BY <1>4
  <2>3. \A i, j \in 1 .. Len(hist') : hist'[i].req = hist'[j].req => i = j
    BY Zenon, <1>0, <1>1 DEF HistOnce
  <2> QED
    BY Zenon, <1>1, <2>1, <2>2, <2>3 DEF HistOnce
<1>10. JobOnce'
  <2>1. ASSUME NEW i \in DOMAIN channel PROVE channel[i] \notin Applied'
    <3>1. channel[i] \notin Applied
      BY Zenon, <1>0 DEF JobOnce
    <3>2. \A k \in DOMAIN jobs[w] : jobs[w][k] # channel[i]
      BY Zenon, <1>0, <1>5, ChannelDisjoint
    <3> QED
      BY Zenon, <1>7, <3>1, <3>2
  <2>2. ASSUME NEW v \in Worker, v # w, wpc[v] # "idle", NEW i \in DOMAIN jobs[v]
        PROVE  jobs[v][i] \in Applied' <=> jobs[v][i] \in Applied
    <3>1. \A k \in DOMAIN jobs[w] : jobs[w][k] # jobs[v][i]
      BY Zenon, <1>0, <1>5, <2>2, BatchesDisjoint
    <3> QED
      BY Zenon, <1>6, <1>7, <3>1
  <2>3. ASSUME NEW i \in DOMAIN jobs[w]
        PROVE  (outcomes[w][i] = "Committed") <=> (jobs[w][i] \in Applied')
    <3>1. CASE outcomes[w][i] = "Committed"
      BY Zenon, <1>8, <3>1
    <3>2. CASE outcomes[w][i] # "Committed"
      <4>1. jobs[w][i] \notin Applied
        BY Zenon, <1>0, <1>5 DEF JobOnce
      <4>2. \A k \in DOMAIN jobs[w] : jobs[w][k] = jobs[w][i] => k = i
        BY Zenon, <1>0, <1>5, BatchDistinct
      <4> QED
        BY ZenonT(30), <1>7, <3>2, <4>1, <4>2
    <3> QED
      BY Zenon, <3>1, <3>2
  <2>4. \A v \in Worker : wpc'[v] \notin {"idle", "ok"} =>
           \A i \in DOMAIN jobs[v] : jobs[v][i] \notin Applied'
    <3> TAKE v \in Worker
    <3> HAVE wpc'[v] \notin {"idle", "ok"}
    <3>1. v # w /\ wpc[v] \notin {"idle", "ok"}
      BY <1>4
    <3>2. \A i \in DOMAIN jobs[v] : jobs[v][i] \notin Applied
      BY Zenon, <1>0, <3>1 DEF JobOnce
    <3> QED
      BY <2>2, <3>1, <3>2
  <2>5. \A v \in Worker : wpc'[v] = "ok" =>
          /\ DOMAIN outcomes[v] = DOMAIN jobs[v]
          /\ \A i \in DOMAIN jobs[v] : (outcomes[v][i] = "Committed") <=> (jobs[v][i] \in Applied')
    <3> TAKE v \in Worker
    <3> HAVE wpc'[v] = "ok"
    <3>1. CASE v = w
      BY Zenon, <1>3, <2>3, <3>1
    <3>2. CASE v # w
      <4>1. wpc[v] = "ok" /\ wpc[v] # "idle"
        BY <1>4, <3>2
      <4>2. /\ DOMAIN outcomes[v] = DOMAIN jobs[v]
            /\ \A i \in DOMAIN jobs[v] : (outcomes[v][i] = "Committed") <=> (jobs[v][i] \in Applied)
        BY Zenon, <1>0, <4>1 DEF JobOnce
      <4> QED
        BY Zenon, <2>2, <3>2, <4>1, <4>2
    <3> QED
      BY Zenon, <3>1, <3>2
  <2> QED
    BY Zenon, <1>1, <2>1, <2>4, <2>5 DEF JobOnce
<1>11. ReplyOnce'
  <2>1. ASSUME NEW r \in Request, pc[r] \in Unapplied PROVE r \notin Applied'
    <3>1. r \notin Applied
      BY Zenon, <1>0, <2>1 DEF ReplyOnce
    <3>2. \A k \in DOMAIN jobs[w] : pc[jobs[w][k]] \in Handed
      BY Zenon, <1>0, <1>5 DEF QueueInv, Ready
    <3>3. pc[r] \notin Handed
      BY <2>1 DEF Unapplied, Handed
    <3> QED
      BY Zenon, <1>7, <3>1, <3>2, <3>3
  <2> QED
    BY Zenon, <1>0, <1>1, <1>6, <2>1 DEF ReplyOnce
<1> QED
  BY Zenon, <1>9, <1>10, <1>11 DEF OnceInv

\* A history that is cut back still has every request at most once.
LEMMA OnceTruncated ==
    ASSUME TypeOK, HistOnce, NEW n \in Nat, n <= Len(hist), hist' = SubSeq(hist, 1, n)
    PROVE  /\ Len(hist') = n /\ \A i \in 1 .. n : hist'[i] = hist[i]
           /\ \A i, j \in 1 .. Len(hist') : hist'[i].req = hist'[j].req => i = j
<1>1. Len(hist') = n /\ \A i \in 1 .. n : hist'[i] = hist[i]
  BY Zenon, Truncated DEF TypeOK
<1>2. \A i \in 1 .. n : i \in 1 .. Len(hist)
  BY DEF TypeOK
<1>3. \A i, j \in 1 .. Len(hist) : hist[i].req = hist[j].req => i = j
  BY Zenon DEF HistOnce
<1>4. \A i, j \in 1 .. n : hist'[i].req = hist'[j].req => i = j
  <2> TAKE i, j \in 1 .. n
  <2>1. hist'[i] = hist[i] /\ hist'[j] = hist[j] /\ i \in 1 .. Len(hist) /\ j \in 1 .. Len(hist)
    BY Zenon, <1>1, <1>2
  <2> QED
    BY Zenon, <1>3, <2>1
<1> QED
  BY Zenon, <1>1, <1>4

\* A batch that fails leaves the disk, and so every verdict, as it was.
LEMMA OnceError ==
    ASSUME IInv, OnceInv, NEW w \in Worker, CommitError(w)
    PROVE  OnceInv'
<1> USE DEF store, handler, batch, bounds, history, vars
<1>0. TypeOK /\ LockInv /\ SerialHistory /\ HistOnce /\ JobOnce /\ ReplyOnce
  BY Zenon DEF IInv, OnceInv
<1>1. /\ wpc[w] = "validating" /\ lock = w
      /\ wpc' = [wpc EXCEPT ![w] = "err"]
      /\ hist' = SubSeq(hist, 1, committed)
      /\ UNCHANGED <<jobs, outcomes, channel, pc, committed, survives, crashes>>
  BY Zenon, <1>0 DEF CommitError, LockInv
<1>2. wpc'[w] = "err" /\ \A v \in Worker : v # w => wpc'[v] = wpc[v] /\ wpc[v] # "validating"
  BY Zenon, <1>0, <1>1 DEF TypeOK, LockInv
<1>3. committed \in Nat /\ committed <= Len(hist)
  BY Zenon, <1>0 DEF TypeOK, SerialHistory
<1>4. /\ Len(hist') = committed /\ \A i \in 1 .. committed : hist'[i] = hist[i]
      /\ \A i, j \in 1 .. Len(hist') : hist'[i].req = hist'[j].req => i = j
  BY Zenon, <1>0, <1>1, <1>3, OnceTruncated
<1>5. Applied' = Applied
  <2>1. committed' = committed /\ \A i \in 1 .. committed : hist'[i] = hist[i]
    BY Zenon, <1>1, <1>4
  <2> QED
    BY Zenon, <2>1 DEF Applied
<1>6. HistOnce'
  <2>1. \A i \in 1 .. Len(hist') : ~(i > committed')
    BY <1>1, <1>3, <1>4
  <2>2. \A v \in Worker : wpc'[v] # "validating"
    BY <1>2
  <2>3. Durable => survives' = committed'
    BY Zenon, <1>0, <1>1 DEF HistOnce
  <2> QED
    BY Zenon, <1>4, <2>1, <2>2, <2>3 DEF HistOnce
<1>7. JobOnce'
  <2>1. \A v \in Worker : wpc'[v] = wpc[v] \/ (wpc[v] \notin {"idle", "ok"} /\ wpc'[v] # "ok")
    BY <1>1, <1>2
  <2> QED
    BY Zenon, <1>0, <1>1, <1>5, <2>1, JobFrame
<1>8. ReplyOnce'
  BY Zenon, <1>0, <1>1, <1>5, ReplyFrame
<1> QED
  BY Zenon, <1>6, <1>7, <1>8 DEF OnceInv

\* A crash takes the handlers that wait for a verdict with it, and of the written
\* batches only those that were not synced.
LEMMA OnceCrash ==
    ASSUME IInv, OnceInv, Crash
    PROVE  OnceInv'
<1> USE DEF store, handler, batch, bounds, history, vars
<1>0. TypeOK /\ LockInv /\ SerialHistory /\ HistOnce /\ JobOnce /\ ReplyOnce
  BY Zenon DEF IInv, OnceInv
<1>1. /\ hist' = SubSeq(hist, 1, survives) /\ committed' = survives /\ survives' = survives
      /\ channel' = <<>> /\ wpc' = [v \in Worker |-> "idle"]
      /\ pc' = [r \in Request |-> IF pc[r] \in Pending \ {"idle"} THEN "lost" ELSE pc[r]]
      /\ crashes' = crashes + 1
  BY Zenon DEF Crash
<1>2. survives \in Nat /\ committed \in Nat /\ survives <= committed /\ survives <= Len(hist)
  BY <1>0 DEF TypeOK, SerialHistory, LockInv
<1>3. /\ Len(hist') = survives /\ \A i \in 1 .. survives : hist'[i] = hist[i]
      /\ \A i, j \in 1 .. Len(hist') : hist'[i].req = hist'[j].req => i = j
  BY Zenon, <1>0, <1>1, <1>2, OnceTruncated
<1>4. \A v \in Worker : wpc'[v] = "idle"
  BY Zenon, <1>1
<1>5. HistOnce'
  <2>1. \A i \in 1 .. Len(hist') : ~(i > committed')
    BY <1>1, <1>2, <1>3
  <2>2. \A v \in Worker : wpc'[v] # "validating"
    BY <1>4
  <2> QED
    BY Zenon, <1>1, <1>3, <2>1, <2>2 DEF HistOnce
<1>6. JobOnce'
  BY <1>1, <1>4 DEF JobOnce
<1>7. Applied' \subseteq Applied /\ (Durable => Applied' = Applied)
  <2>1. \A i \in 1 .. survives : i \in 1 .. committed
    BY <1>2
  <2>2. Applied' \subseteq Applied
    BY ZenonT(30), <1>1, <1>3, <2>1 DEF Applied
  <2>3. Durable => survives = committed
    BY Zenon, <1>0 DEF HistOnce
  <2>4. committed' = survives /\ \A i \in 1 .. survives : hist'[i] = hist[i]
    BY Zenon, <1>1, <1>3
  <2>5. ASSUME Durable PROVE Applied' = Applied
    BY Zenon, <2>3, <2>4, <2>5 DEF Applied
  <2> QED
    BY Zenon, <2>2, <2>5
<1>8. ReplyOnce'
  <2> SUFFICES ASSUME NEW r \in Request
               PROVE  /\ pc'[r] \in Unapplied => r \notin Applied'
                      /\ pc'[r] = "replyCommitted" => r \in Applied'
                      /\ pc'[r] = "committed" => r \in Applied' \/ (~Durable /\ crashes' > 0)
    BY Zenon DEF ReplyOnce
  <2>1. pc'[r] = "lost" \/ (pc'[r] = pc[r] /\ pc[r] # "replyCommitted")
    BY Zenon, <1>1 DEF Pending
  <2>2. CASE pc'[r] = "lost"
    BY <2>2 DEF Unapplied
  <2>3. CASE pc'[r] = pc[r] /\ pc[r] # "replyCommitted"
    <3>1. crashes' > 0
      BY <1>0, <1>1 DEF TypeOK
    <3> QED
      BY Zenon, <1>0, <1>7, <2>3, <3>1 DEF ReplyOnce
  <2> QED
    BY Zenon, <2>1, <2>2, <2>3
<1> QED
  BY Zenon, <1>5, <1>6, <1>8 DEF OnceInv

-----------------------------------------------------------------------------
\* Every step keeps requests from being applied twice.
LEMMA OnceStep == IInv /\ OnceInv /\ [Next]_vars => OnceInv'
<1> SUFFICES ASSUME IInv, OnceInv, [Next]_vars PROVE OnceInv'
  OBVIOUS
<1> USE DEF store, handler, batch, bounds, history, vars
<1>0. TypeOK /\ QueueInv /\ UniqueJobs /\ LockInv /\ SerialHistory /\ HistOnce /\ JobOnce /\ ReplyOnce
  BY Zenon DEF IInv, OnceInv
<1>00. Committer \in Worker /\ Deploys \subseteq Worker /\ Deploys \subseteq Request /\ Txs \subseteq Request
  BY Zenon DEF Worker, Request
<1>1. CASE (\E a \in Artifact : Compile(a)) \/ Idle \/ UNCHANGED vars
  <2>1. UNCHANGED <<hist, committed, survives, lock, wpc, jobs, outcomes, channel, pc, crashes>>
    BY Zenon, <1>1 DEF Compile, Idle
  <2>2. Applied' = Applied
    BY Zenon, <2>1, SameApplied
  <2> QED
    BY Zenon, <1>0, <2>1, <2>2, HistFrame, JobFrame, ReplyFrame DEF OnceInv
<1>2. CASE Flush
  <2>1. /\ UNCHANGED <<hist, committed, lock, wpc, jobs, outcomes, channel, pc, crashes>>
        /\ survives' = committed
    BY Zenon, <1>2 DEF Flush
  <2>2. Applied' = Applied
    BY Zenon, <2>1, SameApplied
  <2>3. HistOnce'
    BY <1>0, <2>1 DEF HistOnce
  <2> QED
    BY Zenon, <1>0, <2>1, <2>2, <2>3, JobFrame, ReplyFrame DEF OnceInv
<1>3. ASSUME NEW r \in Request,
             \/ Accept(r) \/ ReadCell(r) \/ ReadError(r) \/ ExecuteTx(r)
             \/ Disconnect(r) \/ ReceiveReply(r) \/ AnswerQuery(r)
      PROVE  OnceInv'
  <2>1. UNCHANGED <<hist, committed, survives, lock, wpc, jobs, outcomes, channel, crashes>>
    BY Zenon, <1>3 DEF Accept, ReadCell, ReadError, ExecuteTx, Disconnect, ReceiveReply, AnswerQuery
  <2>2. Applied' = Applied
    BY Zenon, <2>1, SameApplied
  <2>3. \/ pc' = pc
        \/ /\ pc[r] \in {"idle", "executing", "replyConflict"}
           /\ \E s \in {"executing", "notfound", "rejected422", "sending", "conflict409",
                        "answered"} : pc' = [pc EXCEPT ![r] = s]
        \/ pc' = [pc EXCEPT ![r] = "disconnected"]
        \/ pc[r] = "replyCommitted" /\ pc' = [pc EXCEPT ![r] = "committed"]
    BY Zenon, <1>3 DEF Accept, ReadCell, ReadError, ExecuteTx, Disconnect, ReceiveReply,
                       AnswerQuery, Executed, Succeed, Retry
  <2>4. pc \in [Request -> Pending \cup Answered]
    BY Zenon, <1>0 DEF TypeOK
  <2>5. \A q \in Request :
               \/ pc'[q] = pc[q]
               \/ pc[q] \in Unapplied /\ pc'[q] \notin {"replyCommitted", "committed"}
               \/ pc[q] = "replyCommitted" /\ pc'[q] = "committed"
               \/ pc'[q] = "disconnected"
    BY <2>3, <2>4 DEF Unapplied
  <2> QED
    BY Zenon, <1>0, <2>1, <2>2, <2>5, HistFrame, JobFrame, ReplyFrame DEF OnceInv
<1>4. CASE \E r \in Txs : Send(r)
  <2>1. PICK r \in Txs : Send(r)
    BY Zenon, <1>4
  <2>2. /\ UNCHANGED <<hist, committed, survives, lock, wpc, jobs, outcomes, crashes>>
        /\ pc[r] = "sending" /\ pc' = [pc EXCEPT ![r] = "waiting"]
        /\ channel' = Append(channel, r)
    BY Zenon, <2>1 DEF Send
  <2>3. Applied' = Applied
    BY Zenon, <2>2, SameApplied
  <2>4. r \notin Applied
    <3>1. pc[r] \in Unapplied
      BY <2>2 DEF Unapplied
    <3> QED
      BY Zenon, <1>0, <1>00, <3>1 DEF ReplyOnce
  <2>5. \A i \in DOMAIN channel' : channel'[i] \notin Applied
    <3>1. channel \in Seq(Txs)
      BY Zenon, <1>0 DEF TypeOK
    <3>2. \A i \in DOMAIN channel' : channel'[i] = r \/ (i \in DOMAIN channel /\ channel'[i] = channel[i])
      BY Zenon, <2>2, <3>1, AppendJob
    <3> QED
      BY Zenon, <1>0, <2>4, <3>2 DEF JobOnce
  <2>6. JobOnce'
    <3>1. \A w \in Worker : wpc'[w] \notin {"idle", "ok"} =>
             \A i \in DOMAIN jobs'[w] : jobs'[w][i] \notin Applied
      BY Zenon, <1>0, <2>2 DEF JobOnce
    <3> QED
      BY Zenon, <1>0, <2>2, <2>3, <2>5, <3>1, JobMoves
  <2>7. \A q \in Request :
               \/ pc'[q] = pc[q]
               \/ pc[q] \in Unapplied /\ pc'[q] \notin {"replyCommitted", "committed"}
    BY <1>0, <2>2 DEF TypeOK, Unapplied
  <2> QED
    BY Zenon, <1>0, <2>2, <2>3, <2>6, <2>7, HistFrame, ReplyFrame DEF OnceInv
<1>5. CASE \E d \in Deploys : ExecuteDeploy(d)
  <2>1. PICK d \in Deploys : ExecuteDeploy(d)
    BY Zenon, <1>5
  <2>2. /\ UNCHANGED <<hist, committed, survives, lock, outcomes, channel, crashes>>
        /\ pc[d] = "executing"
        /\ \E s \in {"noop", "rejected422", "committing"} : pc' = [pc EXCEPT ![d] = s]
        /\ \/ UNCHANGED <<wpc, jobs>>
           \/ wpc' = [wpc EXCEPT ![d] = "locking"] /\ jobs' = [jobs EXCEPT ![d] = <<d>>]
    BY Zenon, <2>1 DEF ExecuteDeploy, Executed
  <2>3. Applied' = Applied
    BY Zenon, <2>2, SameApplied
  <2>4. wpc[d] = "idle"
    BY Zenon, <1>0, <2>2 DEF QueueInv
  <2>5. d \notin Applied
    <3>1. pc[d] \in Unapplied
      BY <2>2 DEF Unapplied
    <3> QED
      BY Zenon, <1>0, <1>00, <3>1 DEF ReplyOnce
  <2>6. \A w \in Worker :
           \/ wpc'[w] = wpc[w] /\ jobs'[w] = jobs[w]
           \/ w = d /\ wpc'[w] = "locking" /\ jobs'[w] = <<d>>
    BY Zenon, <1>0, <2>2 DEF TypeOK
  <2>7. HistOnce'
    <3>1. \A w \in Worker : wpc'[w] = "validating" => wpc[w] = "validating"
      BY <2>6
    <3>2. \A w \in Worker : wpc[w] = "validating" => jobs'[w] = jobs[w] /\ outcomes'[w] = outcomes[w]
      BY <2>2, <2>4, <2>6
    <3> QED
      BY Zenon, <1>0, <2>2, <3>1, <3>2, HistFrame
  <2>8. JobOnce'
    <3>1. \A i \in DOMAIN <<d>> : <<d>>[i] \notin Applied
      BY <2>5
    <3>2. \A w \in Worker : wpc'[w] \notin {"idle", "ok"} =>
             \A i \in DOMAIN jobs'[w] : jobs'[w][i] \notin Applied
      BY Zenon, <1>0, <2>6, <3>1 DEF JobOnce
    <3>3. \A w \in Worker : wpc'[w] = "ok" =>
             wpc[w] = "ok" /\ jobs'[w] = jobs[w] /\ outcomes'[w] = outcomes[w]
      BY <2>2, <2>6
    <3>4. \A i \in DOMAIN channel' : channel'[i] \notin Applied
      BY Zenon, <1>0, <2>2 DEF JobOnce
    <3> QED
      BY Zenon, <1>0, <2>3, <3>2, <3>3, <3>4, JobMoves
  <2>9. \A q \in Request :
               \/ pc'[q] = pc[q]
               \/ pc[q] \in Unapplied /\ pc'[q] \notin {"replyCommitted", "committed"}
    BY <1>0, <2>2 DEF TypeOK, Unapplied
  <2> QED
    BY Zenon, <1>0, <2>2, <2>3, <2>7, <2>8, <2>9, ReplyFrame DEF OnceInv
<1>6. CASE \E d \in Deploys : DeployReturns(d)
  <2>1. PICK d \in Deploys : DeployReturns(d)
    BY Zenon, <1>6
  <2>2. /\ UNCHANGED <<hist, committed, survives, lock, jobs, outcomes, channel, crashes>>
        /\ wpc' = [wpc EXCEPT ![d] = "idle"]
    BY Zenon, <2>1 DEF DeployReturns
  <2>3. Applied' = Applied
    BY Zenon, <2>2, SameApplied
  <2>4. \A w \in Worker : wpc'[w] = "idle" \/ wpc'[w] = wpc[w]
    BY Zenon, <1>0, <2>2 DEF TypeOK
  <2>5. HistOnce'
    <3>1. \A w \in Worker : wpc'[w] = "validating" => wpc[w] = "validating"
      BY <2>4
    <3> QED
      BY Zenon, <1>0, <2>2, <3>1, HistFrame
  <2>6. JobOnce'
    BY Zenon, <1>0, <2>2, <2>3, <2>4, JobFrame
  <2>7. wpc[d] \in {"ok", "err"} /\ d \in Worker /\ d \in Request
    BY Zenon, <1>00, <2>1 DEF DeployReturns
  <2>8. jobs[d] = <<d>>
    <3>1. wpc[d] # "idle"
      BY <2>7
    <3> QED
      BY Zenon, <1>0, <3>1 DEF QueueInv
  <2>9. 1 \in DOMAIN jobs[d] /\ jobs[d][1] = d
    BY <2>8
  <2>10. \/ d \in Applied /\ pc' = [pc EXCEPT ![d] = "committed"]
         \/ /\ d \notin Applied
            /\ \E s \in {"executing", "conflict409", "error500"} : pc' = [pc EXCEPT ![d] = s]
    <3>1. CASE wpc[d] = "ok" /\ outcomes[d] = <<"Committed">> /\ Succeed(d)
      <4>1. outcomes[d][1] = "Committed"
        BY <3>1
      <4>2. d \in Applied
        BY ZenonT(30), <1>0, <2>7, <2>9, <3>1, <4>1 DEF JobOnce
      <4> QED
        BY Zenon, <3>1, <4>2 DEF Succeed
    <3>2. CASE wpc[d] = "ok" /\ outcomes[d] = <<"Conflict">> /\ Retry(d)
      <4>1. outcomes[d][1] # "Committed"
        BY <3>2
      <4>2. d \notin Applied
        BY <1>0, <2>7, <2>9, <3>2, <4>1 DEF JobOnce
      <4> QED
        BY Zenon, <3>2, <4>2 DEF Retry
    <3>3. CASE wpc[d] = "err" /\ pc' = [pc EXCEPT ![d] = "error500"]
      <4>1. wpc[d] \notin {"idle", "ok"}
        BY <3>3
      <4>2. d \notin Applied
        BY <1>0, <2>7, <2>9, <4>1 DEF JobOnce
      <4> QED
        BY Zenon, <3>3, <4>2
    <3> QED
      BY Zenon, <2>1, <3>1, <3>2, <3>3 DEF DeployReturns
  <2>11. ReplyOnce'
    <3>1. \A q \in Request : \/ pc'[q] = pc[q]
                             \/ q = d /\ d \in Applied /\ pc'[q] = "committed"
                             \/ q = d /\ d \notin Applied /\ pc'[q] \notin {"replyCommitted", "committed"}
      BY <1>0, <2>10 DEF TypeOK
    <3>2. "committed" \notin Unapplied
      BY DEF Unapplied
    <3> QED
      BY Zenon, <1>0, <2>2, <2>3, <3>1, <3>2 DEF ReplyOnce
  <2> QED
    BY Zenon, <2>5, <2>6, <2>11 DEF OnceInv
<1>7. CASE Recv
  <2>1. /\ UNCHANGED <<hist, committed, survives, lock, outcomes, pc, crashes>>
        /\ wpc[Committer] = "idle" /\ wpc' = [wpc EXCEPT ![Committer] = "draining"]
        /\ jobs' = [jobs EXCEPT ![Committer] = <<Head(channel)>>]
        /\ channel # <<>> /\ channel' = Tail(channel)
    BY Zenon, <1>7 DEF Recv
  <2>2. Applied' = Applied
    BY Zenon, <2>1, SameApplied
  <2>3. \A w \in Worker : \/ w # Committer /\ wpc'[w] = wpc[w] /\ jobs'[w] = jobs[w]
                          \/ w = Committer /\ wpc'[w] = "draining" /\ jobs'[w] = <<Head(channel)>>
    BY Zenon, <1>0, <2>1 DEF TypeOK
  <2>4. HistOnce'
    <3>1. \A w \in Worker : wpc'[w] = "validating" => wpc[w] = "validating"
      BY <2>3
    <3>2. \A w \in Worker : wpc[w] = "validating" => jobs'[w] = jobs[w] /\ outcomes'[w] = outcomes[w]
      BY <2>1, <2>3
    <3> QED
      BY Zenon, <1>0, <2>1, <3>1, <3>2, HistFrame
  <2>5. /\ 1 \in DOMAIN channel /\ \A i \in DOMAIN <<Head(channel)>> : <<Head(channel)>>[i] = channel[1]
        /\ \A i \in DOMAIN channel' : i + 1 \in DOMAIN channel /\ channel'[i] = channel[i + 1]
    BY <1>0, <2>1 DEF TypeOK
  <2>6. \A i \in DOMAIN channel' : channel'[i] \notin Applied
    BY Zenon, <1>0, <2>5 DEF JobOnce
  <2>7. \A w \in Worker : wpc'[w] \notin {"idle", "ok"} =>
             \A i \in DOMAIN jobs'[w] : jobs'[w][i] \notin Applied
    <3>1. \A i \in DOMAIN <<Head(channel)>> : <<Head(channel)>>[i] \notin Applied
      BY Zenon, <1>0, <2>5 DEF JobOnce
    <3> QED
      BY Zenon, <1>0, <2>3, <3>1 DEF JobOnce
  <2>8. \A w \in Worker : wpc'[w] = "ok" => wpc[w] = "ok" /\ jobs'[w] = jobs[w] /\ outcomes'[w] = outcomes[w]
    BY <2>1, <2>3
  <2>9. JobOnce'
    BY Zenon, <1>0, <2>2, <2>6, <2>7, <2>8, JobMoves
  <2> QED
    BY Zenon, <1>0, <2>1, <2>2, <2>4, <2>9, ReplyFrame DEF OnceInv
<1>8. CASE Drain
  <2>1. /\ UNCHANGED <<hist, committed, survives, lock, outcomes, pc, crashes>>
        /\ wpc[Committer] = "draining"
    BY Zenon, <1>8 DEF Drain
  <2>2. Applied' = Applied
    BY Zenon, <2>1, SameApplied
  <2>3. CASE channel # <<>> /\ Len(jobs[Committer]) < MAX_BATCH
    <3>1. /\ jobs' = [jobs EXCEPT ![Committer] = Append(jobs[Committer], Head(channel))]
          /\ channel' = Tail(channel) /\ wpc' = wpc
      BY Zenon, <1>8, <2>3 DEF Drain
    <3>2. \A w \in Worker : w # Committer => jobs'[w] = jobs[w]
      BY Zenon, <1>0, <3>1 DEF TypeOK
    <3>3. jobs'[Committer] = Append(jobs[Committer], Head(channel))
      BY Zenon, <1>0, <1>00, <3>1 DEF TypeOK
    <3>4. HistOnce'
      <4>1. \A w \in Worker : wpc[w] = "validating" => jobs'[w] = jobs[w] /\ outcomes'[w] = outcomes[w]
        BY <2>1, <3>2
      <4> QED
        BY Zenon, <1>0, <2>1, <3>1, <4>1, HistFrame
    <3>5. /\ 1 \in DOMAIN channel /\ Head(channel) = channel[1]
          /\ \A i \in DOMAIN channel' : i + 1 \in DOMAIN channel /\ channel'[i] = channel[i + 1]
      BY <1>0, <2>3, <3>1 DEF TypeOK
    <3>6. \A i \in DOMAIN channel' : channel'[i] \notin Applied
      BY Zenon, <1>0, <3>5 DEF JobOnce
    <3>7. \A i \in DOMAIN jobs'[Committer] : jobs'[Committer][i] \notin Applied
      <4>1. jobs[Committer] \in Seq(Txs) /\ Head(channel) \in Txs
        BY <1>0, <2>3 DEF TypeOK, QueueInv
      <4>2. \A i \in DOMAIN jobs'[Committer] :
               \/ i \in DOMAIN jobs[Committer] /\ jobs'[Committer][i] = jobs[Committer][i]
               \/ jobs'[Committer][i] = channel[1]
        <5> DEFINE s == Append(jobs[Committer], Head(channel))
        <5>1. \A i \in DOMAIN s : \/ i \in DOMAIN jobs[Committer] /\ s[i] = jobs[Committer][i]
                                 \/ s[i] = Head(channel)
          BY Zenon, <4>1, AppendJob
        <5> QED
          BY Zenon, <3>3, <3>5, <5>1
      <4>3. wpc[Committer] \notin {"idle", "ok"}
        BY <2>1
      <4> QED
        BY Zenon, <1>0, <1>00, <3>5, <4>2, <4>3 DEF JobOnce
    <3>8. \A w \in Worker : wpc'[w] \notin {"idle", "ok"} =>
             \A i \in DOMAIN jobs'[w] : jobs'[w][i] \notin Applied
      <4> TAKE w \in Worker
      <4> HAVE wpc'[w] \notin {"idle", "ok"}
      <4>1. CASE w = Committer
        BY Zenon, <3>7, <4>1
      <4>2. CASE w # Committer
        BY Zenon, <1>0, <3>1, <3>2, <4>2 DEF JobOnce
      <4> QED
        BY Zenon, <4>1, <4>2
    <3>9. \A w \in Worker : wpc'[w] = "ok" =>
             wpc[w] = "ok" /\ jobs'[w] = jobs[w] /\ outcomes'[w] = outcomes[w]
      BY SMTT(30), <2>1, <3>1, <3>2
    <3>10. JobOnce'
      BY Zenon, <1>0, <2>2, <3>6, <3>8, <3>9, JobMoves
    <3> QED
      BY Zenon, <1>0, <2>1, <2>2, <3>4, <3>10, ReplyFrame DEF OnceInv
  <2>4. CASE ~(channel # <<>> /\ Len(jobs[Committer]) < MAX_BATCH)
    <3>1. wpc' = [wpc EXCEPT ![Committer] = "locking"] /\ UNCHANGED <<jobs, channel>>
      BY Zenon, <1>8, <2>4 DEF Drain
    <3>2. \A w \in Worker : \/ wpc'[w] = wpc[w]
                            \/ wpc[w] = "draining" /\ wpc'[w] = "locking"
      BY Zenon, <1>0, <2>1, <3>1 DEF TypeOK
    <3>3. /\ \A w \in Worker : wpc'[w] = "validating" => wpc[w] = "validating"
          /\ \A w \in Worker : wpc'[w] = wpc[w] \/ (wpc[w] \notin {"idle", "ok"} /\ wpc'[w] # "ok")
      BY <3>2
    <3> QED
      BY Zenon, <1>0, <2>1, <2>2, <3>1, <3>3, HistFrame, JobFrame, ReplyFrame DEF OnceInv
  <2> QED
    BY Zenon, <2>3, <2>4
<1>9. CASE Reply
  <2>1. /\ UNCHANGED <<hist, committed, survives, lock, jobs, outcomes, channel, crashes>>
        /\ wpc' = [wpc EXCEPT ![Committer] = "idle"] /\ wpc[Committer] \in {"ok", "err"}
    BY Zenon, <1>9 DEF Reply
  <2>2. Applied' = Applied
    BY Zenon, <2>1, SameApplied
  <2>3. \A w \in Worker : wpc'[w] = "idle" \/ wpc'[w] = wpc[w]
    BY Zenon, <1>0, <2>1 DEF TypeOK
  <2>4. HistOnce'
    <3>1. \A w \in Worker : wpc'[w] = "validating" => wpc[w] = "validating"
      BY <2>3
    <3> QED
      BY Zenon, <1>0, <2>1, <3>1, HistFrame
  <2>5. JobOnce'
    BY Zenon, <1>0, <2>1, <2>2, <2>3, JobFrame
  <2>6. ASSUME NEW r \in Request
        PROVE  \/ pc'[r] = pc[r]
               \/ r \in Applied /\ pc'[r] = "replyCommitted"
               \/ r \notin Applied /\ pc'[r] = "replyConflict"
    <3>1. CASE pc[r] = "waiting" /\ \E i \in DOMAIN jobs[Committer] : jobs[Committer][i] = r
      <4>1. PICK i \in DOMAIN jobs[Committer] : jobs[Committer][i] = r /\ pc'[r] = Verdict(i)
        BY Zenon, <1>9, <3>1 DEF Reply
      <4>2. CASE wpc[Committer] = "ok"
        <5>1. (outcomes[Committer][i] = "Committed") <=> (r \in Applied)
          BY Zenon, <1>0, <1>00, <4>1, <4>2 DEF JobOnce
        <5> QED
          BY Zenon, <4>1, <4>2, <5>1 DEF Verdict
      <4>3. CASE wpc[Committer] = "err"
        <5>1. wpc[Committer] \notin {"idle", "ok"}
          BY <4>3
        <5>2. r \notin Applied
          BY Zenon, <1>0, <1>00, <4>1, <5>1 DEF JobOnce
        <5> QED
          BY Zenon, <4>1, <5>1, <5>2 DEF Verdict
      <4> QED
        BY Zenon, <2>1, <4>2, <4>3
    <3>2. CASE ~(pc[r] = "waiting" /\ \E i \in DOMAIN jobs[Committer] : jobs[Committer][i] = r)
      BY Zenon, <1>9, <3>2 DEF Reply
    <3> QED
      BY Zenon, <3>1, <3>2
  <2>7. ReplyOnce'
    <3>1. "replyCommitted" \notin Unapplied
      BY DEF Unapplied
    <3> QED
      BY Zenon, <1>0, <2>1, <2>2, <2>6, <3>1 DEF ReplyOnce
  <2> QED
    BY Zenon, <2>4, <2>5, <2>7 DEF OnceInv
<1>10. CASE \E w \in Worker : Acquire(w)
  <2>1. PICK w \in Worker : Acquire(w)
    BY Zenon, <1>10
  <2>2. /\ UNCHANGED <<hist, committed, survives, jobs, channel, pc, crashes>>
        /\ wpc[w] = "locking" /\ lock = None /\ lock' = w
        /\ wpc' = [wpc EXCEPT ![w] = "validating"]
        /\ outcomes' = [outcomes EXCEPT ![w] = <<>>]
    BY Zenon, <2>1 DEF Acquire
  <2>3. Applied' = Applied
    BY Zenon, <2>2, SameApplied
  <2>4. \A v \in Worker : \/ v = w /\ wpc'[v] = "validating" /\ outcomes'[v] = <<>>
                          \/ v # w /\ wpc'[v] = wpc[v] /\ outcomes'[v] = outcomes[v]
    BY Zenon, <1>0, <2>2 DEF TypeOK
  <2>5. \A v \in Worker : wpc[v] # "validating"
    BY Zenon, <1>0, <2>2, DistinctActors DEF LockInv
  <2>6. HistOnce'
    <3>1. \A i \in 1 .. Len(hist') : ~(i > committed')
      BY SMTT(30), <1>0, <2>2 DEF LockInv, TypeOK
    <3>2. \A v \in Worker : wpc'[v] = "validating" =>
             Len(outcomes'[v]) <= Len(jobs'[v]) /\ DOMAIN outcomes'[v] = {}
      <4> TAKE v \in Worker
      <4> HAVE wpc'[v] = "validating"
      <4>1. outcomes'[v] = <<>>
        BY Zenon, <2>4, <2>5
      <4>2. jobs'[v] \in Seq(Request)
        BY Zenon, <1>0, <2>2 DEF TypeOK
      <4> QED
        BY <4>1, <4>2
    <3> QED
      BY ZenonT(30), <1>0, <2>2, <3>1, <3>2 DEF HistOnce
  <2>7. JobOnce'
    <3>1. \A v \in Worker : \/ wpc'[v] = wpc[v] /\ outcomes'[v] = outcomes[v]
                            \/ wpc[v] \notin {"idle", "ok"} /\ wpc'[v] # "ok"
      BY <2>2, <2>4
    <3> QED
      BY Zenon, <1>0, <2>2, <2>3, <3>1, JobFrame
  <2> QED
    BY Zenon, <1>0, <2>2, <2>3, <2>6, <2>7, ReplyFrame DEF OnceInv
<1>11. CASE \E w \in Worker : validate_and_apply_job(w) \/ WriteBatch(w) \/ CommitError(w)
  BY Zenon, <1>11, OnceValidate, OnceWrite, OnceError
<1>12. CASE Crash
  BY Zenon, <1>12, OnceCrash
<1> QED
  BY Zenon, <1>00, <1>1, <1>2, <1>3, <1>4, <1>5, <1>6, <1>7, <1>8, <1>9, <1>10, <1>11, <1>12
     DEF Next, Request

\* A request takes effect at most once however often it is re-executed, exactly
\* once when it is answered 200 and not at all when it is answered with an error,
\* for every set of requests, every batch size and any disconnects, crashes and
\* errors; with durable commits a crash takes no 200 back.
THEOREM AtMostOnce == Spec => []ExactlyOnce
<1>1. IInv /\ [Next]_vars => IInv'
  BY Zenon, TypeStep, QueueStep, HistoryStep DEF IInv
<1>2. IInv /\ OnceInv => ExactlyOnce
  <2> SUFFICES ASSUME IInv, OnceInv PROVE ExactlyOnce
    OBVIOUS
  <2>1. \A i \in 1 .. committed : i \in 1 .. Len(hist)
    BY DEF IInv, TypeOK, SerialHistory
  <2>2. \A i, j \in 1 .. committed : hist[i].req = hist[j].req => i = j
    BY Zenon, <2>1 DEF OnceInv, HistOnce
  <2>3. ASSUME NEW r \in Request
        PROVE  (\E i \in 1 .. committed : hist[i].req = r) <=> r \in Applied
    BY Zenon DEF Applied
  <2>4. {"conflict409", "rejected422", "notfound", "error500", "noop", "answered"} \subseteq Unapplied
    BY DEF Unapplied
  <2> QED
    BY Zenon, <2>2, <2>3, <2>4 DEF OnceInv, ReplyOnce, ExactlyOnce
<1>3. IInv /\ OnceInv /\ [Next]_vars => OnceInv'
  BY OnceStep
<1> QED
  BY <1>1, <1>2, <1>3, InitInv, OnceInit, PTL DEF Spec

-----------------------------------------------------------------------------
\* The job of r is queued, or in the batch at work.
InFlight(r) ==
    \/ \E i \in DOMAIN channel : channel[i] = r
    \/ /\ wpc[Committer] # "idle"
       /\ \E i \in DOMAIN jobs[Committer] : jobs[Committer][i] = r

\* Steps in which nobody starts to wait, and that keep the queue and the batches.
LEMMA ForgottenFrame ==
    ASSUME NobodyForgotten, UNCHANGED <<channel, jobs, outcomes>>,
           \A r \in Request : pc'[r] \in {"waiting", "committing"} => pc'[r] = pc[r],
           \A w \in Worker : /\ wpc'[w] = "idle" => wpc[w] = "idle"
                             /\ wpc'[w] = "ok" => wpc[w] = "ok",
           lock' # None => wpc'[lock'] = "validating"
    PROVE  NobodyForgotten'
<1>1. Committer \in Worker /\ Deploys \subseteq Worker /\ Deploys \subseteq Request
  BY Zenon DEF Worker, Request
<1> QED
  BY Zenon, <1>1 DEF NobodyForgotten

\* Whatever moves a job, an outcome or the lock also moves the handler that waits
\* for it.
LEMMA ForgottenStep ==
    ASSUME IInv, IInv', NobodyForgotten, [Next]_vars
    PROVE  NobodyForgotten'
<1> USE DEF store, handler, batch, bounds, history, vars
<1>0. TypeOK /\ TypeOK' /\ QueueInv /\ LockInv'
  BY Zenon DEF IInv
<1>1. lock' # None => wpc'[lock'] = "validating"
  BY Zenon, <1>0 DEF TypeOK, LockInv
<1>2. Committer \in Worker /\ Deploys \subseteq Worker /\ Deploys \subseteq Request /\ Txs \subseteq Request
  BY Zenon DEF Worker, Request
<1>3. CASE \/ \E a \in Artifact : Compile(a)
           \/ \E r \in Request : ReadCell(r) \/ ReadError(r)
           \/ Flush \/ Idle \/ UNCHANGED vars
  BY Zenon, <1>1, <1>3, ForgottenFrame DEF Compile, ReadCell, ReadError, Flush, Idle
<1>4. ASSUME NEW r \in Request, NEW s, s \notin {"waiting", "committing"},
             pc' = [pc EXCEPT ![r] = s], UNCHANGED <<channel, wpc, jobs, outcomes>>
      PROVE  NobodyForgotten'
  <2>1. \A q \in Request : pc'[q] \in {"waiting", "committing"} => pc'[q] = pc[q]
    BY <1>0, <1>4 DEF TypeOK
  <2> QED
    BY ZenonT(40), <1>1, <1>4, <2>1, ForgottenFrame
<1>5. CASE \E r \in Request : Accept(r)
  <2>1. PICK r \in Request : Accept(r)
    BY Zenon, <1>5
  <2>2. \/ pc' = [pc EXCEPT ![r] = "executing"]
        \/ pc' = [pc EXCEPT ![r] = "notfound"]
    BY Zenon, <2>1 DEF Accept
  <2>3. UNCHANGED <<channel, wpc, jobs, outcomes>>
    BY Zenon, <2>1 DEF Accept
  <2> QED
    BY <1>4, <2>2, <2>3
<1>6. CASE \E r \in Txs : ExecuteTx(r) \/ Disconnect(r) \/ ReceiveReply(r)
  <2>1. PICK r \in Txs : ExecuteTx(r) \/ Disconnect(r) \/ ReceiveReply(r)
    BY Zenon, <1>6
  <2>2. \E s \in {"rejected422", "sending", "disconnected", "committed", "executing", "conflict409"} :
           pc' = [pc EXCEPT ![r] = s]
    BY <2>1 DEF ExecuteTx, Disconnect, ReceiveReply, Succeed, Retry
  <2>3. UNCHANGED <<channel, wpc, jobs, outcomes>>
    BY Zenon, <2>1 DEF ExecuteTx, Disconnect, ReceiveReply
  <2> QED
    BY ZenonT(40), <1>2, <1>4, <2>2, <2>3
<1>7. CASE \E q \in Queries : AnswerQuery(q)
  <2>1. PICK q \in Queries : AnswerQuery(q)
    BY Zenon, <1>7
  <2>2. \E s \in {"rejected422", "answered"} : pc' = [pc EXCEPT ![q] = s]
    BY ZenonT(40), <2>1 DEF AnswerQuery
  <2>3. UNCHANGED <<channel, wpc, jobs, outcomes>>
    BY Zenon, <2>1 DEF AnswerQuery
  <2> QED
    BY ZenonT(40), <1>4, <2>2, <2>3 DEF Request
<1>8. CASE \E r \in Txs : Send(r)
  <2>1. PICK r \in Txs : Send(r)
    BY Zenon, <1>8
  <2>2. /\ channel' = Append(channel, r) /\ pc' = [pc EXCEPT ![r] = "waiting"]
        /\ UNCHANGED <<wpc, jobs, outcomes>>
    BY Zenon, <2>1 DEF Send
  <2>3. /\ \A i \in DOMAIN channel : i \in DOMAIN channel' /\ channel'[i] = channel[i]
        /\ Len(channel) + 1 \in DOMAIN channel' /\ channel'[Len(channel) + 1] = r
    <3>1. channel \in Seq(Txs) /\ channel' = Append(channel, r)
      BY ZenonT(40), <1>0, <2>2 DEF TypeOK
    <3> QED
      BY <3>1
  <2>4. \A q \in Request : /\ pc'[q] = "waiting" => q = r \/ pc[q] = "waiting"
                           /\ pc'[q] = "committing" => pc[q] = "committing"
    BY ZenonT(40), <1>0, <2>2 DEF TypeOK
  <2>5. \A q \in Request : pc'[q] = "waiting" => InFlight(q)'
    <3> TAKE q \in Request
    <3> HAVE pc'[q] = "waiting"
    <3>1. CASE q = r
      BY Zenon, <2>3, <3>1 DEF InFlight
    <3>2. CASE pc[q] = "waiting"
      <4>1. InFlight(q)
        BY Zenon, <3>2 DEF NobodyForgotten, InFlight
      <4>2. UNCHANGED <<wpc, jobs>>
        BY Zenon, <2>2
      <4> QED
        BY Zenon, <2>3, <4>1, <4>2 DEF InFlight
    <3> QED
      BY Zenon, <2>4, <3>1, <3>2
  <2>6. \A d \in Deploys : pc'[d] = "committing" => wpc'[d] # "idle"
    BY Zenon, <1>2, <2>2, <2>4 DEF NobodyForgotten
  <2>7. \A w \in Worker : wpc'[w] = "ok" => Len(outcomes'[w]) = Len(jobs'[w])
    BY Zenon, <2>2 DEF NobodyForgotten
  <2> QED
    BY Zenon, <1>1, <2>5, <2>6, <2>7 DEF NobodyForgotten, InFlight
<1>9. CASE \E d \in Deploys : ExecuteDeploy(d)
  <2>1. PICK d \in Deploys : ExecuteDeploy(d)
    BY Zenon, <1>9
  <2>2. CASE UNCHANGED <<wpc, jobs>>
    <3>1. \E s \in {"rejected422", "noop"} : pc' = [pc EXCEPT ![d] = s]
      <4>1. wpc[d] # "locking" \/ pc[d] = "committing"
        BY Zenon, <1>0, <1>2 DEF QueueInv
      <4>2. pc[d] = "executing"
        BY ZenonT(40), <2>1 DEF ExecuteDeploy, Executed
      <4>3. wpc' # [wpc EXCEPT ![d] = "locking"]
        BY SMTT(30), <1>0, <1>2, <2>2, <4>1, <4>2 DEF TypeOK
      <4> QED
        BY Zenon, <2>1, <4>3 DEF ExecuteDeploy
    <3>2. UNCHANGED <<channel, wpc, jobs, outcomes>>
      BY Zenon, <2>1, <2>2 DEF ExecuteDeploy
    <3> QED
      BY ZenonT(40), <1>2, <1>4, <3>1, <3>2
  <2>3. CASE /\ pc' = [pc EXCEPT ![d] = "committing"] /\ wpc' = [wpc EXCEPT ![d] = "locking"]
             /\ jobs' = [jobs EXCEPT ![d] = <<d>>]
    <3>1. UNCHANGED <<channel, outcomes>>
      BY Zenon, <2>1 DEF ExecuteDeploy
    <3>2. Committer # d
      BY ZenonT(40), DistinctActors
    <3>3. /\ jobs'[Committer] = jobs[Committer] /\ wpc'[d] = "locking"
          /\ \A w \in Worker : w # d => wpc'[w] = wpc[w] /\ jobs'[w] = jobs[w]
          /\ \A q \in Request : /\ pc'[q] = "waiting" => pc[q] = "waiting"
                                /\ pc'[q] = "committing" => q = d \/ pc[q] = "committing"
      BY SMTT(30), <1>0, <1>2, <2>3, <3>2 DEF TypeOK
    <3>4. \A w \in Worker : wpc'[w] = "ok" => w # d
      BY <3>3
    <3>5. \A r \in Request : pc'[r] = "waiting" => InFlight(r)'
      <4> TAKE r \in Request
      <4> HAVE pc'[r] = "waiting"
      <4>1. InFlight(r)
        BY Zenon, <3>3 DEF NobodyForgotten, InFlight
      <4>2. wpc'[Committer] = wpc[Committer] /\ jobs'[Committer] = jobs[Committer] /\ channel' = channel
        BY Zenon, <1>2, <3>1, <3>2, <3>3
      <4> QED
        BY Zenon, <4>1, <4>2 DEF InFlight
    <3>6. \A e \in Deploys : pc'[e] = "committing" => wpc'[e] # "idle"
      <4> TAKE e \in Deploys
      <4>1. CASE e = d
        BY <3>3, <4>1
      <4>2. CASE e # d
        BY Zenon, <1>2, <3>3, <4>2 DEF NobodyForgotten
      <4> QED
        BY Zenon, <4>1, <4>2
    <3>7. \A w \in Worker : wpc'[w] = "ok" => Len(outcomes'[w]) = Len(jobs'[w])
      BY ZenonT(40), <3>1, <3>3, <3>4 DEF NobodyForgotten
    <3> QED
      BY Zenon, <1>1, <3>5, <3>6, <3>7 DEF NobodyForgotten, InFlight
  <2> QED
    BY Zenon, <2>1, <2>2, <2>3 DEF ExecuteDeploy
<1>10. CASE \E d \in Deploys : DeployReturns(d)
  <2>1. PICK d \in Deploys : DeployReturns(d)
    BY Zenon, <1>10
  <2>2. /\ UNCHANGED <<channel, jobs, outcomes>> /\ wpc' = [wpc EXCEPT ![d] = "idle"]
        /\ \E s \in {"committed", "executing", "conflict409", "error500"} :
              pc' = [pc EXCEPT ![d] = s]
    BY SMTT(30), <2>1 DEF DeployReturns, Succeed, Retry
  <2>3. Committer # d
    BY Zenon, DistinctActors
  <2>4. /\ \A w \in Worker : (w # d => wpc'[w] = wpc[w]) /\ (w = d => wpc'[w] = "idle")
        /\ \A q \in Request : /\ pc'[q] = "waiting" => pc[q] = "waiting"
                              /\ pc'[q] = "committing" => q # d /\ pc[q] = "committing"
    BY ZenonT(40), <1>0, <1>2, <2>2 DEF TypeOK
  <2>5. \A w \in Worker : wpc'[w] = "ok" => wpc[w] = "ok"
    BY <2>4
  <2>6. \A r \in Request : pc'[r] = "waiting" => InFlight(r)'
    BY ZenonT(40), <1>2, <2>2, <2>3, <2>4 DEF NobodyForgotten, InFlight
  <2>7. \A e \in Deploys : pc'[e] = "committing" => wpc'[e] # "idle"
    BY Zenon, <1>2, <2>4 DEF NobodyForgotten
  <2>8. \A w \in Worker : wpc'[w] = "ok" => Len(outcomes'[w]) = Len(jobs'[w])
    BY Zenon, <2>2, <2>5 DEF NobodyForgotten
  <2> QED
    BY Zenon, <1>1, <2>6, <2>7, <2>8 DEF NobodyForgotten, InFlight
<1>11. CASE Recv
  <2>1. /\ channel # <<>> /\ wpc[Committer] = "idle"
        /\ jobs' = [jobs EXCEPT ![Committer] = <<Head(channel)>>] /\ channel' = Tail(channel)
        /\ wpc' = [wpc EXCEPT ![Committer] = "draining"] /\ UNCHANGED <<pc, outcomes>>
    BY ZenonT(40), <1>11 DEF Recv
  <2>2. /\ jobs'[Committer] = <<Head(channel)>>
        /\ \A w \in Worker : (w # Committer => wpc'[w] = wpc[w] /\ jobs'[w] = jobs[w])
                             /\ (w = Committer => wpc'[w] = "draining")
    BY ZenonT(40), <1>0, <1>2, <2>1 DEF TypeOK
  <2>3. ASSUME NEW i \in DOMAIN channel
        PROVE  \/ \E j \in DOMAIN channel' : channel'[j] = channel[i]
               \/ \E j \in DOMAIN jobs'[Committer] : jobs'[Committer][j] = channel[i]
    <3>1. channel \in Seq(Txs)
      BY <1>0 DEF TypeOK
    <3>2. CASE i = 1
      <4>1. 1 \in DOMAIN jobs'[Committer] /\ jobs'[Committer][1] = channel[i]
        BY <2>1, <2>2, <3>1, <3>2
      <4> QED
        BY Zenon, <4>1
    <3>3. CASE i # 1
      <4>1. i - 1 \in DOMAIN channel' /\ channel'[i - 1] = channel[i]
        BY SMTT(30), <2>1, <3>1, <3>3
      <4> QED
        BY Zenon, <4>1
    <3> QED
      BY Zenon, <3>2, <3>3
  <2>4. /\ wpc'[Committer] # "idle"
        /\ \A w \in Worker : /\ wpc'[w] = "ok" => w # Committer
                             /\ w # Committer /\ wpc'[w] = "idle" => wpc[w] = "idle"
    BY <1>2, <2>2
  <2>5. Committer \notin Deploys
    BY Zenon, DistinctActors
  <2>6. \A r \in Request : pc'[r] = "waiting" => InFlight(r)'
    <3> TAKE r \in Request
    <3> HAVE pc'[r] = "waiting"
    <3>1. PICK i \in DOMAIN channel : channel[i] = r
      BY Zenon, <2>1 DEF NobodyForgotten
    <3> QED
      BY Zenon, <2>3, <2>4, <3>1 DEF InFlight
  <2>7. \A d \in Deploys : pc'[d] = "committing" => wpc'[d] # "idle"
    BY Zenon, <1>2, <2>1, <2>2, <2>5 DEF NobodyForgotten
  <2>8. \A w \in Worker : wpc'[w] = "ok" => Len(outcomes'[w]) = Len(jobs'[w])
    BY ZenonT(40), <2>1, <2>2, <2>4 DEF NobodyForgotten
  <2> QED
    BY Zenon, <1>1, <2>6, <2>7, <2>8 DEF NobodyForgotten, InFlight
<1>12. CASE Drain
  <2>1. CASE channel # <<>> /\ Len(jobs[Committer]) < MAX_BATCH
    <3>1. /\ wpc[Committer] = "draining" /\ channel' = Tail(channel)
          /\ jobs' = [jobs EXCEPT ![Committer] = Append(@, Head(channel))]
          /\ UNCHANGED <<pc, wpc, outcomes>>
      BY Zenon, <1>12, <2>1 DEF Drain
    <3>2. /\ channel \in Seq(Txs) /\ jobs[Committer] \in Seq(Request)
          /\ Head(channel) \in Request
          /\ jobs'[Committer] = Append(jobs[Committer], Head(channel))
          /\ \A w \in Worker : w # Committer => jobs'[w] = jobs[w]
      <4>1. channel \in Seq(Txs) /\ jobs \in [Worker -> Seq(Request)]
        BY Zenon, <1>0 DEF TypeOK
      <4>2. Head(channel) \in Txs
        BY ONLY <2>1, <4>1
      <4>3. Head(channel) \in Request
        BY Zenon, <4>2 DEF Request
      <4> QED
        BY <1>0, <1>2, <3>1, <4>1, <4>3
    <3>3. \A j \in DOMAIN jobs[Committer] :
             j \in DOMAIN jobs'[Committer] /\ jobs'[Committer][j] = jobs[Committer][j]
      BY <3>2
    <3>4. ASSUME NEW i \in DOMAIN channel
          PROVE  \/ \E j \in DOMAIN channel' : channel'[j] = channel[i]
                 \/ \E j \in DOMAIN jobs'[Committer] : jobs'[Committer][j] = channel[i]
      <4>1. CASE i = 1
        <5>1. /\ Len(jobs[Committer]) + 1 \in DOMAIN jobs'[Committer]
              /\ jobs'[Committer][Len(jobs[Committer]) + 1] = channel[i]
          BY SMTT(30), <2>1, <3>2, <4>1
        <5> QED
          BY Zenon, <5>1
      <4>2. CASE i # 1
        <5>1. i - 1 \in DOMAIN channel' /\ channel'[i - 1] = channel[i]
          BY SMTT(30), <2>1, <3>1, <3>2, <4>2
        <5> QED
          BY Zenon, <5>1
      <4> QED
        BY Zenon, <4>1, <4>2
    <3>5. /\ wpc'[Committer] # "idle" /\ wpc[Committer] # "idle"
          /\ \A w \in Worker : wpc'[w] = "ok" => w # Committer
      BY <3>1
    <3>6. \A r \in Request : pc'[r] = "waiting" => InFlight(r)'
      <4> TAKE r \in Request
      <4> HAVE pc'[r] = "waiting"
      <4>1. InFlight(r)
        BY Zenon, <3>1 DEF NobodyForgotten, InFlight
      <4> QED
        BY Zenon, <3>3, <3>4, <3>5, <4>1 DEF InFlight
    <3>7. \A d \in Deploys : pc'[d] = "committing" => wpc'[d] # "idle"
      BY Zenon, <1>2, <3>1 DEF NobodyForgotten
    <3>8. \A w \in Worker : wpc'[w] = "ok" => Len(outcomes'[w]) = Len(jobs'[w])
      BY Zenon, <3>1, <3>2, <3>5 DEF NobodyForgotten
    <3> QED
      BY Zenon, <1>1, <3>6, <3>7, <3>8 DEF NobodyForgotten, InFlight
  <2>2. CASE ~(channel # <<>> /\ Len(jobs[Committer]) < MAX_BATCH)
    <3>1. /\ wpc' = [wpc EXCEPT ![Committer] = "locking"]
          /\ UNCHANGED <<pc, channel, jobs, outcomes>>
      BY ZenonT(40), <1>12, <2>2 DEF Drain
    <3>2. \A w \in Worker : /\ wpc'[w] = "idle" => wpc[w] = "idle"
                            /\ wpc'[w] = "ok" => wpc[w] = "ok"
      BY ZenonT(40), <1>0, <3>1 DEF TypeOK
    <3> QED
      BY Zenon, <1>1, <3>1, <3>2, ForgottenFrame
  <2> QED
    BY Zenon, <2>1, <2>2
<1>13. CASE Reply
  <2>1. /\ wpc' = [wpc EXCEPT ![Committer] = "idle"] /\ UNCHANGED <<channel, jobs, outcomes>>
        /\ pc' = [r \in Request |->
                 IF pc[r] = "waiting" /\ \E i \in DOMAIN jobs[Committer] : jobs[Committer][i] = r
                 THEN Verdict(CHOOSE i \in DOMAIN jobs[Committer] : jobs[Committer][i] = r)
                 ELSE pc[r]]
    BY ZenonT(40), <1>13 DEF Reply
  <2>2. \A i : Verdict(i) \in {"replyCommitted", "replyConflict"}
    BY ZenonT(40) DEF Verdict
  <2>3. ASSUME NEW r \in Request
        PROVE  /\ pc'[r] = "waiting" =>
                     /\ pc[r] = "waiting"
                     /\ ~\E i \in DOMAIN jobs[Committer] : jobs[Committer][i] = r
               /\ pc'[r] = "committing" => pc[r] = "committing"
    <3> DEFINE v == Verdict(CHOOSE i \in DOMAIN jobs[Committer] : jobs[Committer][i] = r)
    <3>1. v # "waiting" /\ v # "committing"
      BY <2>2
    <3>2. pc'[r] = IF pc[r] = "waiting" /\ \E i \in DOMAIN jobs[Committer] : jobs[Committer][i] = r
                   THEN v ELSE pc[r]
      BY ZenonT(40), <2>1
    <3> HIDE DEF v
    <3> QED
      BY <3>1, <3>2
  <2>4. \A w \in Worker : (w # Committer => wpc'[w] = wpc[w]) /\ (w = Committer => wpc'[w] = "idle")
    BY ZenonT(40), <1>0, <2>1 DEF TypeOK
  <2>5. \A w \in Worker : wpc'[w] = "ok" => wpc[w] = "ok"
    BY <2>4
  <2>6. Committer \notin Deploys
    BY Zenon, DistinctActors
  <2>7. \A r \in Request : pc'[r] = "waiting" => InFlight(r)'
    <3> TAKE r \in Request
    <3> HAVE pc'[r] = "waiting"
    <3>1. \E i \in DOMAIN channel : channel[i] = r
      BY Zenon, <2>3 DEF NobodyForgotten
    <3> QED
      BY Zenon, <2>1, <3>1 DEF InFlight
  <2>8. \A d \in Deploys : pc'[d] = "committing" => wpc'[d] # "idle"
    <3> TAKE d \in Deploys
    <3>1. d \in Request /\ wpc'[d] = wpc[d]
      BY Zenon, <1>2, <2>4, <2>6
    <3> QED
      BY Zenon, <2>3, <3>1 DEF NobodyForgotten
  <2>9. \A w \in Worker : wpc'[w] = "ok" => Len(outcomes'[w]) = Len(jobs'[w])
    BY Zenon, <2>1, <2>5 DEF NobodyForgotten
  <2> QED
    BY Zenon, <1>1, <2>7, <2>8, <2>9 DEF NobodyForgotten, InFlight
<1>14. CASE \E w \in Worker : Acquire(w) \/ CommitError(w)
  <2>1. PICK w \in Worker : Acquire(w) \/ CommitError(w)
    BY Zenon, <1>14
  <2>2. /\ \E s \in {"validating", "err"} : wpc' = [wpc EXCEPT ![w] = s]
        /\ UNCHANGED <<pc, channel, jobs>>
        /\ outcomes' = outcomes \/ outcomes' = [outcomes EXCEPT ![w] = <<>>]
    BY ZenonT(40), <2>1 DEF Acquire, CommitError
  <2>3. \A v \in Worker : /\ wpc'[v] = "idle" => wpc[v] = "idle"
                          /\ wpc'[v] = "ok" => wpc[v] = "ok" /\ outcomes'[v] = outcomes[v]
    BY SMTT(30), <1>0, <2>2 DEF TypeOK
  <2> QED
    BY Zenon, <1>1, <1>2, <2>2, <2>3 DEF NobodyForgotten
<1>15. CASE \E w \in Worker : validate_and_apply_job(w)
  <2>1. PICK w \in Worker : validate_and_apply_job(w)
    BY Zenon, <1>15
  <2>2. /\ UNCHANGED <<pc, channel, jobs, wpc>> /\ wpc[w] = "validating"
        /\ \E o : outcomes' = [outcomes EXCEPT ![w] = o]
    BY ZenonT(40), <2>1 DEF validate_and_apply_job
  <2>3. \A v \in Worker : wpc[v] = "ok" => outcomes'[v] = outcomes[v]
    BY <1>0, <2>2 DEF TypeOK
  <2> QED
    BY Zenon, <1>1, <1>2, <2>2, <2>3 DEF NobodyForgotten
<1>16. CASE \E w \in Worker : WriteBatch(w)
  <2>1. PICK w \in Worker : WriteBatch(w)
    BY Zenon, <1>16
  <2>2. /\ UNCHANGED <<pc, channel, jobs, outcomes>> /\ Len(outcomes[w]) = Len(jobs[w])
        /\ wpc' = [wpc EXCEPT ![w] = "ok"]
    BY ZenonT(40), <2>1 DEF WriteBatch
  <2>3. \A v \in Worker : /\ wpc'[v] = "idle" => wpc[v] = "idle"
                          /\ wpc'[v] = "ok" => v = w \/ wpc[v] = "ok"
    BY <1>0, <2>2 DEF TypeOK
  <2> QED
    BY Zenon, <1>1, <1>2, <2>2, <2>3 DEF NobodyForgotten
<1>17. CASE Crash
  <2>1. /\ wpc' = [w \in Worker |-> "idle"] /\ lock' = None
        /\ pc' = [r \in Request |-> IF pc[r] \in Pending \ {"idle"} THEN "lost" ELSE pc[r]]
    BY Zenon, <1>17 DEF Crash
  <2>2. \A r \in Request : pc'[r] # "waiting" /\ pc'[r] # "committing"
    BY <2>1 DEF Pending
  <2>3. \A w \in Worker : wpc'[w] # "ok"
    BY <2>1
  <2> QED
    BY Zenon, <1>1, <1>2, <2>2, <2>3 DEF NobodyForgotten
<1> QED
  BY ZenonT(40), <1>3, <1>5, <1>6, <1>7, <1>8, <1>9, <1>10, <1>11, <1>12, <1>13, <1>14, <1>15,
     <1>16, <1>17 DEF Next

\* No handler is left waiting for a verdict nobody will give: the part of "every
\* request is answered" that is a matter of safety, for every number of requests
\* and size of the channel and the batches.
THEOREM EveryWaitIsServed == Spec => []NobodyForgotten
<1>1. Init => NobodyForgotten
  BY DEF Init, NobodyForgotten, Request, Worker
<1>2. IInv /\ [Next]_vars => IInv'
  BY Zenon, TypeStep, QueueStep, HistoryStep DEF IInv
<1>3. IInv /\ IInv' /\ NobodyForgotten /\ [Next]_vars => NobodyForgotten'
  BY ForgottenStep
<1> QED
  BY <1>1, <1>2, <1>3, InitInv, PTL DEF Spec
=============================================================================
