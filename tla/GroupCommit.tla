----------------------------- MODULE GroupCommit -----------------------------
(***************************************************************************)
(* The commit pipeline of one namespace of the rend server: the request    *)
(* handlers do_tx, do_deploy, do_query and do_compile of                   *)
(* rend-server/src/lib.rs, the committer task of                           *)
(* rend-server/src/committer.rs and RocksKv::commit_batch of               *)
(* rend-rocksdb/src/lib.rs.                                                *)
(*                                                                         *)
(* A request executes its program against the LIVE store, one cell read at *)
(* a time, and records what it observed.  A tx hands (reads, writes) to    *)
(* the namespace's committer over a bounded channel and awaits a reply; a  *)
(* deploy calls commit_batch itself.  commit_batch takes the namespace     *)
(* mutex, validates its jobs in order against an overlay of the earlier    *)
(* ones, and installs the overlay in one atomic RocksDB write.             *)
(***************************************************************************)
EXTENDS CellStore

CONSTANTS
    Txs, Deploys, Queries,  \* the requests, by endpoint
    Assignments,            \* which program each request may carry
    NoConstructor,          \* the entry point of an artifact without a constructor
    NeedsArtifact(_),       \* artifacts the request names
    Artifact,               \* artifacts that can be compiled
    None,                   \* no lock holder
    Committer,              \* the namespace's committer task
    Durable,                \* RocksKv::durable
    MAX_BATCH, CHANNEL_CAP, COMMIT_MAX_ATTEMPTS,
    MaxCrashes, MaxFaults   \* bounds on crashes and on RocksDB errors

Request == Txs \cup Deploys \cup Queries
Worker == {Committer} \cup Deploys    \* the callers of commit_batch

\* The kinds of request are told apart, and each request carries a program.
ASSUME DistinctActors ==
    /\ Txs \cap Deploys = {} /\ Txs \cap Queries = {} /\ Deploys \cap Queries = {}
    /\ Committer \notin Deploys /\ None \notin Worker

ASSUME AssignmentTypes == Assignments \subseteq [Request -> Program]

ASSUME BoundTypes ==
    /\ COMMIT_MAX_ATTEMPTS \in Nat \ {0}
    /\ MaxCrashes \in Nat /\ MaxFaults \in Nat

VARIABLES
    disk,       \* RocksDB's current rows
    stable,     \* the rows a crash cannot lose
    artifacts,  \* artifacts stored by do_compile
    safeArts,   \* the artifacts a crash cannot lose
    program,    \* the program each request carries
    pc,         \* where each request's handler is
    obs,        \* the read set of its current attempt
    attempt,    \* failed commit attempts so far
    channel,    \* the committer's inbox: the requests whose jobs are queued
    lock,       \* holder of the namespace's commit mutex
    wpc,        \* where each caller of commit_batch is
    jobs,       \* the batch it passed
    overlay,    \* commit_batch's overlay
    outcomes,   \* commit_batch's results so far
    crashes, faults,
    hist,       \* history: the jobs applied so far, the lock holder's included
    states,     \* history: states[i] is the store before hist[i]
    committed,  \* history: how much of hist has been written to disk
    survives    \* history: how much of it a crash cannot lose

store == <<disk, stable, artifacts, safeArts>>
handler == <<program, pc, obs, attempt>>
batch == <<lock, wpc, jobs, overlay, outcomes>>
bounds == <<crashes, faults>>
history == <<hist, states, committed, survives>>
vars == <<store, handler, channel, batch, bounds, history>>

Answered == {"committed", "conflict409", "rejected422", "notfound", "error500",
             "answered", "noop", "lost", "disconnected"}
Pending == {"idle", "executing", "sending", "waiting", "committing",
            "replyCommitted", "replyConflict"}

-----------------------------------------------------------------------------

Init ==
    /\ disk = Fresh
    /\ stable = disk
    /\ artifacts = {} /\ safeArts = {}
    /\ program \in Assignments
    /\ pc = [r \in Request |-> "idle"]
    /\ obs = [r \in Request |-> <<>>]
    /\ attempt = [r \in Request |-> 0]
    /\ channel = <<>>
    /\ lock = None
    /\ wpc = [w \in Worker |-> "idle"]
    /\ jobs = [w \in Worker |-> <<>>]
    /\ overlay = [w \in Worker |-> <<>>]
    /\ outcomes = [w \in Worker |-> <<>>]
    /\ crashes = 0 /\ faults = 0
    /\ hist = <<>>
    /\ states = <<disk>>
    /\ committed = 0 /\ survives = 0

(***************************************************************************)
(* Request handlers.                                                       *)
(***************************************************************************)

\* do_compile: the artifact's bytes are put by RocksKv::apply, outside the
\* commit mutex and without a sync.
Compile(a) ==
    /\ a \notin artifacts
    /\ artifacts' = artifacts \cup {a}
    /\ UNCHANGED <<disk, stable, safeArts, handler, channel, batch, bounds, history>>

\* Mutant: the artifacts a request names are not looked up.
AcceptUnresolved(r) ==
    /\ pc[r] = "idle"
    /\ pc' = [pc EXCEPT ![r] = "executing"]
    /\ UNCHANGED <<store, program, obs, attempt, channel, batch, bounds, history>>

\* resolve_deps / read_artifact, and compile_tx, before the first attempt.  A
\* read that RocksDB fails is taken for a missing artifact.
Accept(r) ==
    LET needs == NeedsArtifact(program[r])
    IN  /\ pc[r] = "idle"
        /\ \/ /\ pc' = [pc EXCEPT ![r] = IF needs \subseteq artifacts THEN "executing"
                                                                  ELSE "notfound"]
              /\ UNCHANGED faults
           \/ /\ needs # {}
              /\ faults < MaxFaults
              /\ faults' = faults + 1
              /\ pc' = [pc EXCEPT ![r] = "notfound"]
        /\ UNCHANGED <<store, program, obs, attempt, channel, batch, crashes, history>>

Record(r, c, v) ==
    obs' = [obs EXCEPT ![r] = [d \in DOMAIN obs[r] \cup {c} |->
               IF d = c THEN v ELSE obs[r][d]]]

\* NamespacedKv::get: a read of the live database, not of a snapshot.
ReadCell(r) ==
    /\ pc[r] = "executing"
    /\ \E c \in ReadsOf(program[r]) \ DOMAIN obs[r] : Record(r, c, ReadIn(disk, c))
    /\ UNCHANGED <<store, program, pc, attempt, channel, batch, bounds, history>>

\* A read that RocksDB fails is taken for a missing row.
ReadError(r) ==
    /\ pc[r] = "executing"
    /\ faults < MaxFaults
    /\ faults' = faults + 1
    /\ \E c \in ReadsOf(program[r]) \ DOMAIN obs[r] : Record(r, c, DefaultOf[c])
    /\ UNCHANGED <<store, program, pc, attempt, channel, batch, crashes, history>>

Executed(r) == pc[r] = "executing" /\ DOMAIN obs[r] = ReadsOf(program[r])
Reverts(r) == Fails(program[r], obs[r])
Writes(r) == Effect(program[r], obs[r])

\* execute_tx returns: an error ends the request at once, otherwise the job is
\* handed over.
ExecuteTx(r) ==
    /\ r \in Txs
    /\ Executed(r)
    /\ pc' = [pc EXCEPT ![r] = IF Reverts(r) THEN "rejected422" ELSE "sending"]
    /\ UNCHANGED <<store, program, obs, attempt, channel, batch, bounds, history>>

\* mpsc::Sender::send suspends while the channel is full.
Send(r) ==
    /\ pc[r] = "sending"
    /\ Len(channel) < CHANNEL_CAP
    /\ channel' = Append(channel, r)
    /\ pc' = [pc EXCEPT ![r] = "waiting"]
    /\ UNCHANGED <<store, program, obs, attempt, batch, bounds, history>>

\* The client goes away while do_tx is suspended: the handler's future is
\* dropped, but a job that was already sent stays with the committer.
Disconnect(r) ==
    /\ pc[r] \in {"sending", "waiting"}
    /\ pc' = [pc EXCEPT ![r] = "disconnected"]
    /\ UNCHANGED <<store, program, obs, attempt, channel, batch, bounds, history>>

\* Mutant: one attempt too many.
RetryOnceMore(r) ==
    /\ attempt' = [attempt EXCEPT ![r] = @ + 1]
    /\ pc' = [pc EXCEPT ![r] = IF attempt[r] < COMMIT_MAX_ATTEMPTS
                               THEN "executing" ELSE "conflict409"]
    /\ obs' = IF attempt[r] < COMMIT_MAX_ATTEMPTS THEN [obs EXCEPT ![r] = <<>>] ELSE obs

\* Conflict => continue, up to COMMIT_MAX_ATTEMPTS executions.
Retry(r) ==
    /\ attempt' = [attempt EXCEPT ![r] = @ + 1]
    /\ pc' = [pc EXCEPT ![r] = IF attempt[r] + 1 < COMMIT_MAX_ATTEMPTS
                               THEN "executing" ELSE "conflict409"]
    /\ obs' = IF attempt[r] + 1 < COMMIT_MAX_ATTEMPTS
              THEN [obs EXCEPT ![r] = <<>>] ELSE obs

Succeed(r) ==
    /\ pc' = [pc EXCEPT ![r] = "committed"]
    /\ UNCHANGED <<obs, attempt>>

\* do_tx resumes with the committer's verdict.
ReceiveReply(r) ==
    /\ \/ pc[r] = "replyCommitted" /\ Succeed(r)
       \/ pc[r] = "replyConflict" /\ Retry(r)
    /\ UNCHANGED <<store, program, channel, batch, bounds, history>>

\* do_deploy: the same loop, calling commit_with_occ on its own thread.
ExecuteDeploy(d) ==
    /\ d \in Deploys
    /\ Executed(d)
    /\ \/ /\ program[d] = NoConstructor
          /\ pc' = [pc EXCEPT ![d] = "noop"]
          /\ UNCHANGED <<wpc, jobs>>
       \/ /\ program[d] # NoConstructor /\ Reverts(d)
          /\ pc' = [pc EXCEPT ![d] = "rejected422"]
          /\ UNCHANGED <<wpc, jobs>>
       \/ /\ program[d] # NoConstructor /\ ~Reverts(d)
          /\ pc' = [pc EXCEPT ![d] = "committing"]
          /\ wpc' = [wpc EXCEPT ![d] = "locking"]
          /\ jobs' = [jobs EXCEPT ![d] = <<d>>]
    /\ UNCHANGED <<store, program, obs, attempt, channel, lock, overlay, outcomes,
                   bounds, history>>

DeployReturns(d) ==
    /\ \/ wpc[d] = "ok" /\ outcomes[d] = <<"Committed">> /\ Succeed(d)
       \/ wpc[d] = "ok" /\ outcomes[d] = <<"Conflict">> /\ Retry(d)
       \/ /\ wpc[d] = "err"
          /\ pc' = [pc EXCEPT ![d] = "error500"]
          /\ UNCHANGED <<obs, attempt>>
    /\ wpc' = [wpc EXCEPT ![d] = "idle"]
    /\ UNCHANGED <<store, program, channel, lock, jobs, overlay, outcomes, bounds, history>>

\* do_query: the result is returned without validating the reads.
AnswerQuery(q) ==
    /\ q \in Queries
    /\ Executed(q)
    /\ pc' = [pc EXCEPT ![q] = IF Reverts(q) THEN "rejected422" ELSE "answered"]
    /\ UNCHANGED <<store, program, obs, attempt, channel, batch, bounds, history>>

(***************************************************************************)
(* The committer task: run and process_batch.                              *)
(***************************************************************************)

\* rx.recv().await
Recv ==
    /\ wpc[Committer] = "idle"
    /\ channel # <<>>
    /\ jobs' = [jobs EXCEPT ![Committer] = <<Head(channel)>>]
    /\ channel' = Tail(channel)
    /\ wpc' = [wpc EXCEPT ![Committer] = "draining"]
    /\ UNCHANGED <<store, handler, lock, overlay, outcomes, bounds, history>>

\* The greedy drain: try_recv until the channel is empty or the batch is full,
\* then commit_batch is called.
Drain ==
    /\ wpc[Committer] = "draining"
    /\ IF channel # <<>> /\ Len(jobs[Committer]) < MAX_BATCH
       THEN /\ jobs' = [jobs EXCEPT ![Committer] = Append(@, Head(channel))]
            /\ channel' = Tail(channel)
            /\ UNCHANGED wpc
       ELSE /\ wpc' = [wpc EXCEPT ![Committer] = "locking"]
            /\ UNCHANGED <<jobs, channel>>
    /\ UNCHANGED <<store, handler, lock, overlay, outcomes, bounds, history>>

\* Mutant: the outcomes are sent although the batch was not written.
VerdictIgnoringError(i) ==
    IF i \in DOMAIN outcomes[Committer] /\ outcomes[Committer][i] = "Committed"
    THEN "replyCommitted" ELSE "replyConflict"

\* The verdict sent to the i-th job of the batch: its own outcome or, when
\* commit_batch failed as a whole, a synthetic Conflict.
Verdict(i) ==
    IF wpc[Committer] = "ok" /\ outcomes[Committer][i] = "Committed"
    THEN "replyCommitted" ELSE "replyConflict"

\* Mutant: when commit_batch fails nobody is told.
ReplySilentOnError ==
    /\ wpc[Committer] \in {"ok", "err"}
    /\ pc' = [r \in Request |->
                 IF /\ wpc[Committer] = "ok" /\ pc[r] = "waiting"
                    /\ \E i \in DOMAIN jobs[Committer] : jobs[Committer][i] = r
                 THEN Verdict(CHOOSE i \in DOMAIN jobs[Committer] : jobs[Committer][i] = r)
                 ELSE pc[r]]
    /\ wpc' = [wpc EXCEPT ![Committer] = "idle"]
    /\ UNCHANGED <<store, program, obs, attempt, channel, lock, jobs, overlay, outcomes,
                   bounds, history>>

Reply ==
    /\ wpc[Committer] \in {"ok", "err"}
    /\ pc' = [r \in Request |->
                 IF pc[r] = "waiting" /\ \E i \in DOMAIN jobs[Committer] : jobs[Committer][i] = r
                 THEN Verdict(CHOOSE i \in DOMAIN jobs[Committer] : jobs[Committer][i] = r)
                 ELSE pc[r]]
    /\ wpc' = [wpc EXCEPT ![Committer] = "idle"]
    /\ UNCHANGED <<store, program, obs, attempt, channel, lock, jobs, overlay, outcomes,
                   bounds, history>>

(***************************************************************************)
(* RocksKv::commit_batch, for each of its callers.                         *)
(***************************************************************************)

Acquire(w) ==
    /\ wpc[w] = "locking"
    /\ lock = None
    /\ lock' = w
    /\ overlay' = [overlay EXCEPT ![w] = <<>>]
    /\ outcomes' = [outcomes EXCEPT ![w] = <<>>]
    /\ wpc' = [wpc EXCEPT ![w] = "validating"]
    /\ UNCHANGED <<store, handler, channel, jobs, bounds, history>>

\* Mutant: a job is validated against the disk, not against the batch so far.
LiveOnDisk(w, c) == disk[c]

\* The effective value of a cell for the next job: overlay first, then disk.
Live(w, c) == IF c \in DOMAIN overlay[w] THEN overlay[w][c] ELSE disk[c]

\* Mutant: only the cells a job writes are validated.
MismatchedWritten(w, r) ==
    {c \in DOMAIN obs[r] \cap DOMAIN Writes(r) : ~read_matches(c, Live(w, c), obs[r][c])}

Mismatched(w, r) ==
    {c \in DOMAIN obs[r] : ~read_matches(c, Live(w, c), obs[r][c])}

Merged(w, r, c) ==
    MergeThreeWay(Writes(r)[c],
                  IF Live(w, c) = Absent THEN DefaultOf[c] ELSE Live(w, c),
                  obs[r][c])

\* A stale read is tolerated only on a map root the job also writes, and whose
\* three roots merge.
Reconcilable(w, r, c) ==
    /\ c \in MapCells
    /\ c \in DOMAIN Writes(r)
    /\ Merged(w, r, c) # NoMerge

JobApplies(w, r) == \A c \in Mismatched(w, r) : Reconcilable(w, r, c)

\* Mutant: the job's own map root is installed instead of the merged one.
LocalWritesUnmerged(w, r) == Writes(r)

LocalWrites(w, r) ==
    [c \in DOMAIN Writes(r) |->
        IF c \in Mismatched(w, r) THEN Merged(w, r, c) ELSE Writes(r)[c]]

Promote(o, g) ==
    [c \in DOMAIN o \cup DOMAIN g |-> IF c \in DOMAIN g THEN g[c] ELSE o[c]]

NextJob(w) == jobs[w][Len(outcomes[w]) + 1]

validate_and_apply_job(w) ==
    /\ wpc[w] = "validating"
    /\ Len(outcomes[w]) < Len(jobs[w])
    /\ LET r == NextJob(w) IN
       \/ /\ JobApplies(w, r)
          /\ overlay' = [overlay EXCEPT ![w] = Promote(@, LocalWrites(w, r))]
          /\ outcomes' = [outcomes EXCEPT ![w] = Append(@, "Committed")]
          /\ hist' = Append(hist, [req |-> r, reads |-> obs[r],
                                   writes |-> LocalWrites(w, r),
                                   merged |-> Mismatched(w, r)])
          /\ states' = Append(states, Update(states[Len(states)], LocalWrites(w, r)))
       \/ /\ ~JobApplies(w, r)
          /\ outcomes' = [outcomes EXCEPT ![w] = Append(@, "Conflict")]
          /\ UNCHANGED <<overlay, hist, states>>
    /\ UNCHANGED <<store, handler, channel, lock, wpc, jobs, bounds,
                   committed, survives>>

\* One WriteBatch of the whole overlay.  With durable = true the write is
\* synced, and the sync covers every earlier record of the log; otherwise it
\* bypasses the log.
WriteBatch(w) ==
    /\ wpc[w] = "validating"
    /\ Len(outcomes[w]) = Len(jobs[w])
    /\ disk' = Update(disk, overlay[w])
    /\ IF Durable
       THEN stable' = disk' /\ safeArts' = artifacts /\ survives' = Len(hist)
       ELSE UNCHANGED <<stable, safeArts, survives>>
    /\ committed' = Len(hist)
    /\ lock' = None
    /\ wpc' = [wpc EXCEPT ![w] = "ok"]
    /\ UNCHANGED <<artifacts, handler, channel, jobs, overlay, outcomes, bounds, hist, states>>

\* db.get fails during validation, or write_opt fails: commit_batch returns Err
\* and nothing of the batch is installed.
CommitError(w) ==
    /\ wpc[w] = "validating"
    /\ faults < MaxFaults
    /\ faults' = faults + 1
    /\ lock' = None
    /\ wpc' = [wpc EXCEPT ![w] = "err"]
    /\ hist' = SubSeq(hist, 1, committed)
    /\ states' = SubSeq(states, 1, committed + 1)
    /\ UNCHANGED <<store, handler, channel, jobs, overlay, outcomes, crashes, committed,
                   survives>>

(***************************************************************************)
(* The environment: RocksDB's background flush, and crashes of the node.   *)
(***************************************************************************)

Flush ==
    /\ stable # disk \/ safeArts # artifacts
    /\ stable' = disk /\ safeArts' = artifacts
    /\ survives' = committed
    /\ UNCHANGED <<disk, artifacts, handler, channel, batch, bounds, hist, states, committed>>

\* The process dies and restarts on what survived: open() rebuilds nothing else,
\* every handler, the channel and the commit mutexes are gone.
Crash ==
    /\ crashes < MaxCrashes
    /\ crashes' = crashes + 1
    /\ disk' = stable
    /\ \E A \in SUBSET artifacts : safeArts \subseteq A /\ artifacts' = A
    /\ pc' = [r \in Request |-> IF pc[r] \in Pending \ {"idle"} THEN "lost" ELSE pc[r]]
    /\ channel' = <<>>
    /\ lock' = None
    /\ wpc' = [w \in Worker |-> "idle"]
    /\ jobs' = [w \in Worker |-> <<>>]
    /\ overlay' = [w \in Worker |-> <<>>]
    /\ outcomes' = [w \in Worker |-> <<>>]
    /\ hist' = SubSeq(hist, 1, survives)
    /\ states' = SubSeq(states, 1, survives + 1)
    /\ committed' = survives
    /\ UNCHANGED <<stable, safeArts, program, obs, attempt, faults, survives>>

\* Every request has been answered and nothing is in flight.
Idle ==
    /\ \A r \in Request : pc[r] \in Answered
    /\ channel = <<>>
    /\ \A w \in Worker : wpc[w] = "idle"
    /\ UNCHANGED vars

HandlerStep(r) ==
    \/ ReadCell(r) \/ ExecuteTx(r) \/ Send(r) \/ ReceiveReply(r)
    \/ AnswerQuery(r) \/ ExecuteDeploy(r)

CommitBatchStep(w) == Acquire(w) \/ validate_and_apply_job(w) \/ WriteBatch(w)

Next ==
    \/ \E a \in Artifact : Compile(a)
    \/ \E r \in Request : Accept(r)
    \/ \E r \in Request : ReadCell(r)
    \/ \E r \in Request : ReadError(r)
    \/ \E r \in Txs : ExecuteTx(r)
    \/ \E r \in Txs : Send(r)
    \/ \E r \in Txs : Disconnect(r)
    \/ \E r \in Txs : ReceiveReply(r)
    \/ \E d \in Deploys : ExecuteDeploy(d)
    \/ \E d \in Deploys : DeployReturns(d)
    \/ \E q \in Queries : AnswerQuery(q)
    \/ Recv
    \/ Drain
    \/ Reply
    \/ \E w \in Worker : Acquire(w)
    \/ \E w \in Worker : validate_and_apply_job(w)
    \/ \E w \in Worker : WriteBatch(w)
    \/ \E w \in Worker : CommitError(w)
    \/ Flush
    \/ Crash
    \/ Idle

Spec == Init /\ [][Next]_vars

\* The server's own tasks keep running: tokio polls every ready task, and the
\* blocking pool runs commit_batch.  Nothing is assumed of clients (Accept,
\* Disconnect, Compile), of RocksDB's flush, of its errors or of crashes.
Fairness ==
    /\ \A r \in Request : WF_vars(HandlerStep(r))
    /\ \A d \in Deploys : WF_vars(DeployReturns(d))
    /\ WF_vars(Recv) /\ WF_vars(Drain) /\ WF_vars(Reply)
    /\ \A w \in Worker : WF_vars(CommitBatchStep(w))

FairSpec == Spec /\ Fairness

-----------------------------------------------------------------------------
(***************************************************************************)
(* Properties.                                                             *)
(***************************************************************************)

Entry == [req : Request, reads : Observation, writes : Observation, merged : SUBSET Cells]
WorkerState == {"idle", "draining", "locking", "validating", "ok", "err"}

\* The type invariant.
TypeOK ==
    /\ disk \in [Cells -> Row] /\ stable \in [Cells -> Row]
    /\ artifacts \subseteq Artifact /\ safeArts \subseteq Artifact
    /\ program \in [Request -> Program]
    /\ pc \in [Request -> Pending \cup Answered]
    /\ obs \in [Request -> Observation]
    /\ attempt \in [Request -> 0 .. COMMIT_MAX_ATTEMPTS]
    /\ channel \in Seq(Txs)
    /\ lock \in Worker \cup {None}
    /\ wpc \in [Worker -> WorkerState]
    /\ jobs \in [Worker -> Seq(Request)]
    /\ overlay \in [Worker -> Observation]
    /\ outcomes \in [Worker -> Seq({"Committed", "Conflict"})]
    /\ crashes \in Nat /\ faults \in Nat
    /\ hist \in Seq(Entry)
    /\ states \in Seq([Cells -> Row])
    /\ committed \in Nat /\ survives \in Nat

\* The jobs that were applied form a serial history that explains the disk: each
\* one read, in every cell that was not merged, exactly what its predecessors
\* left there, and the store is the result of installing their writes in that
\* order.  This is what the commit mutex, the overlay and read_matches of
\* commit_batch are for, although execution reads the live database cell by cell.
SerialHistory ==
    /\ Len(states) = Len(hist) + 1
    /\ committed <= Len(hist)
    /\ disk = states[committed + 1]
    /\ \A i \in 1 .. Len(hist) :
          /\ states[i + 1] = Update(states[i], hist[i].writes)
          /\ \A c \in DOMAIN hist[i].reads \ hist[i].merged :
                hist[i].reads[c] = ReadIn(states[i], c)

\* The log the store shows: the requests whose batch has been written, in the
\* order commit_batch validated them, and the store each one left.
CommittedLog ==
    [i \in 1 .. committed |-> [req |-> hist[i].req, prog |-> program[hist[i].req],
                               seen |-> hist[i].reads, after |-> states[i + 1]]]

Serial == INSTANCE MergingStore WITH base <- Fresh, log <- CommittedLog, db <- disk

\* The pipeline implements the serial store: clients that read cell by cell from
\* the live database, several to a batch, over crashes, errors and retries, get
\* the effects of running their programs one at a time.
ImplementsSerialStore == Serial!Spec

\* With any programs on maps: what commit_batch installs is the writes the tx
\* computed, but for map roots that changed since it read them, which are merged
\* into what the predecessors left; every other cell it read is as it read it.
ImplementsMergingStore == Serial!MergingSpec

\* No two requests use the same key of a map, and a merge respects keys.
DisjointKeys(Key, at, keys) ==
    /\ MergesByKey(Key, at)
    /\ \A p \in Program : /\ KeyByKey(p, Key, at, keys[p])
                          /\ \A c \in MapCells : keys[p][c] \subseteq Key
    /\ \A a \in Assignments : \A r, q \in Request : r # q =>
          \A c \in MapCells : keys[a[r]][c] \cap keys[a[q]][c] = {}

\* With requests that use different keys the pipeline is serial again.
ImplementsKeyedStore(Key, at) == Serial!KeyedSpec(Key, at)

\* A request takes effect at most once however often do_tx or do_deploy
\* re-executes it, exactly once when it is answered 200, and not at all when it
\* is answered with an error; 200 survives a crash when commits are durable.
ExactlyOnce ==
    LET applied == 1 .. committed IN
    /\ \A i, j \in applied : hist[i].req = hist[j].req => i = j
    /\ \A r \in Request :
          LET hit == \E i \in applied : hist[i].req = r IN
          /\ pc[r] = "committed" => hit \/ (~Durable /\ crashes > 0)
          /\ pc[r] \in {"conflict409", "rejected422", "notfound", "error500", "noop",
                        "answered"} => ~hit

\* Nobody is forgotten: a handler that awaits a verdict has its job in the channel
\* or in the batch the committer is at work on, one that called commit_with_occ is
\* still inside it, every job of a written batch has an outcome, and whoever holds
\* the commit mutex is validating, so that every one of them is answered although
\* batches fail as a whole, clients go away and jobs are executed again.
NobodyForgotten ==
    /\ \A r \in Request : pc[r] = "waiting" =>
          \/ \E i \in DOMAIN channel : channel[i] = r
          \/ /\ wpc[Committer] # "idle"
             /\ \E i \in DOMAIN jobs[Committer] : jobs[Committer][i] = r
    /\ \A d \in Deploys : pc[d] = "committing" => wpc[d] # "idle"
    /\ \A w \in Worker : wpc[w] = "ok" => Len(outcomes[w]) = Len(jobs[w])
    /\ lock # None => wpc[lock] = "validating"

\* State never outlives the code that produced it: with durable commits every
\* artifact a committed request was compiled against is as safe as its writes,
\* although do_compile itself does not sync.
CodeOutlivesState ==
    Durable => \A i \in 1 .. committed : NeedsArtifact(program[hist[i].req]) \subseteq safeArts

\* commit_batch reports Conflict only for a job one of whose reads no longer
\* holds: "a read had been overwritten since the rend tx recorded it".
ConflictMeansOverwritten ==
    [][\A w \in Worker :
         (/\ wpc[w] = "validating"
          /\ outcomes'[w] = Append(outcomes[w], "Conflict"))
         => LET r == NextJob(w) IN
            \E c \in DOMAIN obs[r] :
               obs[r][c] # IF Live(w, c) = Absent THEN DefaultOf[c] ELSE Live(w, c)]_vars

\* Every request the server starts on is answered.
EveryRequestAnswered ==
    \A r \in Request : (pc[r] \in Pending \ {"idle"}) ~> (pc[r] \in Answered)
=============================================================================
