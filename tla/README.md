# A TLA+ model of rend

rend is a typed contract language with a transactional store. A program runs
against a key-value store and yields a read set, a write set and a result; the
host decides what to do with them. The server gives every organisation a
namespace of one RocksDB database and commits the write sets under optimistic
concurrency control, with a three-way merge for persistent maps and vectors.

The modules here are translated from the Rust sources under `src/crates`.
`PROJECT.json` maps every definition to the lines it models.

## The system

| Part | State | Operations | What is hard about it |
|---|---|---|---|
| Commit pipeline: `rend-server/src/lib.rs`, `committer.rs`, `rend-rocksdb/src/lib.rs` | RocksDB rows, artifacts, a bounded channel and a mutex per namespace, one batch per committer | compile, deploy, tx, query; receive, drain, validate, write, reply | Execution reads the live database cell by cell. Jobs are validated later, in batches, beside deploys on other threads. Writes fail, clients leave, nodes crash |
| Batch driver: `rend/src/occ.rs` | an in-memory store | speculate, validate, merge, re-execute, apply | the snapshot is stale for every tx but the first |
| Nonces: `rend-server/src/auth.rs`, `bump_nonce` | one row per address | check, bump | concurrent deliveries, unsynced writes before a crash, an unbounded retry loop |
| Persistent collections and their collector: `pmap.rs`, `pvec.rs`, `pbtree.rs`, `gc.rs` | immutable, content-addressed nodes | get, set, remove, push, range, walk, merge; sweep | shapes that only long histories reach, merges of nodes of different shape, depth changes, separators after removal, nodes in flight |
| Transaction buffer: `tx.rs` | pending writes, recorded and deferred reads, shadows | read, write, force, fork, merge deltas | deferred reads meet a store that has moved on; handlers and legs in parallel on shadows of one tx |
| Language: `modifier.rs`, `affine.rs`, `effects.rs`, `prefetch.rs`, `compile.rs`, `optimize.rs`, `vm.rs`, `interp.rs` | registers, frames, fuel | expand, check, classify, compile, reorder, execute | two executors that must agree, reads that are reordered, batched and deferred, indexes that are maintained beside their state |
| WebSocket, HTTP, statistics, benchmark, web | connections, counters | | answers out of order |

A request passes through `require_auth` (NonceAuth), one of the handlers, the
namespace's committer and `commit_batch` (GroupCommit); a stale read of a map
root goes through `merge_three_way` (Hamt, PVec, driven by Trees). A host that
embeds the library without the server uses `occ::commit_batch` (OccBatch). What
these modules call a program is executed by the machine of Vm on the buffer of
Tx, from code that Engine makes of the source (Execution).

## Modules

Committing:

* `CellStore`: cells, rows, programs as (reads, effect, failure), `is_default`
  and `read_matches`, shared by both commit paths.
* `SerialStore`: the abstract specification. Committed requests ran one at a
  time, each on the whole state its predecessor left; without durable commits a
  crash may take back a suffix of the order.
* `MergingStore`: the same where map roots are merged. A request saw what its
  predecessors left in every cell but the map roots it writes itself, and the
  merge of such a root with the one it finds is installed.
* `GroupCommit`: the commit pipeline of one namespace. One action per step that
  another actor can observe: each single cell read, the hand-over, each job's
  validation, the atomic write, the reply. `MCGroupCommit` instantiates it with
  programs on two plain cells, `MCGroupCommitMap` with credits to a map of
  accounts.
* `OccBatch`: the library's batch driver.
* `NonceAuth`: authentication, `bump_nonce` and crashes.

Collections:

* `HamtSteps`, `PBTreeSteps`: what each operation of the map, and of the sorted
  map on a key, does at one node, given what it does at the level below. `Hamt` and
  `PBTree` tie the knots.
* `Hamt`, `PVec`, `PBTree`: the operations of each collection as operators on
  trees of nodes.
* `NodeStore`: the abstract specification of a store of node cells, for any
  number of state cells and transactions and any kind of tree: what is written,
  applied, merged and swept when.
* `Trees`: the life of a collection in a store of node cells. A transaction and
  the store edit two copies of a root; the transaction is applied, merged or
  executed again; the host sweeps at any time. Beside each root it keeps the
  mapping the root should represent.

Language:

* `Values`: values, types, defaults, arithmetic and builtins.
* `Tx`: the transaction buffer. `Collections`: what both executors do with a
  collection on it.
* `Vm`: the bytecode machine, one operator per instruction.
* `Interp`: the tree interpreter, one operator per kind of statement and
  expression.
* `Modifier`, `Affine`, `Effects`, `Prefetch`, `Compile`, `Optimize`: the passes.
  `Engine` puts them together as `frontend` and `compile_single` do.
* `Execution`: a transaction from its call to its commit, beside other commits.
  `MCLang` has the programs.

Proofs:

* `CellStoreProofs`, `OccBatchProofs`, `NonceAuthProofs`: theorems on validation
  and merges, the batch driver and nonces.
* `GroupCommitProofs`, `GroupCommitOnce`, `GroupCommitSerial`: the proofs for
  GroupCommit, each part on top of the one before: the inductive invariant with
  types, queue and history; that a request takes effect once, and who waits; and the
  refinement of the merging store and of the serial one.
* `CollectionProofs`: the store of node cells, and the map.
* `SortedMapProofs`: the sorted map.

tlapm's SMT translation slows down with every obligation of a module and with every
definition it can see. Leaves that Zenon proves name it, and the modules the proofs
are about do without SequencesExt.

### How state and actions correspond to the code

GroupCommit. `disk` is what `db.get` returns, `stable` what a crash cannot lose.
`obs[r]` is the read set of the current attempt, `channel` the mpsc queue,
`lock` the entry of `commit_locks`, `overlay`, `outcomes` and `jobs` the locals
of `commit_batch`. The committer and each deploy are separate callers of
`commit_batch`. `hist`, `states`, `committed` and `survives` are history: no
action's guard reads them. A tx's own writes are not read back from the store,
so a program is the set of cells it reads and a function of their values. A
program that fails to compile is one that fails. Node cells of persistent
structures are immutable and content addressed and are folded into the value of
the root cell.

OccBatch. `ran` and `outcome` hold the speculative executions, `phase` the place
in `commit_batch`. Fuel is left out: a re-execution fails exactly when its
program does on the values it reads.

NonceAuth. `log` is the write-ahead log of the database, which all column
families share; `stored` the rows it amounts to. A crash keeps at least the
synced prefix. A commit of a handler syncs, as commits are durable by default. A
node that turns durability off bypasses the log for its commits, and is not
covered by this module.

Trees. A node is its content; equality of nodes is equality of cell keys, which
assumes that the 128-bit hash does not collide. `Hash` gives each key its bits
per level. Sorting the entries before hashing makes a leaf a function. A second
state that is never changed shares the nodes of the first one's start, so that a
sweep has nodes to spare. `ImplementsNodeStore` maps the collection and that
second state to the state cells of NodeStore and the transaction to its one
transaction.

Execution. A job is the call of one function. `vm` is the machine: its `frames`
are the Rust call stack of `call_body_at`, its `tx` the `Tx`, its `batch` the
rayon tasks of a `parallel` block or of an event's handlers, each of them a
machine of its own on a shadow. A step is one instruction of one machine, or the
merge of one leg; between any two, another transaction may change `kv`. An
instruction forces its operands first (`Forces`, `Spines`), works on its
registers and the tx, and leaves the result. `Finish` is the end of `run_world`,
`Commit` the validation and write of the host. `spent` counts what the machine
made and unwrapped of resources and is read by no guard. A collection is held as
its contents under the root cell, with one node cell per root; Trees
has the nodes in full. Widths: `u64` arithmetic wraps or fails at `MaxU64`, which
stands for 2^64 - 1, a resource is an `i64` and is refused outside that range,
`int` does not overflow in the code either.

The passes refuse a module as a whole. `Engine` leaves out the functions they
refuse, and Execution calls only the others, so that one module can hold programs
for every case, refused ones included.

## Runs

| Run | Question | Result |
|---|---|---|
| `pipeline` | Do two txs and a deploy, over errors and a crash, behave as if run one at a time, does each answer say what happened, and is every started request answered? Can committed state outlive its code? | holds, the answers under fairness; no |
| `map` | Do concurrent credits of different amounts merge serially, and what does a crash take with `durable = false`? | holds; a suffix |
| `lost_update` | ... and credits of equal amounts? | violated |
| `occ` | Batches on plain cells, and batches that put different keys of a map, against the serial run; these and batches that put the same key, against the merging store | holds |
| `trees` | Lookups, listings, ranges, walks, merges and sweeps of the three collections against plain mappings | holds |
| `trees_lookup` | Lookup of keys that share their first hash bits | violated |
| `revived` | Merges of edits of different keys, one of which removes a key of a leaf both sides split | violated |
| `sweep` | Does a sweep spare a live B-tree? | violated |
| `nonce` | Replays, overlaps, a crash; does the retry loop end? | holds, the last under fairness |
| `lang` | Does what the machine commits equal what the interpreter does alone on the store of the commit? Are indexes complete, guarded functions entered once, resources spent once, effects bounded, runs finite? | holds |
| `optimizer` | Does moving reads together preserve what a function computes? | violated |
| `first_observed` | Does the read set keep the first value a tx saw? | violated |

Every property of a passing run has a mutant in `PROJECT.json`: a definition
changed as a plausible bug would change it, under which TLC refutes the property.

### What the violated properties show

* `trees_lookup`. `build_from_entries` skips the levels on which all its keys
  agree, `get_at` does not: it looks for a key under its bits at the first level in
  a node that branches on those of a later one. Of two keys with equal first bits
  put into an empty map, one whose bits at the two levels differ is lost to lookup:
  c in the trace, while a, with 0 at both, is still found.
* `lost_update`. Equal roots on both sides of a merge are taken for one change.
  Two credits of the same amount to the same account count once and both are
  answered 200.
* `revived`. A merge takes a base leaf for empty if both sides have split it
  (`pmap.rs:615`). Then a key that one side removed from it looks added by the
  other side, and comes back. `trees` removes no such key.
* `sweep`. `gc::sweep` looks for roots of maps and vectors only, while the nodes
  a B-tree writes are reported as candidates too.
* `optimizer`. A read joins a cluster of reads although an instruction between
  them writes the register it goes to.
* `first_observed`. A deferred read of a cell that the tx has read before
  replaces the entry of the read set; a tx that used both values validates.

### Divergences no run shows

Met while modelling, stated in the models, and kept away from by the programs and
inputs of the passing runs, or, where said so, left out of a property:

* `is_default` (`serialize.rs:512`) does not list B-trees, structs, JSON,
  interfaces, sets, dictionaries, tuples and enums: the first read of an unset
  cell of such a type never validates.
* A merge knows the root a tx read, not the keys (`occ.rs:130`, `:146`): a tx
  that writes one key from what it read under another is merged although that key
  was changed.
* The optimizer retargets `Jump` and `JumpIfFalse` only (`optimize.rs:189`), not
  the ranges of legs and the exits of walks. `legs` is run without the optimizer.
* `contains_pending` does not look into enum payloads (`tx.rs:834`), so that a
  deferred read inside one is stored as its handle. `enums` forces the payload
  first.
* A leg that forces a handle of its parent panics (`tx.rs:853`). No leg of the
  run uses a deferred value of its parent.
* A handler that fails on the state before the handlers that precede it fails the
  tx (`vm.rs:179`), although it would not have failed in order.
* The comment on `Node` calls two statements equivalent (`pbtree.rs:48`): a routing
  key bounds the keys of the children beside it, and it is the smallest key of the
  child after it. Only the first survives a removal of that smallest key. It is all
  the lookups need, and what `ShapeKept` and `SortedRemove` say.
* The ownership analysis looks at the body of a loop once and forgets its moves
  (`affine.rs:199`; the comment there says that loops only allow copyable
  locals, which the type checker does not ask for), and not at all at the tail of
  a block that is not an expression. Resources are made and spent outside both.
  The index variable of a parallel for is not bound for it, so that a use of it
  in a statement of the body is refused; `slots` uses it in the tail.

* The effect classification (`effects.rs:230`) looks at the statements of a block,
  not at its tail: what a function does in its implicit return does not count, nor
  what a statement's block does in its tail, the limit of a `for` or the keys of an
  assignment's target, nor the tails of an else-if inside an `if` expression. It
  takes a call of `sum`, `max` or `min` for the builtin (`effects.rs:427`), although
  a function of the module by that name is what runs. So a `view` function whose
  implicit return calls a writer, or that calls its module's own writing `max`, is
  classified Pure, is accepted, and writes. `MCLang` has both (`settle`, `cap`):
  they are executed and compared with the interpreter like the others, but
  `EffectsBoundBehaviour` is claimed of the functions that classify sees whole
  (`SeenWhole`) only, and fails of these two without that condition.

### Bounds

Two or three requests are enough for every pair of actors to race and for a batch
of two jobs; a channel of capacity 1 fills with the second. Two attempts
reach the retry and its bound. One fault and one crash fall anywhere.
`Modulus` 2 or 3 keeps counters finite while repeated increments stay visible in
the serial order. The map runs use amounts 1, 2 and 4, whose sums tell every set
of credits apart. `occ` has every batch over plain cells and every batch over the
map; puts of one key by different amounts are refused by the merge and executed
again, puts by equal amounts are merged into one. The serial properties are claimed
of the batches in which no two txs put the same key (`Separate`): the equal puts
break them, as `lost_update` shows of the same merge. `MaxNonce` 2 gives one
request that can be replayed and one that overtakes it. Symmetry is used among txs in the map runs; `pipeline`, which
checks liveness, names for each pair of programs one assignment to the txs. It runs
three pairs, the same program twice included; that the pipeline is serial for all
programs is what the theorems of GroupCommitSerial say.

`trees` has keys that differ at the first level, at the second, and nowhere, over
two levels; nodes of two entries, so that a vector of four and a B-tree of four
grow a level with the next one. `MaxOurs`, `MaxLive` and `MaxRounds` bound the
edits of each side between two commits and the commits: three edits of a map split
a leaf, fill a collision list and empty it again, five of a B-tree split the root
and remove a whole leaf.

In `lang` a job meets at most one other commit (`MaxOther`), at any point of its
run; it changes a cell or a collection the job reads. `Fuel` 200 is more than any
program needs but the two that loop for ever, which meet the bound in the function
itself and in a leg. `MaxU64` 7 is close enough for counters to reach. The programs
cover every instruction the modelled language compiles to, with the optimizer and
without it; two are compared with another function in the interpreter, because
calls between modules and interfaces have no meaning there (`across`) and because
modifiers are expanded before it sees them (`guarded`, with the same written out
by hand).

### Fairness

`pipeline` assumes weak fairness of each handler, of the committer's steps and of
`commit_batch` for each caller: tokio polls tasks that are ready, and the
blocking pool runs what it was given. The mutex needs no more, since its waiters
are finitely many. `nonce` assumes weak fairness of each started request. `lang`
assumes that a transaction that can go on does: it runs on a thread of its own.
Nothing is assumed of clients, of other transactions, of RocksDB's flushes or
errors, or of crashes. `EveryRequestAnswered` counts a client that has left as
answered.

## Proofs

TLAPS proves, for all values of the constants that meet the named assumptions
(`CellTypes`, `ProgramTypes`, `MergeType`, `DistinctActors`, `AssignmentTypes`,
`BoundTypes`, `BatchTypes`, `DeliveryTypes`):

* `GroupCommitProofs!TypeCorrect`, `Serializable`: `Spec => []TypeOK`,
  `Spec => []SerialHistory`. SerialHistory is not inductive: that a validated job
  fits the history needs that the overlay of the lock holder is exactly the
  difference between the disk and the last state (`LockInv`), that the queued
  jobs are complete executions whose read sets no longer change (`QueueInv`) and
  that no request is queued twice (`UniqueJobs`).
* `GroupCommitOnce!AtMostOnce`: `Spec => []ExactlyOnce`. The invariant
  (`OnceInv`) follows a request's one job: while it is in the channel or in a
  batch that is not written, the request is not on disk; the part of the history
  that is not on disk consists of the jobs the lock holder has accepted, each
  once; after the write exactly the jobs reported as committed are on disk; and a
  handler has been told what is so. That two batches share no request
  (`BatchesDisjoint`) is what lets the write of one leave the others' verdicts
  alone, and that a durable write is synced at once (`survives = committed`) is
  what keeps a 200 through a crash.
* `GroupCommitOnce!EveryWaitIsServed`: `Spec => []NobodyForgotten`: a handler
  that awaits a verdict has its job in the channel or in the committer's batch,
  and no batch is written with a job left out. It is the safety half of
  `EveryRequestAnswered`; it follows from the queue's part of the invariant.
* `GroupCommitSerial!PipelineMerges`: `Spec => ImplementsMergingStore`, for all
  programs, those on map cells included. The invariant it adds (`RunInv`) says
  that every entry of the history is a commit, with merges, of what its request
  saw on the store before it; `WriteBatch` is then a `MergingCommit` of the
  accepted jobs, or a stutter when none was, `Crash` a `LoseSuffix`, or a stutter
  when commits are durable, and every other step leaves the log and the disk as
  they are.
* `GroupCommitSerial!PipelineIsSerial`: `Spec => ImplementsSerialStore` if no
  program writes a map root it has read (`MergesNothing`), as none does without
  map cells; a merging commit of such a program is a run alone
  (`CellStoreProofs!PlainRunsAlone`). Without the hypothesis it is false: see
  `lost_update`.
* `GroupCommitSerial!PipelineIsSerialByKey`: what requests on map cells are promised
  all the same, `DisjointKeys => (Spec => ImplementsKeyedStore)`: each commit leaves
  the entries that its request alone would have left on the state before it.
  `KeyedPipelineIsSerial` concludes `ImplementsSerialStore` if moreover every mapping
  has one root (`OneRoot`). DisjointKeys says that a program reads the root of a map
  it writes, changes only keys of its own and depends on no others of that map, that
  no two requests share a key, and that a merge takes each key from the side that
  changed it. The last is what `CollectionProofs!MergeLookup` proves of
  `merge_three_way`, where it holds (`revived` shows where not); `lost_update` shows
  what comes of two requests on one key. OneRoot holds of maps that only grow; after
  removals a mapping can have several shapes, and the first theorem says no more than
  that the entries agree. The invariant (`KeysInv`) is that nobody touches the keys
  of a request before it is committed: they hold what they held at the start, in
  every state of the history up to there and in whatever the request has read.
* `GroupCommitSerial!CodeIsSafe`: `Spec => []CodeOutlivesState`; the invariant
  (`CodeInv`) is that the artifacts of every request in flight are stored, so
  that the sync of its batch covers them.
* `GroupCommitSerial!NoSpuriousConflict`: `Spec => ConflictMeansOverwritten` if
  `is_default` lists the default of the type of every cell the namespace has
  (`UnlistedDefault` is empty); it does not list them all, see the divergences.
* `OccBatchProofs!TypeCorrect`, `BatchMerges`: the driver's state is well-typed
  and the driver implements `MergingStore`, for every batch, store and schedule
  of the speculation. `BatchIsSerial`, `ReportsSerial`: if no program writes a map
  root it has read, it implements `SerialStore` and reports the serial results.
  `BatchIsSerialByKey`, `KeyedBatchIsSerial`, `ReportsSerialByKey`: so it does, with
  merges, for the batches whose txs use different keys (`Separate`), under the same
  hypotheses as for the pipeline and, for the reports, that a result depends on the
  program's own keys (`AnswersByKey`). The separate batches of the `occ` run meet them all; TLC
  evaluates that as the assumption `KeyedInstance`.
  `OnlyConflicts`: if `is_default` lists every default, only a tx whose reads were
  changed is executed again. The invariant says that outcomes are executions on
  the snapshot and that the list of applied states is a run of the report so far.
* `NonceAuthProofs!TypeCorrect`, `ReplayProtection`, `BumpIsAtomic`. The
  invariant says that bumps in the log rise per address, that rows are the last
  of them, that an effect comes after its own bump, and that a row whose version
  did not move still holds what was read. Everything it says of the log is closed
  under prefixes, which is why a crash keeps it.

* `CollectionProofs!NoLiveNodeSwept`: `WalkComplete => (Spec =>
  []LiveNodesSurvive)` for NodeStore. That live nodes are in the store is not
  inductive: a merge keeps nodes of the root the transaction began with, and no
  live root may lead to them any more. The invariant adds that what a transaction
  has built is in that tree or in its writes (`BuiltInv`), and that the tree is in
  the store as long as nothing was swept (`KeptInv`), which is why a merge is
  never across a sweep: `commit_batch` has the store for itself.
  `WalkFindsTheTree`: the walk of a map or a vector is complete in that sense.
  For B-trees it is not, see `sweep`. That Trees implements NodeStore is
  model-checked (`ImplementsNodeStore`).
* `CollectionProofs!SetLookup`, `RemoveLookup`, `MergeSymmetric`, `MergeLookup`: what
  lookups find in tries of any size after a put, a removal and a merge, for any hash
  bits, and that the two sides of a merge may be exchanged.
  They hold of all functions that follow the steps of HamtSteps on a set of tries
  that is closed under them and in which no node is below itself, as a node is
  named by the hash of what it refers to. A set of counterexamples would have a
  lowest node (`WFMin`), and the step at that node shows that there is none.
  SetLookup assumes that a leaf which the put splits has one key, which differs
  from the new one in its bits at that level (`Apart`); `trees_lookup` shows what
  happens otherwise.
  MergeLookup assumes that the base is empty or of the kind of the two sides
  wherever both changed (`Aligned`); `revived` shows what happens otherwise.

* `SortedMapProofs!SortedSet`, `SortedRemove`: the same for the sorted map. In B+-trees
  of any size, put and removal leave a tree in order (`SortedTree`: the entries of
  each leaf and the routing keys of each node rise, and stay within the bounds that
  the routing keys above them set) in which lookups find the new entry, or none, and
  under every other key what they found before. They hold of all functions that
  follow the steps of PBTreeSteps on the finite trees of keys and values. SortedSet
  asks for `B >= 2`, and the code has 32: an inner node that splits with B = 1 would
  leave a half without keys. The argument goes from the leaf up. Inserting, replacing
  and removing an entry keep a leaf in order (`LeafEntries`); halving a leaf or an
  inner node at the separator keeps each half within its bounds; replacing a child,
  by one node or by two and their separator, changes what is found below it only; a
  dropped child gives its bounds to the neighbour, whose keys fit the wider ones
  (`Wider`) while nothing was to be found outside the narrower ones (`Outside`). Again
  a lowest counterexample is refuted.

Only model-checked: liveness, which is beyond the prover, as `EveryRequestAnswered`;
that the recursive operators of Hamt and PBTree are such functions, and what vectors,
ranges, walks and listings compute, which takes induction over data; the language
(`IndexComplete`, `NoReentry`, `NothingSpentTwice`, `EffectsBoundBehaviour` and
`Serializable` of Execution), whose operators are recursive over programs.

## Not modelled

* Lexer, parser and type checker: sequential passes without state. The models
  start from a tree the type checker accepts.
* Linking several modules: a call to another module, direct or through an
  interface, is a call within the one module of the run.
* Floats, JSON, strings, the narrow integer types and the byte builtins that take
  the same paths as the values that are modelled; capabilities and host imports.
* Byte layouts: a cell holds a value, a node its contents.
* The WebSocket endpoint, which turns each frame into a request of GroupCommit;
  HTTP routing, statistics, the benchmark, the web client.
* A panic inside `commit_batch`, which poisons the namespace's mutex
  (`committer.rs:101`), and signatures, which NonceAuth takes as genuine or forged.
