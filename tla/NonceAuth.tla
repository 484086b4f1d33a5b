----------------------------- MODULE NonceAuth -----------------------------
(***************************************************************************)
(* Per-address nonces: check_auth of rend-server/src/auth.rs with          *)
(* RocksKv::bump_nonce of rend-rocksdb/src/lib.rs, in front of a handler   *)
(* whose commit goes through commit_batch.                                 *)
(*                                                                         *)
(* A delivery is one arrival of a signed request.  The same request may    *)
(* arrive several times, at once or after a crash.  bump_nonce is an       *)
(* optimistic transaction: RocksDB refuses its commit when the row was     *)
(* written after get_for_update, and the loop starts over.  The commit is  *)
(* not synced, so that a crash may lose it.  All column families share one *)
(* write-ahead log, which the handler's own commit, durable as it is by    *)
(* default, syncs.                                                         *)
(***************************************************************************)
EXTENDS Naturals, Sequences

CONSTANTS
    Delivery,       \* arrivals of requests
    Address,        \* EOA addresses
    AddressOf,      \* AddressOf[d]: the address the signature recovers to
    NonceOf,        \* NonceOf[d]: the nonce that was signed
    Genuine,        \* deliveries whose headers parse and whose org is that address
    MaxNonce,       \* bound: the largest u64
    MaxCrashes, MaxFaults

ASSUME DeliveryTypes ==
    /\ MaxNonce \in Nat /\ MaxCrashes \in Nat /\ MaxFaults \in Nat
    /\ AddressOf \in [Delivery -> Address]
    /\ NonceOf \in [Delivery -> 0 .. MaxNonce]
    /\ Genuine \subseteq Delivery

VARIABLES
    stored,     \* the rows of the nonces column family, 0 when missing
    version,    \* how often each row has been written since the start
    log,        \* the write-ahead log: bumps and commits of deliveries
    synced,     \* how much of it survives a crash
    pc,
    seen,       \* what get_for_update read
    seenVersion,\* and when
    crashes, faults

rows == <<stored, version, log, synced>>
vars == <<rows, pc, seen, seenVersion, crashes, faults>>

Init ==
    /\ stored = [a \in Address |-> 0]
    /\ version = [a \in Address |-> 0]
    /\ log = <<>>
    /\ synced = 0
    /\ pc = [d \in Delivery |-> "idle"]
    /\ seen = [d \in Delivery |-> 0]
    /\ seenVersion = [d \in Delivery |-> 0]
    /\ crashes = 0 /\ faults = 0

\* check_auth up to the nonce: a missing or malformed header, an unreadable body
\* or a signature of another address than the org's is refused.
Arrive(d) ==
    /\ pc[d] = "idle"
    /\ pc' = [pc EXCEPT ![d] = IF d \in Genuine THEN "bumping" ELSE "rejected"]
    /\ UNCHANGED <<rows, seen, seenVersion, crashes, faults>>

\* The head of bump_nonce's loop: get_for_update reads the row and tracks it.
GetForUpdate(d) ==
    /\ pc[d] = "bumping"
    /\ seen' = [seen EXCEPT ![d] = stored[AddressOf[d]]]
    /\ seenVersion' = [seenVersion EXCEPT ![d] = version[AddressOf[d]]]
    /\ pc' = [pc EXCEPT ![d] = "read"]
    /\ UNCHANGED <<rows, crashes, faults>>

\* Mutant: the nonce last accepted is accepted again.
Stale_or_equal(d) == NonceOf[d] < seen[d]

Stale(d) == NonceOf[d] <= seen[d]

TooLow(d) ==
    /\ pc[d] = "read"
    /\ Stale(d)
    /\ pc' = [pc EXCEPT ![d] = "rejected"]
    /\ UNCHANGED <<rows, seen, seenVersion, crashes, faults>>

\* Mutant: the transaction does not track the row it read.
Busy_never(d) == FALSE

\* RocksDB's verdict on the commit.
Busy(d) == version[AddressOf[d]] # seenVersion[d]

\* Mutant: the row holds the next nonce, not the one submitted.
BumpedToNext(d) ==
    /\ pc[d] = "read"
    /\ ~Stale(d)
    /\ ~Busy(d)
    /\ stored' = [stored EXCEPT ![AddressOf[d]] = NonceOf[d] + 1]
    /\ version' = [version EXCEPT ![AddressOf[d]] = @ + 1]
    /\ log' = Append(log, <<"bump", d>>)
    /\ pc' = [pc EXCEPT ![d] = "accepted"]
    /\ UNCHANGED <<synced, seen, seenVersion, crashes, faults>>

Bumped(d) ==
    /\ pc[d] = "read"
    /\ ~Stale(d)
    /\ ~Busy(d)
    /\ stored' = [stored EXCEPT ![AddressOf[d]] = NonceOf[d]]
    /\ version' = [version EXCEPT ![AddressOf[d]] = @ + 1]
    /\ log' = Append(log, <<"bump", d>>)
    /\ pc' = [pc EXCEPT ![d] = "accepted"]
    /\ UNCHANGED <<synced, seen, seenVersion, crashes, faults>>

\* Mutant: the retry commits the same transaction again.
TryAgain_same_txn(d) == pc[d] = "read" /\ ~Stale(d) /\ Busy(d) /\ UNCHANGED vars

\* Busy | TryAgain => continue
TryAgain(d) ==
    /\ pc[d] = "read"
    /\ ~Stale(d)
    /\ Busy(d)
    /\ pc' = [pc EXCEPT ![d] = "bumping"]
    /\ UNCHANGED <<rows, seen, seenVersion, crashes, faults>>

\* Any other error of the transaction: 500, and the row is as it was.
StoreError(d) ==
    /\ pc[d] \in {"bumping", "read"}
    /\ faults < MaxFaults
    /\ faults' = faults + 1
    /\ pc' = [pc EXCEPT ![d] = "error500"]
    /\ UNCHANGED <<rows, seen, seenVersion, crashes>>

\* The handler runs only now.  It fails, and the nonce is consumed all the same,
\* or it commits.
HandlerFails(d) ==
    /\ pc[d] = "accepted"
    /\ pc' = [pc EXCEPT ![d] = "failed"]
    /\ UNCHANGED <<rows, seen, seenVersion, crashes, faults>>

HandlerCommits(d) ==
    /\ pc[d] = "accepted"
    /\ pc' = [pc EXCEPT ![d] = "committed"]
    /\ log' = Append(log, <<"commit", d>>)
    /\ synced' = Len(log) + 1
    /\ UNCHANGED <<stored, version, seen, seenVersion, crashes, faults>>

\* The operating system writes the log back by itself.
WriteBack ==
    /\ synced < Len(log)
    /\ synced' \in synced + 1 .. Len(log)
    /\ UNCHANGED <<stored, version, log, pc, seen, seenVersion, crashes, faults>>

\* The row that the log holds for an address: its last bump.
Bumps(a) == {i \in DOMAIN log : log[i][1] = "bump" /\ AddressOf[log[i][2]] = a}
LastBump(a, row) ==
    \/ Bumps(a) = {} /\ row = 0
    \/ \E i \in Bumps(a) : row = NonceOf[log[i][2]] /\ \A j \in Bumps(a) : j <= i

\* A crash loses the handlers and some unsynced suffix of the log.
Crash ==
    /\ crashes < MaxCrashes
    /\ crashes' = crashes + 1
    /\ \E n \in synced .. Len(log) : log' = SubSeq(log, 1, n) /\ synced' = n
    /\ stored' \in [Address -> 0 .. MaxNonce]
    /\ \A a \in Address : LastBump(a, stored[a])'
    /\ pc' = [d \in Delivery |->
                 IF pc[d] \in {"bumping", "read", "accepted"} THEN "lost" ELSE pc[d]]
    /\ UNCHANGED <<version, seen, seenVersion, faults>>

Decided == {"rejected", "error500", "failed", "committed", "lost"}

Quiet == (\A d \in Delivery : pc[d] \in Decided) /\ UNCHANGED vars

BumpStep(d) ==
    GetForUpdate(d) \/ TooLow(d) \/ Bumped(d) \/ TryAgain(d)
    \/ HandlerFails(d) \/ HandlerCommits(d)

Next ==
    \/ \E d \in Delivery : Arrive(d)
    \/ \E d \in Delivery : GetForUpdate(d)
    \/ \E d \in Delivery : TooLow(d)
    \/ \E d \in Delivery : Bumped(d)
    \/ \E d \in Delivery : TryAgain(d)
    \/ \E d \in Delivery : StoreError(d)
    \/ \E d \in Delivery : HandlerFails(d)
    \/ \E d \in Delivery : HandlerCommits(d)
    \/ WriteBack
    \/ Crash
    \/ Quiet

Spec == Init /\ [][Next]_vars

\* A request the server has started on is served to its end: bump_nonce's loop
\* and the handler run on worker threads.  Nothing is assumed of the clients, of
\* crashes, of errors or of the operating system.
FairSpec == Spec /\ \A d \in Delivery : WF_vars(BumpStep(d))

-----------------------------------------------------------------------------

\* The type invariant.
TypeOK ==
    /\ stored \in [Address -> 0 .. MaxNonce]
    /\ version \in [Address -> Nat]
    /\ log \in Seq({"bump", "commit"} \X Delivery)
    /\ synced \in 0 .. Len(log)
    /\ pc \in [Delivery -> Decided \cup {"idle", "bumping", "read", "accepted"}]
    /\ seen \in [Delivery -> 0 .. MaxNonce] /\ seenVersion \in [Delivery -> Nat]
    /\ crashes \in Nat /\ faults \in Nat

\* However deliveries of one address overlap, bump_nonce decides each of them on
\* the row as it is at that moment: it accepts a nonce above it and refuses one
\* that is not.
DecidedOnCurrentRow ==
    [][\A d \in Delivery :
         /\ pc[d] = "read" /\ pc'[d] = "accepted" => NonceOf[d] > stored[AddressOf[d]]
         /\ pc[d] = "read" /\ pc'[d] = "rejected" => NonceOf[d] <= stored[AddressOf[d]]]_vars

\* The nonces "for replay protection": the effects in the store are those of
\* different requests, however often each was delivered and whatever crashes
\* have lost.  Bumps are never synced, but the log does not lose one without
\* every effect that followed it.
EffectOnce ==
    \A i, j \in DOMAIN log :
        /\ log[i][1] = "commit" /\ log[j][1] = "commit"
        /\ AddressOf[log[i][2]] = AddressOf[log[j][2]]
        /\ NonceOf[log[i][2]] = NonceOf[log[j][2]]
        => i = j

\* No request is left in bump_nonce's loop.
EveryDeliveryDecided == \A d \in Delivery : pc[d] = "bumping" ~> pc[d] \in Decided
=============================================================================
