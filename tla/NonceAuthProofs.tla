-------------------------- MODULE NonceAuthProofs --------------------------
(***************************************************************************)
(* For any set of deliveries and addresses and any number of crashes, the  *)
(* nonces keep a request from taking effect twice.                         *)
(*                                                                         *)
(* Neither property is inductive.  The invariant adds that the bumps in    *)
(* the log rise per address, that the rows are the last of them, that an   *)
(* effect follows its own bump in the log, and that a row which has not    *)
(* been written since it was read still holds what was read.               *)
(***************************************************************************)
EXTENDS NonceAuth, TLAPS

IsBump(i) == i \in DOMAIN log /\ log[i][1] = "bump"

\* The bumps of an address are in the order of their nonces.
Rising ==
    \A i, j \in DOMAIN log :
        /\ IsBump(i) /\ IsBump(j) /\ i < j
        /\ AddressOf[log[i][2]] = AddressOf[log[j][2]]
        => NonceOf[log[i][2]] < NonceOf[log[j][2]]

RowsAreLogged == \A a \in Address : LastBump(a, stored[a])

CommitFollowsBump ==
    \A i \in DOMAIN log : log[i][1] = "commit" =>
        /\ pc[log[i][2]] = "committed"
        /\ \E j \in DOMAIN log : log[j] = <<"bump", log[i][2]>> /\ j < i

CommitsOnce ==
    \A i, j \in DOMAIN log :
        log[i][1] = "commit" /\ log[i] = log[j] => i = j

AcceptedIsLogged ==
    \A d \in Delivery : pc[d] = "accepted" =>
        \E j \in DOMAIN log : log[j] = <<"bump", d>>

ReadIsRecent ==
    \A d \in Delivery : pc[d] = "read" =>
        /\ seen[d] <= stored[AddressOf[d]]
        /\ seenVersion[d] <= version[AddressOf[d]]
        /\ seenVersion[d] = version[AddressOf[d]] => seen[d] = stored[AddressOf[d]]

LogInv == Rising /\ RowsAreLogged /\ CommitFollowsBump /\ CommitsOnce /\ AcceptedIsLogged
Inv == TypeOK /\ LogInv /\ ReadIsRecent

\* The invariant holds when the server starts on an empty store.
LEMMA InitInv == Init => Inv
  BY DeliveryTypes
  DEF Init, Inv, TypeOK, Decided, LogInv, Rising, RowsAreLogged, LastBump, Bumps,
      CommitFollowsBump, CommitsOnce, AcceptedIsLogged, ReadIsRecent, IsBump

\* What Append does to the log.
LEMMA Appended ==
  ASSUME TypeOK, NEW e \in {"bump", "commit"} \X Delivery, log' = Append(log, e)
  PROVE  /\ log' \in Seq({"bump", "commit"} \X Delivery)
         /\ Len(log') = Len(log) + 1 /\ Len(log) \in Nat
         /\ DOMAIN log = 1 .. Len(log) /\ DOMAIN log' = 1 .. Len(log) + 1
         /\ log'[Len(log) + 1] = e
         /\ \A i \in DOMAIN log : log'[i] = log[i] /\ log[i] \in {"bump", "commit"} \X Delivery
  BY SMTT(30) DEF TypeOK

\* A bump above the row keeps the log in order.
LEMMA BumpedInv ==
  ASSUME Inv, NEW d \in Delivery, Bumped(d)
  PROVE  Inv'
  <1> DEFINE a0 == AddressOf[d]
  <1> USE DeliveryTypes
  <1>0. /\ TypeOK /\ a0 \in Address /\ NonceOf[d] \in 0 .. MaxNonce
        /\ <<"bump", d>> \in {"bump", "commit"} \X Delivery
        /\ log' = Append(log, <<"bump", d>>)
    BY DEF Inv, Bumped
  <1>1. NonceOf[d] > stored[a0]
    BY <1>0 DEF Inv, TypeOK, ReadIsRecent, Bumped, Stale, Busy
  <1>2. /\ log' \in Seq({"bump", "commit"} \X Delivery)
        /\ Len(log') = Len(log) + 1 /\ Len(log) \in Nat
        /\ DOMAIN log = 1 .. Len(log) /\ DOMAIN log' = 1 .. Len(log) + 1
        /\ log'[Len(log) + 1] = <<"bump", d>>
        /\ \A i \in DOMAIN log : log'[i] = log[i] /\ log[i] \in {"bump", "commit"} \X Delivery
    BY <1>0, Appended
  <1>3. TypeOK'
    BY SMTT(30), <1>0, <1>2 DEF TypeOK, Bumped, Decided
  <1>4. \A i \in DOMAIN log :
           IsBump(i) /\ AddressOf[log[i][2]] = a0 => NonceOf[log[i][2]] <= stored[a0]
    <2> SUFFICES ASSUME NEW i \in DOMAIN log, IsBump(i), AddressOf[log[i][2]] = a0
                 PROVE  NonceOf[log[i][2]] <= stored[a0]
      OBVIOUS
    <2>1. i \in Bumps(a0)
      BY DEF Bumps, IsBump
    <2>2. PICK k \in Bumps(a0) : stored[a0] = NonceOf[log[k][2]] /\ \A j \in Bumps(a0) : j <= k
      BY <2>1, <1>0 DEF Inv, LogInv, RowsAreLogged, LastBump
    <2>3. k \in DOMAIN log /\ IsBump(k) /\ AddressOf[log[k][2]] = a0 /\ i <= k
      BY <2>1, <2>2 DEF Bumps, IsBump
    <2>4. CASE i = k
      BY <2>2, <2>4, <1>0, <1>2 DEF TypeOK
    <2>5. CASE i < k
      <3>1. NonceOf[log[i][2]] < NonceOf[log[k][2]]
        BY <2>3, <2>5 DEF Inv, LogInv, Rising
      <3>2. NonceOf[log[i][2]] \in Nat /\ NonceOf[log[k][2]] \in Nat
        BY <1>2, <2>3
      <3> QED BY <2>2, <3>1, <3>2
    <2> QED BY <2>3, <2>4, <2>5, <1>2
  <1>5. Rising'
    <2> SUFFICES ASSUME NEW i \in DOMAIN log', NEW j \in DOMAIN log',
                        log'[i][1] = "bump", log'[j][1] = "bump", i < j,
                        AddressOf[log'[i][2]] = AddressOf[log'[j][2]]
                 PROVE  NonceOf[log'[i][2]] < NonceOf[log'[j][2]]
      BY DEF Rising, IsBump
    <2>1. i \in DOMAIN log /\ log'[i] = log[i] /\ IsBump(i)
      BY <1>2 DEF IsBump
    <2>2. CASE j \in DOMAIN log
      BY Zenon, <2>1, <2>2, <1>2 DEF Inv, LogInv, Rising, IsBump
    <2>3. CASE j = Len(log) + 1
      <3>1. NonceOf[log[i][2]] <= stored[a0] /\ log'[j][2] = d
        BY <2>1, <2>3, <1>2, <1>4
      <3>2. NonceOf[log[i][2]] \in Nat /\ stored[a0] \in Nat
        BY <2>1, <1>2, <1>0 DEF TypeOK
      <3> QED BY <3>1, <3>2, <2>1, <1>1, <1>0
    <2> QED BY <2>2, <2>3, <1>2
  <1>6. RowsAreLogged'
    <2> SUFFICES ASSUME NEW a \in Address PROVE LastBump(a, stored[a])'
      BY DEF RowsAreLogged
    <2>1. CASE a = a0
      <3>1. Len(log) + 1 \in Bumps(a)' /\ \A j \in Bumps(a)' : j <= Len(log) + 1
        BY <2>1, <1>2 DEF Bumps
      <3>2. stored'[a] = NonceOf[log'[Len(log) + 1][2]]
        BY <2>1, <1>2, <1>0 DEF Bumped, TypeOK
      <3> QED BY <3>1, <3>2 DEF LastBump
    <2>2. CASE a # a0
      <3>1. Bumps(a)' = Bumps(a)
        BY <2>2, <1>2 DEF Bumps
      <3>2. stored'[a] = stored[a]
        BY <2>2, <1>0 DEF Bumped, TypeOK
      <3>3. \A i \in Bumps(a) : log'[i] = log[i]
        BY <1>2 DEF Bumps
      <3> QED BY <3>1, <3>2, <3>3 DEF LastBump, Inv, LogInv, RowsAreLogged
    <2> QED BY <2>1, <2>2
  <1>7. CommitFollowsBump'
    <2> SUFFICES ASSUME NEW i \in DOMAIN log', log'[i][1] = "commit"
                 PROVE  /\ pc'[log'[i][2]] = "committed"
                        /\ \E j \in DOMAIN log' : log'[j] = <<"bump", log'[i][2]>> /\ j < i
      BY DEF CommitFollowsBump
    <2>1. i \in DOMAIN log /\ log'[i] = log[i]
      BY <1>2
    <2>2. pc[log[i][2]] = "committed"
          /\ \E j \in DOMAIN log : log[j] = <<"bump", log[i][2]>> /\ j < i
      BY <2>1 DEF Inv, LogInv, CommitFollowsBump
    <2>3. pc'[log[i][2]] = "committed"
      BY <2>1, <2>2, <1>0, <1>2 DEF Bumped, TypeOK
    <2>4. PICK j \in DOMAIN log : log[j] = <<"bump", log[i][2]>> /\ j < i
      BY <2>2
    <2>5. j \in DOMAIN log' /\ log'[j] = <<"bump", log'[i][2]>>
      BY <2>1, <2>4, <1>2
    <2> QED BY <2>1, <2>3, <2>4, <2>5
  <1>8. CommitsOnce'
    BY <1>2 DEF Inv, LogInv, CommitsOnce
  <1>9. AcceptedIsLogged'
    <2> SUFFICES ASSUME NEW e \in Delivery, pc'[e] = "accepted"
                 PROVE  \E j \in DOMAIN log' : log'[j] = <<"bump", e>>
      BY DEF AcceptedIsLogged
    <2>1. CASE e = d
      <3>1. Len(log) + 1 \in DOMAIN log' /\ log'[Len(log) + 1] = <<"bump", e>>
        BY <2>1, <1>2
      <3> QED BY <3>1
    <2>2. CASE e # d
      <3>1. PICK j \in DOMAIN log : log[j] = <<"bump", e>>
        BY <2>2, <1>0 DEF Inv, LogInv, AcceptedIsLogged, Bumped, TypeOK
      <3>2. j \in DOMAIN log' /\ log'[j] = <<"bump", e>>
        BY <3>1, <1>2
      <3> QED BY <3>2
    <2> QED BY <2>1, <2>2
  <1>10. ReadIsRecent'
    <2> SUFFICES ASSUME NEW e \in Delivery, pc'[e] = "read"
                 PROVE  /\ seen'[e] <= stored'[AddressOf[e]]
                        /\ seenVersion'[e] <= version'[AddressOf[e]]
                        /\ seenVersion'[e] = version'[AddressOf[e]]
                              => seen'[e] = stored'[AddressOf[e]]
      BY DEF ReadIsRecent
    <2>1. e # d /\ pc[e] = "read" /\ seen' = seen /\ seenVersion' = seenVersion
      BY <1>0 DEF Bumped, TypeOK
    <2>2. CASE AddressOf[e] = a0
      <3>1. stored'[a0] = NonceOf[d] /\ version'[a0] = version[a0] + 1
        BY <1>0 DEF Bumped, TypeOK
      <3> QED BY <3>1, <2>1, <2>2, <1>0, <1>1 DEF Inv, ReadIsRecent, TypeOK
    <2>3. CASE AddressOf[e] # a0
      <3>1. stored'[AddressOf[e]] = stored[AddressOf[e]]
            /\ version'[AddressOf[e]] = version[AddressOf[e]]
        BY <2>3, <1>0 DEF Bumped, TypeOK
      <3> QED BY <3>1, <2>1 DEF Inv, ReadIsRecent
    <2> QED BY <2>2, <2>3
  <1> QED BY <1>3, <1>5, <1>6, <1>7, <1>8, <1>9, <1>10 DEF Inv, LogInv

\* A commit adds the only effect of a delivery that has just been accepted.
LEMMA CommittedInv ==
  ASSUME Inv, NEW d \in Delivery, HandlerCommits(d)
  PROVE  Inv'
  <1> USE DeliveryTypes
  <1>0. /\ TypeOK /\ pc[d] = "accepted"
        /\ <<"commit", d>> \in {"bump", "commit"} \X Delivery
        /\ log' = Append(log, <<"commit", d>>)
        /\ pc' = [pc EXCEPT ![d] = "committed"]
        /\ UNCHANGED <<stored, version, seen, seenVersion, crashes, faults>>
    BY DEF Inv, HandlerCommits
  <1>1. /\ log' \in Seq({"bump", "commit"} \X Delivery)
        /\ Len(log') = Len(log) + 1 /\ Len(log) \in Nat
        /\ DOMAIN log = 1 .. Len(log) /\ DOMAIN log' = 1 .. Len(log) + 1
        /\ log'[Len(log) + 1] = <<"commit", d>>
        /\ \A i \in DOMAIN log : log'[i] = log[i] /\ log[i] \in {"bump", "commit"} \X Delivery
    BY <1>0, Appended
  <1>2. TypeOK'
    BY <1>0, <1>1 DEF TypeOK, HandlerCommits, Decided
  <1>3. Rising'
    <2> SUFFICES ASSUME NEW i \in DOMAIN log', NEW j \in DOMAIN log',
                        log'[i][1] = "bump", log'[j][1] = "bump", i < j,
                        AddressOf[log'[i][2]] = AddressOf[log'[j][2]]
                 PROVE  NonceOf[log'[i][2]] < NonceOf[log'[j][2]]
      BY DEF Rising, IsBump
    <2>1. /\ i \in DOMAIN log /\ log'[i] = log[i] /\ IsBump(i)
          /\ j \in DOMAIN log /\ log'[j] = log[j] /\ IsBump(j)
      BY <1>1 DEF IsBump
    <2> QED BY <2>1 DEF Inv, LogInv, Rising
  <1>4. RowsAreLogged'
    <2> SUFFICES ASSUME NEW a \in Address PROVE LastBump(a, stored[a])'
      BY DEF RowsAreLogged
    <2>1. Bumps(a)' = Bumps(a)
      BY <1>1 DEF Bumps
    <2>2. \A i \in Bumps(a) : log'[i] = log[i]
      BY <1>1 DEF Bumps
    <2> QED BY Zenon, <1>0, <2>1, <2>2 DEF LastBump, Inv, LogInv, RowsAreLogged
  <1>5. \A i \in DOMAIN log : log[i][1] = "commit" => log[i][2] # d
    BY <1>0 DEF Inv, LogInv, CommitFollowsBump
  <1>6. CommitFollowsBump'
    <2> SUFFICES ASSUME NEW i \in DOMAIN log', log'[i][1] = "commit"
                 PROVE  /\ pc'[log'[i][2]] = "committed"
                        /\ \E j \in DOMAIN log' : log'[j] = <<"bump", log'[i][2]>> /\ j < i
      BY DEF CommitFollowsBump
    <2>1. CASE i \in DOMAIN log
      <3>1. PICK j \in DOMAIN log : log[j] = <<"bump", log[i][2]>> /\ j < i
        BY <2>1, <1>1 DEF Inv, LogInv, CommitFollowsBump
      <3>2. j \in DOMAIN log' /\ log'[j] = <<"bump", log'[i][2]>>
        BY <2>1, <3>1, <1>1
      <3>3. pc[log[i][2]] = "committed" /\ log'[i] = log[i]
        BY <2>1, <1>1 DEF Inv, LogInv, CommitFollowsBump
      <3>4. pc'[log'[i][2]] = "committed"
        BY <3>3, <2>1, <1>0, <1>1 DEF TypeOK
      <3> QED BY <3>1, <3>2, <3>4
    <2>2. CASE i = Len(log) + 1
      <3>1. PICK j \in DOMAIN log : log[j] = <<"bump", d>>
        BY <1>0 DEF Inv, LogInv, AcceptedIsLogged
      <3>2. j \in DOMAIN log' /\ log'[j] = <<"bump", log'[i][2]>> /\ j < i
        BY <2>2, <3>1, <1>1
      <3>3. pc'[log'[i][2]] = "committed"
        BY <2>2, <1>0, <1>1 DEF TypeOK
      <3> QED BY <3>2, <3>3
    <2> QED BY <2>1, <2>2, <1>1
  <1>7. CommitsOnce'
    <2> SUFFICES ASSUME NEW i \in DOMAIN log', NEW j \in DOMAIN log',
                        log'[i][1] = "commit", log'[i] = log'[j]
                 PROVE  i = j
      BY DEF CommitsOnce
    <2>1. CASE i \in DOMAIN log /\ j \in DOMAIN log
      BY <2>1, <1>1 DEF Inv, LogInv, CommitsOnce
    <2>2. CASE i \in DOMAIN log /\ j = Len(log) + 1
      <3>1. log[i] = log'[i] /\ log'[j] = <<"commit", d>> /\ log[i][2] # d
        BY <2>2, <1>1, <1>5
      <3> QED BY <3>1
    <2>3. CASE i = Len(log) + 1 /\ j \in DOMAIN log
      <3>1. log[j] = log'[j] /\ log'[i] = <<"commit", d>>
        BY <2>3, <1>1
      <3> QED BY <2>3, <3>1, <1>5
    <2> QED BY <2>1, <2>2, <2>3, <1>1
  <1>8. AcceptedIsLogged'
    <2> SUFFICES ASSUME NEW e \in Delivery, pc'[e] = "accepted"
                 PROVE  \E j \in DOMAIN log' : log'[j] = <<"bump", e>>
      BY DEF AcceptedIsLogged
    <2>1. PICK j \in DOMAIN log : log[j] = <<"bump", e>>
      BY <1>0 DEF Inv, LogInv, AcceptedIsLogged, TypeOK
    <2>2. j \in DOMAIN log' /\ log'[j] = <<"bump", e>>
      BY <2>1, <1>1
    <2> QED BY <2>2
  <1>9. ReadIsRecent'
    BY <1>0 DEF Inv, ReadIsRecent, TypeOK
  <1> QED BY <1>2, <1>3, <1>4, <1>6, <1>7, <1>8, <1>9 DEF Inv, LogInv

\* A crash keeps a prefix of the log, and with an effect the bump before it.
LEMMA CrashInv ==
  ASSUME Inv, Crash
  PROVE  Inv'
  <1> USE DeliveryTypes
  <1>0. TypeOK
    BY DEF Inv
  <1>1. PICK n \in synced .. Len(log) : log' = SubSeq(log, 1, n) /\ synced' = n
    BY DEF Crash
  <1>2. /\ n \in 0 .. Len(log) /\ DOMAIN log = 1 .. Len(log) /\ Len(log) \in Nat
        /\ log' \in Seq({"bump", "commit"} \X Delivery)
        /\ Len(log') = n /\ DOMAIN log' = 1 .. n
        /\ \A i \in DOMAIN log' : i \in DOMAIN log /\ log'[i] = log[i]
        /\ \A i \in DOMAIN log : log[i] \in {"bump", "commit"} \X Delivery
    <2>1. n \in 0 .. Len(log) /\ DOMAIN log = 1 .. Len(log) /\ Len(log) \in Nat
          /\ log \in Seq({"bump", "commit"} \X Delivery)
      BY <1>0, <1>1 DEF TypeOK
    <2>2. \A i \in DOMAIN log : log[i] \in {"bump", "commit"} \X Delivery
      BY <2>1
    <2>3. Len(log') = n /\ DOMAIN log' = 1 .. n /\ \A i \in 1 .. n : log'[i] = log[i]
      BY <1>1, <2>1
    <2>4. log' \in Seq({"bump", "commit"} \X Delivery)
      BY <1>1, <2>1, <2>2
    <2> QED BY <2>1, <2>2, <2>3, <2>4
  <1>3. TypeOK'
    <2>1. pc' \in [Delivery -> Decided \cup {"idle", "bumping", "read", "accepted"}]
      BY <1>0 DEF TypeOK, Crash, Decided
    <2>2. /\ stored' \in [Address -> 0 .. MaxNonce] /\ crashes' \in Nat
          /\ UNCHANGED <<version, seen, seenVersion, faults>>
      BY <1>0 DEF TypeOK, Crash
    <2>3. synced' \in 0 .. Len(log')
      BY <1>1, <1>2
    <2>4. /\ version' \in [Address -> Nat] /\ faults' \in Nat
          /\ seen' \in [Delivery -> 0 .. MaxNonce] /\ seenVersion' \in [Delivery -> Nat]
      BY <1>0, <2>2 DEF TypeOK
    <2> QED BY <1>2, <2>1, <2>2, <2>3, <2>4 DEF TypeOK
  <1>4. Rising'
    BY Zenon, <1>2 DEF Inv, LogInv, Rising, IsBump
  <1>5. RowsAreLogged'
    BY DEF Crash, RowsAreLogged
  <1>6. CommitFollowsBump'
    <2> SUFFICES ASSUME NEW i \in DOMAIN log', log'[i][1] = "commit"
                 PROVE  /\ pc'[log'[i][2]] = "committed"
                        /\ \E j \in DOMAIN log' : log'[j] = <<"bump", log'[i][2]>> /\ j < i
      BY DEF CommitFollowsBump
    <2>1. i \in DOMAIN log /\ log'[i] = log[i] /\ log[i][2] \in Delivery
      BY <1>2
    <2>2. pc[log[i][2]] = "committed"
      BY <2>1 DEF Inv, LogInv, CommitFollowsBump
    <2>3. pc'[log'[i][2]] = "committed"
      BY <2>1, <2>2 DEF Crash
    <2>4. PICK j \in DOMAIN log : log[j] = <<"bump", log[i][2]>> /\ j < i
      BY <2>1 DEF Inv, LogInv, CommitFollowsBump
    <2>5. j \in DOMAIN log'
      BY <2>4, <1>2
    <2>6. log'[j] = <<"bump", log'[i][2]>>
      BY <2>1, <2>4, <2>5, <1>2
    <2> QED BY <2>3, <2>4, <2>5, <2>6
  <1>7. CommitsOnce'
    BY <1>2 DEF Inv, LogInv, CommitsOnce
  <1>8. AcceptedIsLogged' /\ ReadIsRecent'
    BY <1>0 DEF Crash, AcceptedIsLogged, ReadIsRecent, TypeOK
  <1> QED BY <1>3, <1>4, <1>5, <1>6, <1>7, <1>8 DEF Inv, LogInv

\* A step that leaves the rows and the log alone, and accepts or commits nothing.
LEMMA OtherInv ==
  ASSUME Inv, NEW d \in Delivery,
         Arrive(d) \/ GetForUpdate(d) \/ TooLow(d) \/ TryAgain(d) \/ StoreError(d) \/ HandlerFails(d)
  PROVE  Inv'
  <1> USE DeliveryTypes
  <1>0. TypeOK /\ rows' = rows
    BY DEF Inv, Arrive, GetForUpdate, TooLow, TryAgain, StoreError, HandlerFails
  <1>1. \A e \in Delivery :
           /\ pc[e] = "committed" <=> pc'[e] = "committed"
           /\ pc'[e] = "accepted" => pc[e] = "accepted"
    BY SMTT(30), <1>0 DEF TypeOK, Arrive, GetForUpdate, TooLow, TryAgain, StoreError, HandlerFails
  <1>2. TypeOK'
    <2>1. pc' \in [Delivery -> Decided \cup {"idle", "bumping", "read", "accepted"}]
      BY Zenon, <1>0 DEF TypeOK, Decided, Arrive, GetForUpdate, TooLow, TryAgain, StoreError,
                  HandlerFails
    <2>2. seen' \in [Delivery -> 0 .. MaxNonce] /\ seenVersion' \in [Delivery -> Nat]
      BY ZenonT(30), <1>0 DEF TypeOK, Arrive, GetForUpdate, TooLow, TryAgain, StoreError, HandlerFails
    <2>3. crashes' \in Nat /\ faults' \in Nat
      BY SMTT(30), <1>0 DEF TypeOK, Arrive, GetForUpdate, TooLow, TryAgain, StoreError, HandlerFails
    <2> QED BY SMTT(30), <1>0, <2>1, <2>2, <2>3 DEF TypeOK, rows
  <1>3. \A i \in DOMAIN log : log[i][2] \in Delivery
    BY <1>0 DEF TypeOK
  <1>4. Rising' /\ RowsAreLogged' /\ CommitsOnce'
    BY <1>0 DEF rows, Inv, LogInv, Rising, RowsAreLogged, CommitsOnce, IsBump, LastBump, Bumps
  <1>5. CommitFollowsBump'
    BY <1>0, <1>1, <1>3 DEF rows, Inv, LogInv, CommitFollowsBump
  <1>6. AcceptedIsLogged'
    BY <1>0, <1>1 DEF rows, Inv, LogInv, AcceptedIsLogged
  <1>7. ReadIsRecent'
    <2>1. CASE GetForUpdate(d)
      <3>1. \A e \in Delivery \ {d} :
               /\ seen'[e] = seen[e] /\ seenVersion'[e] = seenVersion[e] /\ pc'[e] = pc[e]
        BY <2>1, <1>0 DEF GetForUpdate, TypeOK
      <3>2. /\ seen'[d] = stored[AddressOf[d]] /\ seenVersion'[d] = version[AddressOf[d]]
            /\ stored[AddressOf[d]] \in Nat /\ version[AddressOf[d]] \in Nat
        BY <2>1, <1>0 DEF GetForUpdate, TypeOK
      <3> QED BY <1>0, <3>1, <3>2 DEF rows, Inv, ReadIsRecent
    <2>2. CASE ~GetForUpdate(d)
      <3>1. /\ seen' = seen /\ seenVersion' = seenVersion
            /\ \A e \in Delivery : pc'[e] = "read" => pc[e] = "read"
        BY SMTT(30), <2>2, <1>0 DEF TypeOK, Arrive, TooLow, TryAgain, StoreError, HandlerFails
      <3> QED BY <1>0, <3>1 DEF rows, Inv, ReadIsRecent
    <2> QED BY <2>1, <2>2
  <1> QED BY <1>2, <1>4, <1>5, <1>6, <1>7 DEF Inv, LogInv

\* Every step keeps the invariant.
LEMMA StepInv == Inv /\ [Next]_vars => Inv'
  <1> SUFFICES ASSUME Inv, [Next]_vars PROVE Inv'
    OBVIOUS
  <1> DEFINE Frame == /\ UNCHANGED <<stored, version, log, pc, seen, seenVersion>>
                      /\ UNCHANGED <<crashes, faults>> /\ synced' \in 0 .. Len(log)
  <1>1. ASSUME Frame PROVE Inv'
    BY <1>1 DEF Inv, LogInv, TypeOK, Decided, Rising, RowsAreLogged, CommitFollowsBump,
                CommitsOnce, AcceptedIsLogged, ReadIsRecent, IsBump, LastBump, Bumps
  <1>2. CASE WriteBack
    BY <1>1, <1>2 DEF WriteBack, Inv, TypeOK
  <1>3. CASE UNCHANGED vars
    BY <1>1, <1>3 DEF vars, rows, Inv, TypeOK
  <1> QED BY <1>2, <1>3, BumpedInv, CommittedInv, CrashInv, OtherInv DEF Next, Quiet

\* bump_nonce keeps the rows, the log and every handler's state well-typed.
THEOREM TypeCorrect == Spec => []TypeOK
  <1>1. Inv => TypeOK
    BY DEF Inv
  <1> QED BY <1>1, InitInv, StepInv, PTL DEF Spec

\* Replay protection, with any number of deliveries, crashes and errors: no two
\* effects in the store are of one request.
THEOREM ReplayProtection == Spec => []EffectOnce
  <1>1. Inv => EffectOnce
    <2> SUFFICES ASSUME Inv, NEW i \in DOMAIN log, NEW j \in DOMAIN log,
                        log[i][1] = "commit", log[j][1] = "commit",
                        AddressOf[log[i][2]] = AddressOf[log[j][2]],
                        NonceOf[log[i][2]] = NonceOf[log[j][2]]
                 PROVE  i = j
      BY DEF EffectOnce
    <2>1. PICK k \in DOMAIN log : log[k] = <<"bump", log[i][2]>>
      BY DEF Inv, LogInv, CommitFollowsBump
    <2>2. PICK l \in DOMAIN log : log[l] = <<"bump", log[j][2]>>
      BY DEF Inv, LogInv, CommitFollowsBump
    <2>3. /\ k \in Nat /\ l \in Nat /\ NonceOf[log[i][2]] \in Nat
          /\ log[i] \in {"bump", "commit"} \X Delivery
          /\ log[j] \in {"bump", "commit"} \X Delivery
      <3>1. log \in Seq({"bump", "commit"} \X Delivery)
        BY DEF Inv, TypeOK
      <3>2. \A x \in DOMAIN log : x \in Nat /\ log[x] \in {"bump", "commit"} \X Delivery
        BY <3>1
      <3> QED BY <3>2, DeliveryTypes
    <2>4. ~(k < l) /\ ~(l < k)
      BY <2>1, <2>2, <2>3 DEF Inv, LogInv, Rising, IsBump
    <2>5. log[i][2] = log[j][2]
      BY <2>1, <2>2, <2>3, <2>4
    <2>6. log[i] = log[j]
      BY <2>3, <2>5
    <2> QED BY <2>6 DEF Inv, LogInv, CommitsOnce
  <1> QED BY <1>1, InitInv, StepInv, PTL DEF Spec

\* bump_nonce is atomic: a decision it takes on what it read is the decision the
\* row calls for when it is taken.
THEOREM BumpIsAtomic == Spec => DecidedOnCurrentRow
  <1> DEFINE Decides ==
        \A d \in Delivery :
          /\ pc[d] = "read" /\ pc'[d] = "accepted" => NonceOf[d] > stored[AddressOf[d]]
          /\ pc[d] = "read" /\ pc'[d] = "rejected" => NonceOf[d] <= stored[AddressOf[d]]
  <1>1. Inv /\ [Next]_vars => [Decides]_vars
    <2> SUFFICES ASSUME Inv, Next, NEW d \in Delivery, pc[d] = "read",
                        pc'[d] \in {"accepted", "rejected"}
                 PROVE  /\ pc'[d] = "accepted" => NonceOf[d] > stored[AddressOf[d]]
                        /\ pc'[d] = "rejected" => NonceOf[d] <= stored[AddressOf[d]]
      OBVIOUS
    <2>0. TypeOK /\ NonceOf[d] \in Nat /\ AddressOf[d] \in Address
      BY DeliveryTypes DEF Inv
    <2>1. \/ Bumped(d) /\ pc'[d] = "accepted"
          \/ TooLow(d) /\ pc'[d] = "rejected"
      <3>1. CASE WriteBack \/ Crash \/ Quiet
        BY Zenon, <3>1, <2>0 DEF TypeOK, WriteBack, Crash, Quiet, Decided, vars
      <3>2. ASSUME NEW e \in Delivery,
                   \/ Arrive(e) \/ GetForUpdate(e) \/ TryAgain(e)
                   \/ StoreError(e) \/ HandlerFails(e) \/ HandlerCommits(e)
            PROVE  FALSE
        BY <3>2, <2>0 DEF TypeOK, Arrive, GetForUpdate, TryAgain, StoreError, HandlerFails,
                          HandlerCommits
      <3>3. ASSUME NEW e \in Delivery, Bumped(e) \/ TooLow(e) PROVE e = d
        BY <3>3, <2>0 DEF TypeOK, Bumped, TooLow
      <3>4. \E e \in Delivery : Bumped(e) \/ TooLow(e)
        BY <3>1, <3>2 DEF Next
      <3>5. Bumped(d) \/ TooLow(d)
        BY <3>3, <3>4
      <3>6. Bumped(d) => pc'[d] = "accepted"
        BY <2>0 DEF TypeOK, Bumped
      <3>7. TooLow(d) => pc'[d] = "rejected"
        BY <2>0 DEF TypeOK, TooLow
      <3> QED BY <3>5, <3>6, <3>7
    <2>2. /\ seen[d] \in Nat /\ stored[AddressOf[d]] \in Nat
          /\ seen[d] <= stored[AddressOf[d]]
          /\ seenVersion[d] = version[AddressOf[d]] => seen[d] = stored[AddressOf[d]]
      BY <2>0 DEF Inv, TypeOK, ReadIsRecent
    <2> QED BY <2>0, <2>1, <2>2 DEF Bumped, TooLow, Stale, Busy
  <1> QED BY <1>1, InitInv, StepInv, PTL DEF Spec, DecidedOnCurrentRow
=============================================================================
