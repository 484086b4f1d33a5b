-------------------------- MODULE SortedMapProofs --------------------------
(***************************************************************************)
(* The B+-tree of pbtree.rs, for any number of entries and any number of   *)
(* keys to a node: puts and removals keep the keys in order and the nodes  *)
(* within their size, and lookups find what was put and not removed.       *)
(***************************************************************************)
EXTENDS PBTreeSteps, SequenceTheorems, WellFoundedInduction, TLAPS

(***************************************************************************)
(* Positions in sequences.                                                 *)
(***************************************************************************)

\* A set of numbers that is not empty has a least element.
LEMMA LeastNumber ==
    ASSUME NEW S \in SUBSET Nat, S # {}
    PROVE  Min(S) \in S /\ \A x \in S : Min(S) <= x
<1>1. IsWellFoundedOn(OpToRel(<, Nat), Nat)
  BY Zenon, NatLessThanWellFounded
<1>2. PICK x \in S : \A y \in S : <<y, x>> \notin OpToRel(<, Nat)
  BY Zenon, <1>1, WFMin
<1>3. \A y \in S : ~(y < x)
  BY Zenon, <1>2 DEF OpToRel
<1>4. \A y \in S : x <= y
  BY <1>3
<1> QED
  BY Zenon, <1>4 DEF Min

\* First is one of the positions, or the one after the end, and none is before it.
LEMMA FirstPosition ==
    ASSUME NEW s, NEW n \in Nat, n = Len(s), NEW P, \A i \in P : i \in 1 .. n
    PROVE  /\ First(P, s) \in 1 .. n + 1
           /\ First(P, s) \in P \/ First(P, s) = n + 1
           /\ \A i \in P : First(P, s) <= i
<1> DEFINE S == P \cup {n + 1}
<1>1. \A x \in S : x \in 1 .. n + 1
  OBVIOUS
<1>2. \A x \in 1 .. n + 1 : x \in Nat
  OBVIOUS
<1>3. S \in SUBSET Nat /\ S # {}
  BY Zenon, <1>1, <1>2
<1> DEFINE m == Min(S)
<1>4. m \in S /\ \A x \in S : m <= x
  BY Zenon, <1>3, LeastNumber
<1>5. First(P, s) = m
  BY Zenon DEF First
<1> HIDE DEF m
<1> QED
  BY <1>1, <1>4, <1>5

\* The keys up to the one that is looked for are before the child to look in, those
\* beyond it after.
Between(keys, key, p) ==
    /\ p \in 1 .. Len(keys) + 1
    /\ \A i \in 1 .. Len(keys) : i < p => keys[i] <= key
    /\ \A i \in 1 .. Len(keys) : i >= p => keys[i] > key

Increasing(ks) == \A i, j \in 1 .. Len(ks) : i < j => ks[i] < ks[j]

\* descend_pos finds it, if the keys are in order;
LEMMA DescendFinds ==
    ASSUME NEW keys \in Seq(Nat), Increasing(keys), NEW key \in Nat
    PROVE  Between(keys, key, descend_pos(keys, key))
<1> DEFINE P == {i \in DOMAIN keys : keys[i] > key}
<1>1. Len(keys) \in Nat /\ \A i \in P : i \in 1 .. Len(keys)
  OBVIOUS
<1>2. /\ First(P, keys) \in 1 .. Len(keys) + 1
      /\ First(P, keys) \in P \/ First(P, keys) = Len(keys) + 1
      /\ \A i \in P : First(P, keys) <= i
  BY Zenon, <1>1, FirstPosition
<1>3. descend_pos(keys, key) = First(P, keys)
  BY Zenon DEF descend_pos
<1> DEFINE p == First(P, keys)
<1> HIDE DEF p
<1>4. /\ p \in 1 .. Len(keys) + 1 /\ (p \in P \/ p = Len(keys) + 1)
      /\ \A i \in P : p <= i
  BY Zenon, <1>2 DEF p
<1>5. ASSUME NEW i \in 1 .. Len(keys), i < p PROVE keys[i] <= key
  BY <1>4, <1>5
<1>6. ASSUME NEW i \in 1 .. Len(keys), i >= p PROVE keys[i] > key
  BY <1>4, <1>6 DEF Increasing
<1> QED
  BY <1>2, <1>3, <1>5, <1>6 DEF Between, p

\* and there is no other such place.
LEMMA DescendIs ==
    ASSUME NEW keys \in Seq(Nat), NEW key \in Nat, NEW p, Between(keys, key, p)
    PROVE  descend_pos(keys, key) = p
<1> DEFINE P == {i \in DOMAIN keys : keys[i] > key}
<1>1. Len(keys) \in Nat /\ \A i \in P : i \in 1 .. Len(keys)
  OBVIOUS
<1>2. /\ First(P, keys) \in 1 .. Len(keys) + 1
      /\ First(P, keys) \in P \/ First(P, keys) = Len(keys) + 1
      /\ \A i \in P : First(P, keys) <= i
  BY Zenon, <1>1, FirstPosition
<1>3. descend_pos(keys, key) = First(P, keys)
  BY Zenon DEF descend_pos
<1> DEFINE f == First(P, keys)
<1> HIDE DEF f
<1>4. /\ f \in 1 .. Len(keys) + 1 /\ (f \in P \/ f = Len(keys) + 1)
      /\ \A i \in P : f <= i
  BY Zenon, <1>2 DEF f
<1>5. p \in P \/ p = Len(keys) + 1
  BY DEF Between
<1>6. f = p
  BY <1>4, <1>5 DEF Between
<1> QED
  BY Zenon, <1>3, <1>6 DEF f

\* t is s, of length n, with e inserted at i; with e in place of what was there; without
\* what was there.
Inserts(t, S, s, n, i, e) ==
    /\ t \in Seq(S) /\ Len(t) = n + 1
    /\ \A j \in 1 .. n + 1 : t[j] = IF j < i THEN s[j] ELSE IF j = i THEN e ELSE s[j - 1]
Replaces(t, S, s, n, i, e) ==
    /\ t \in Seq(S) /\ Len(t) = n
    /\ \A j \in 1 .. n : t[j] = IF j = i THEN e ELSE s[j]
Drops(t, S, s, n, i) ==
    /\ t \in Seq(S) /\ Len(t) = n - 1
    /\ \A j \in 1 .. n - 1 : t[j] = IF j < i THEN s[j] ELSE s[j + 1]

\* t is the n elements of s after the first k.
Slices(t, S, s, k, n) == t \in Seq(S) /\ Len(t) = n /\ \A i \in 1 .. n : t[i] = s[k + i]

\* A part of a sequence.
LEMMA SlicesAt ==
    ASSUME NEW S, NEW s \in Seq(S), NEW k \in Nat, NEW n \in Nat, k + n <= Len(s),
           NEW a, a = k + 1, NEW b, b = k + n, NEW t, t = SubSeq(s, a, b)
    PROVE  Slices(t, S, s, k, n)
<1>1. /\ a \in Int /\ b \in Int /\ (a <= b => b - a + 1 = n) /\ (~(a <= b) => n = 0)
      /\ b - a + 1 = n
  OBVIOUS
<1>2. \A i \in a .. b : i \in 1 .. Len(s)
  OBVIOUS
<1>3. \A i \in a .. b : s[i] \in S
  BY <1>2
<1>4. /\ t \in Seq(S) /\ Len(t) = IF a <= b THEN b - a + 1 ELSE 0
      /\ \A i \in 1 .. b - a + 1 : t[i] = s[a + i - 1]
  <2>1. /\ SubSeq(s, a, b) \in Seq(S) /\ Len(SubSeq(s, a, b)) = IF a <= b THEN b - a + 1 ELSE 0
        /\ \A i \in 1 .. b - a + 1 : SubSeq(s, a, b)[i] = s[a + i - 1]
    <3>1. a \in Int /\ b \in Int
      BY Zenon, <1>1
    <3> QED
      BY ONLY <3>1, <1>3, SubSeqProperties
  <2> QED
    BY Zenon, <2>1
<1>5. \A i \in 1 .. n : a + i - 1 = k + i
  OBVIOUS
<1>6. Len(t) = n
  BY Zenon, <1>1, <1>4
<1> QED
  BY Zenon, <1>1, <1>4, <1>5, <1>6 DEF Slices

\* A sequence with an element inserted.
LEMMA InsertedAt ==
    ASSUME NEW S, NEW s \in Seq(S), NEW i \in 1 .. Len(s) + 1, NEW e \in S
    PROVE  Inserts(InsertAt(s, i, e), S, s, Len(s), i, e)
<1> DEFINE a == SubSeq(s, 1, i - 1)
           b == SubSeq(s, i, Len(s))
<1>1. a \in Seq(S) /\ Len(a) = i - 1 /\ \A j \in 1 .. i - 1 : a[j] = s[j]
  OBVIOUS
<1>2. b \in Seq(S) /\ Len(b) = Len(s) - i + 1 /\ \A j \in 1 .. Len(s) - i + 1 : b[j] = s[i + j - 1]
  OBVIOUS
<1>3. InsertAt(s, i, e) = a \o <<e>> \o b
  BY DEF InsertAt
<1> HIDE DEF a, b
<1> DEFINE c == a \o <<e>>
           d == c \o b
<1>4. c \in Seq(S) /\ Len(c) = i /\ \A j \in 1 .. i : c[j] = IF j < i THEN s[j] ELSE e
  <2>1. <<e>> \in Seq(S) /\ Len(<<e>>) = 1 /\ <<e>>[1] = e
    OBVIOUS
  <2>2. c \in Seq(S) /\ Len(c) = Len(a) + 1
        /\ \A j \in 1 .. Len(a) + 1 : c[j] = IF j <= Len(a) THEN a[j] ELSE <<e>>[j - Len(a)]
    BY <1>1, <2>1, ConcatProperties
  <2> HIDE DEF c
  <2> QED
    BY <1>1, <2>1, <2>2
<1> HIDE DEF c
<1>5. d \in Seq(S) /\ Len(d) = Len(c) + Len(b)
      /\ \A j \in 1 .. Len(c) + Len(b) : d[j] = IF j <= Len(c) THEN c[j] ELSE b[j - Len(c)]
  BY Zenon, <1>2, <1>4, ConcatProperties
<1>6. InsertAt(s, i, e) = d
  BY Zenon, <1>3 DEF c
<1> HIDE DEF d
<1>7. Len(d) = Len(s) + 1
  BY <1>2, <1>4, <1>5
<1>8. ASSUME NEW j \in 1 .. Len(s) + 1
      PROVE  d[j] = IF j < i THEN s[j] ELSE IF j = i THEN e ELSE s[j - 1]
  <2>1. CASE j <= i
    BY <1>2, <1>4, <1>5, <2>1
  <2>2. CASE j > i
    <3>1. j - i \in 1 .. Len(s) - i + 1 /\ i + (j - i) - 1 = j - 1
      BY <2>2
    <3>2. d[j] = b[j - i] /\ b[j - i] = s[i + (j - i) - 1]
      BY <1>2, <1>4, <1>5, <2>2, <3>1
    <3> QED
      BY <2>2, <3>1, <3>2
  <2> QED
    BY <2>1, <2>2
<1> QED
  BY Zenon, <1>5, <1>6, <1>7, <1>8 DEF Inserts

\* A sequence with an element removed.
LEMMA RemovedAt ==
    ASSUME NEW S, NEW s \in Seq(S), NEW i \in 1 .. Len(s)
    PROVE  /\ RemoveAt(s, i) \in Seq(S)
           /\ Len(RemoveAt(s, i)) = Len(s) - 1
           /\ \A j \in 1 .. Len(s) - 1 :
                 RemoveAt(s, i)[j] = IF j < i THEN s[j] ELSE s[j + 1]
<1> DEFINE a == SubSeq(s, 1, i - 1)
           b == SubSeq(s, i + 1, Len(s))
<1>1. a \in Seq(S) /\ Len(a) = i - 1 /\ \A j \in 1 .. i - 1 : a[j] = s[j]
  OBVIOUS
<1>2. b \in Seq(S) /\ Len(b) = Len(s) - i /\ \A j \in 1 .. Len(s) - i : b[j] = s[i + j]
  OBVIOUS
<1>3. RemoveAt(s, i) = a \o b
  BY DEF RemoveAt
<1> HIDE DEF a, b
<1> DEFINE d == a \o b
<1>4. d \in Seq(S) /\ Len(d) = Len(a) + Len(b)
      /\ \A j \in 1 .. Len(a) + Len(b) : d[j] = IF j <= Len(a) THEN a[j] ELSE b[j - Len(a)]
  BY Zenon, <1>1, <1>2, ConcatProperties
<1> HIDE DEF d
<1> QED
  BY SMTT(30), <1>1, <1>2, <1>3, <1>4 DEF d

\* Vec's insert does the first,
LEMMA InsertsAt ==
    ASSUME NEW S, NEW s \in Seq(S), NEW n, n = Len(s), NEW i \in 1 .. n + 1, NEW e, e \in S,
           NEW t, t = InsertAt(s, i, e)
    PROVE  Inserts(t, S, s, n, i, e)
<1>1. i \in 1 .. Len(s) + 1
  BY Zenon
<1> QED
  BY Zenon, <1>1, InsertedAt

\* its assignment to an element the second,
LEMMA ReplacesAt ==
    ASSUME NEW S, NEW s \in Seq(S), NEW n, n = Len(s), NEW i \in 1 .. n, NEW e, e \in S,
           NEW t, t = ReplaceAt(s, i, e)
    PROVE  Replaces(t, S, s, n, i, e)
BY DEF ReplaceAt, Replaces

\* and its remove the third.
LEMMA DropsAt ==
    ASSUME NEW S, NEW s \in Seq(S), NEW n, n = Len(s), NEW i \in 1 .. n, NEW t, t = RemoveAt(s, i)
    PROVE  Drops(t, S, s, n, i)
BY SMTT(30), RemovedAt DEF Drops

(***************************************************************************)
(* The entries of a leaf.                                                  *)
(***************************************************************************)
Entry(Val) == Nat \X Val
Rising(es) == \A i, j \in 1 .. Len(es) : i < j => KeyAt(es, i) < KeyAt(es, j)
Within(es, lo, hi) == \A i \in 1 .. Len(es) : lo <= KeyAt(es, i) /\ KeyAt(es, i) < hi

\* The keys of entries are numbers.
LEMMA KeyAtType ==
    ASSUME NEW Val, NEW es \in Seq(Entry(Val))
    PROVE  Len(es) \in Nat /\ \A i \in 1 .. Len(es) : KeyAt(es, i) \in Nat /\ ValAt(es, i) \in Val
BY DEF KeyAt, ValAt, Entry

\* Entries inserted and replaced.
LEMMA InsertedEntry ==
    ASSUME NEW Val, NEW es \in Seq(Entry(Val)), NEW p \in 1 .. Len(es) + 1, NEW e \in Entry(Val)
    PROVE  /\ InsertAt(es, p, e) \in Seq(Entry(Val)) /\ Len(InsertAt(es, p, e)) = Len(es) + 1
           /\ \A j \in 1 .. Len(es) + 1 :
                 InsertAt(es, p, e)[j] = IF j < p THEN es[j] ELSE IF j = p THEN e ELSE es[j - 1]
<1>1. Inserts(InsertAt(es, p, e), Entry(Val), es, Len(es), p, e)
  BY Zenon, InsertsAt
<1> QED
  BY Zenon, <1>1 DEF Inserts

\* A leaf's entries with one replaced.
LEMMA ReplacedEntry ==
    ASSUME NEW Val, NEW es \in Seq(Entry(Val)), NEW p \in 1 .. Len(es), NEW e \in Entry(Val)
    PROVE  /\ ReplaceAt(es, p, e) \in Seq(Entry(Val)) /\ Len(ReplaceAt(es, p, e)) = Len(es)
           /\ \A j \in 1 .. Len(es) : ReplaceAt(es, p, e)[j] = IF j = p THEN e ELSE es[j]
BY DEF ReplaceAt

\* The value of a key is the one beside it, if it is there.
LEMMA ValueAt ==
    ASSUME NEW Val, NEW es \in Seq(Entry(Val)), Rising(es), NEW key \in Nat
    PROVE  /\ \A i \in 1 .. Len(es) : KeyAt(es, i) = key => Value(es, key) = ValAt(es, i)
           /\ (\A i \in 1 .. Len(es) : KeyAt(es, i) # key) => Value(es, key) = NotFound
<1> DEFINE P == {j \in DOMAIN es : KeyAt(es, j) = key}
           f == First(P, es)
<1>1. Len(es) \in Nat /\ DOMAIN es = 1 .. Len(es) /\ \A i \in P : i \in 1 .. Len(es)
  OBVIOUS
<1>2. f \in 1 .. Len(es) + 1 /\ (f \in P \/ f = Len(es) + 1) /\ \A i \in P : f <= i
  BY Zenon, <1>1, FirstPosition
<1>3. Value(es, key) = IF f \in DOMAIN es THEN ValAt(es, f) ELSE NotFound
  BY Zenon DEF Value
<1> HIDE DEF f
<1>4. ASSUME NEW i \in 1 .. Len(es), KeyAt(es, i) = key PROVE Value(es, key) = ValAt(es, i)
  <2>1. i \in P /\ f <= i /\ f \in P
    BY <1>1, <1>2, <1>4
  <2>2. f = i
    BY <1>1, <1>4, <2>1 DEF Rising
  <2> QED
    BY Zenon, <1>1, <1>3, <2>2
<1>5. ASSUME \A i \in 1 .. Len(es) : KeyAt(es, i) # key PROVE Value(es, key) = NotFound
  <2>1. f \notin P
    BY Zenon, <1>1, <1>5
  <2>2. f \notin DOMAIN es
    BY <1>1, <1>2, <2>1
  <2> QED
    BY Zenon, <1>3, <2>2
<1> QED
  BY Zenon, <1>4, <1>5

\* The entries before the position of a key are below it, the others are not.
LEMMA PositionOf ==
    ASSUME NEW Val, NEW es \in Seq(Entry(Val)), Rising(es), NEW key \in Nat, NEW p, p = Position(es, key)
    PROVE  /\ p \in 1 .. Len(es) + 1
           /\ \A i \in 1 .. Len(es) : i < p => KeyAt(es, i) < key
           /\ \A i \in 1 .. Len(es) : i >= p => KeyAt(es, i) >= key
           /\ HasAt(es, p, key) <=> p \in 1 .. Len(es) /\ KeyAt(es, p) = key
           /\ ~HasAt(es, p, key) => \A i \in 1 .. Len(es) : KeyAt(es, i) # key
<1> DEFINE P == {j \in DOMAIN es : KeyAt(es, j) >= key}
<1>1. Len(es) \in Nat /\ DOMAIN es = 1 .. Len(es) /\ \A i \in P : i \in 1 .. Len(es)
  OBVIOUS
<1>2. p = First(P, es)
  BY Zenon DEF Position
<1>3. p \in 1 .. Len(es) + 1 /\ (p \in P \/ p = Len(es) + 1) /\ \A i \in P : p <= i
  BY <1>1, <1>2, FirstPosition
<1>4. \A i \in 1 .. Len(es) : KeyAt(es, i) \in Nat
  BY Zenon, KeyAtType
<1>5. ASSUME NEW i \in 1 .. Len(es), i < p PROVE KeyAt(es, i) < key
  <2>1. ~(p <= i)
    BY <1>3, <1>5
  <2>2. ~(KeyAt(es, i) >= key)
    BY Zenon, <1>1, <1>3, <2>1
  <2> QED
    BY <1>4, <2>2
<1>6. ASSUME NEW i \in 1 .. Len(es), i >= p PROVE KeyAt(es, i) >= key /\ (i > p => KeyAt(es, i) > key)
  BY <1>1, <1>3, <1>4, <1>6 DEF Rising
<1>7. HasAt(es, p, key) <=> p \in 1 .. Len(es) /\ KeyAt(es, p) = key
  BY Zenon, <1>1 DEF HasAt
<1>8. ASSUME ~HasAt(es, p, key), NEW i \in 1 .. Len(es) PROVE KeyAt(es, i) # key
  <2>1. CASE i < p
    BY <1>4, <1>5, <2>1
  <2>2. CASE i = p
    BY Zenon, <1>7, <1>8, <2>2
  <2>3. CASE i > p
    BY <1>3, <1>4, <1>6, <2>3
  <2> QED
    BY <1>3, <2>1, <2>2, <2>3
<1> QED
  BY Zenon, <1>3, <1>5, <1>6, <1>7, <1>8

\* Two lists of entries that agree on a key have the same value for it.
LEMMA SameValue ==
    ASSUME NEW Val, NEW es \in Seq(Entry(Val)), Rising(es), NEW t \in Seq(Entry(Val)), Rising(t),
           NEW key \in Nat,
           \A i \in 1 .. Len(es) : KeyAt(es, i) = key => \E h \in 1 .. Len(t) : t[h] = es[i],
           \A h \in 1 .. Len(t) : KeyAt(t, h) = key => \E i \in 1 .. Len(es) : t[h] = es[i]
    PROVE  Value(t, key) = Value(es, key)
<1>1. CASE \E i \in 1 .. Len(es) : KeyAt(es, i) = key
  <2>1. PICK i \in 1 .. Len(es) : KeyAt(es, i) = key
    BY Zenon, <1>1
  <2>2. PICK h \in 1 .. Len(t) : t[h] = es[i]
    BY Zenon, <2>1
  <2>3. KeyAt(t, h) = key /\ ValAt(t, h) = ValAt(es, i)
    BY Zenon, <2>1, <2>2 DEF KeyAt, ValAt
  <2>4. Value(t, key) = ValAt(t, h) /\ Value(es, key) = ValAt(es, i)
    BY Zenon, <2>1, <2>3, ValueAt
  <2> QED
    BY Zenon, <2>3, <2>4
<1>2. CASE \A i \in 1 .. Len(es) : KeyAt(es, i) # key
  <2>1. \A h \in 1 .. Len(t) : KeyAt(t, h) # key
    BY ZenonT(40), <1>2 DEF KeyAt, ValAt
  <2> QED
    BY Zenon, <1>2, <2>1, ValueAt
<1> QED
  BY Zenon, <1>1, <1>2

\* t is es with the value v for k.
EntriesPut(es, t, Val, k, v, lo, hi) ==
    /\ t \in Seq(Entry(Val)) /\ Rising(t) /\ Within(t, lo, hi)
    /\ Len(t) \in 1 .. Len(es) + 1
    /\ \A j \in Nat : Value(t, j) = IF j = k THEN v ELSE Value(es, j)

\* Insertion keeps the order and changes the value of one key.
LEMMA InsertedEntries ==
    ASSUME NEW Val, NEW es \in Seq(Entry(Val)), Rising(es),
           NEW lo \in Nat, NEW hi \in Nat, Within(es, lo, hi),
           NEW k \in Nat, lo <= k, k < hi, NEW v \in Val, NEW t, t = Inserted(es, k, v)
    PROVE  EntriesPut(es, t, Val, k, v, lo, hi)
<1> DEFINE p == Position(es, k)
           e == <<k, v>>
           n == Len(es)
<1>1. /\ p \in 1 .. n + 1
      /\ \A i \in 1 .. n : i < p => KeyAt(es, i) < k
      /\ \A i \in 1 .. n : i >= p => KeyAt(es, i) >= k
      /\ HasAt(es, p, k) <=> p \in 1 .. n /\ KeyAt(es, p) = k
      /\ ~HasAt(es, p, k) => \A i \in 1 .. n : KeyAt(es, i) # k
  BY Zenon, PositionOf
<1>2. t = IF HasAt(es, p, k) THEN ReplaceAt(es, p, e) ELSE InsertAt(es, p, e)
  BY Zenon DEF Inserted
<1>3. e \in Entry(Val) /\ e[1] = k /\ e[2] = v
  BY DEF Entry
<1>4. n \in Nat /\ \A i \in 1 .. n : KeyAt(es, i) \in Nat
  BY Zenon, KeyAtType
<1> HIDE DEF p, e, n
<1>5. CASE HasAt(es, p, k)
  <2>1. /\ p \in 1 .. n /\ KeyAt(es, p) = k
        /\ t \in Seq(Entry(Val)) /\ Len(t) = n
        /\ \A j \in 1 .. n : t[j] = IF j = p THEN e ELSE es[j]
    <3>1. ReplaceAt(es, p, e) \in Seq(Entry(Val)) /\ Len(ReplaceAt(es, p, e)) = Len(es)
          /\ \A j \in 1 .. Len(es) : ReplaceAt(es, p, e)[j] = IF j = p THEN e ELSE es[j]
      <4>1. p \in 1 .. Len(es)
        BY Zenon, <1>1, <1>5 DEF n
      <4>2. Replaces(ReplaceAt(es, p, e), Entry(Val), es, Len(es), p, e)
        BY Zenon, <1>3, <4>1, ReplacesAt
      <4> QED
        BY Zenon, <4>2 DEF Replaces
    <3> QED
      BY <1>1, <1>2, <1>5, <3>1 DEF n
  <2>2. /\ KeyAt(t, p) = k /\ ValAt(t, p) = v
        /\ \A i \in 1 .. n : i # p => t[i] = es[i]
    BY Zenon, <1>3, <2>1 DEF KeyAt, ValAt
  <2>3. \A i \in 1 .. n : KeyAt(t, i) = KeyAt(es, i)
    BY Zenon, <2>1, <2>2 DEF KeyAt, ValAt
  <2>4. Rising(t) /\ Within(t, lo, hi)
    BY <2>1, <2>3 DEF Rising, Within, n
  <2>5. ASSUME NEW j \in Nat PROVE Value(t, j) = IF j = k THEN v ELSE Value(es, j)
    <3>1. CASE j = k
      <4>1. p \in 1 .. Len(t)
        BY Zenon, <2>1
      <4> QED
        BY Zenon, <2>1, <2>2, <2>4, <3>1, <4>1, ValueAt
    <3>2. CASE j # k
      <4>1. \A i \in 1 .. n : KeyAt(es, i) = j => t[i] = es[i]
        BY Zenon, <2>1, <2>2, <3>2
      <4>2. \A i \in 1 .. n : KeyAt(t, i) = j => t[i] = es[i]
        BY Zenon, <2>3, <4>1
      <4>3. Value(t, j) = Value(es, j)
        <5>1. /\ \A i \in 1 .. Len(es) : KeyAt(es, i) = j => \E h \in 1 .. Len(t) : t[h] = es[i]
              /\ \A h \in 1 .. Len(t) : KeyAt(t, h) = j => \E i \in 1 .. Len(es) : t[h] = es[i]
          BY <2>1, <4>1, <4>2 DEF n
        <5> QED
          BY SMTT(30), <2>1, <2>4, <5>1, SameValue
      <4> QED
        BY Zenon, <3>2, <4>3
    <3> QED
      BY Zenon, <3>1, <3>2
  <2>6. Len(t) \in 1 .. n + 1
    BY <1>4, <2>1
  <2> QED
    BY Zenon, <2>1, <2>4, <2>5, <2>6 DEF n, EntriesPut
<1>6. CASE ~HasAt(es, p, k)
  <2>1. /\ t \in Seq(Entry(Val)) /\ Len(t) = n + 1
        /\ \A j \in 1 .. n + 1 : t[j] = IF j < p THEN es[j] ELSE IF j = p THEN e ELSE es[j - 1]
    <3>1. InsertAt(es, p, e) \in Seq(Entry(Val)) /\ Len(InsertAt(es, p, e)) = Len(es) + 1
          /\ \A j \in 1 .. Len(es) + 1 :
                InsertAt(es, p, e)[j] = IF j < p THEN es[j] ELSE IF j = p THEN e ELSE es[j - 1]
      <4>1. p \in 1 .. Len(es) + 1
        BY Zenon, <1>1 DEF n
      <4> QED
        BY <1>3, <4>1, InsertedEntry
    <3> QED
      BY <1>2, <1>6, <3>1 DEF n
  <2>2. \A j \in 1 .. n : (j < p => KeyAt(es, j) < k) /\ (j >= p => KeyAt(es, j) > k)
    BY <1>1, <1>4, <1>6
  <2>3. ASSUME NEW j \in 1 .. n + 1, j < p
        PROVE  j \in 1 .. n /\ t[j] = es[j] /\ KeyAt(t, j) = KeyAt(es, j) /\ KeyAt(t, j) < k
    <3>1. j \in 1 .. n /\ t[j] = es[j]
      BY <1>1, <1>4, <2>1, <2>3
    <3> QED
      BY Zenon, <2>2, <2>3, <3>1 DEF KeyAt, ValAt
  <2>4. t[p] = e /\ KeyAt(t, p) = k /\ ValAt(t, p) = v
    <3>1. t[p] = e
      BY <1>1, <1>4, <2>1
    <3> QED
      BY Zenon, <1>3, <3>1 DEF KeyAt, ValAt
  <2>5. ASSUME NEW j \in 1 .. n + 1, j > p
        PROVE  /\ j - 1 \in 1 .. n /\ j - 1 >= p /\ t[j] = es[j - 1]
               /\ KeyAt(t, j) = KeyAt(es, j - 1) /\ KeyAt(t, j) > k
    <3>1. j - 1 \in 1 .. n /\ j - 1 >= p /\ t[j] = es[j - 1]
      BY SMTT(30), <1>1, <1>4, <2>1, <2>5
    <3> QED
      BY Zenon, <2>2, <3>1 DEF KeyAt, ValAt
  <2>6. \A i \in 1 .. n + 1 : i < p \/ i = p \/ i > p
    BY <1>1
  <2>7. Rising(t)
    <3> SUFFICES ASSUME NEW i \in 1 .. n + 1, NEW j \in 1 .. n + 1, i < j
                 PROVE  KeyAt(t, i) < KeyAt(t, j)
      BY <2>1 DEF Rising
    <3>1. CASE i < p /\ j < p
      BY Zenon, <2>3, <3>1 DEF Rising, n
    <3>2. CASE i < p /\ j = p
      BY Zenon, <2>3, <2>4, <3>2
    <3>3. CASE i < p /\ j > p
      <4>1. KeyAt(t, i) \in Nat /\ KeyAt(t, j) \in Nat /\ KeyAt(t, i) < k /\ KeyAt(t, j) > k
        BY Zenon, <1>4, <2>3, <2>5, <3>3
      <4> QED
        BY <4>1
    <3>4. CASE i = p /\ j > p
      <4>1. KeyAt(t, i) = k /\ KeyAt(t, j) \in Nat /\ KeyAt(t, j) > k
        BY Zenon, <1>4, <2>4, <2>5, <3>4
      <4> QED
        BY <4>1
    <3>5. CASE i > p
      <4>1. j > p /\ i - 1 < j - 1
        BY <1>1, <3>5
      <4> QED
        BY Zenon, <2>5, <3>5, <4>1 DEF Rising, n
    <3>6. i = p => j > p
      BY <1>1
    <3> QED
      BY Zenon, <3>1, <3>2, <3>3, <3>4, <3>5, <3>6, <2>6
  <2>8. Within(t, lo, hi)
    <3>1. ASSUME NEW j \in 1 .. n + 1 PROVE lo <= KeyAt(t, j) /\ KeyAt(t, j) < hi
      BY Zenon, <2>3, <2>4, <2>5, <2>6 DEF Within, n
    <3> QED
      BY Zenon, <2>1, <3>1 DEF Within
  <2>9. ASSUME NEW j \in Nat PROVE Value(t, j) = IF j = k THEN v ELSE Value(es, j)
    <3>1. CASE j = k
      <4>1. p \in 1 .. Len(t)
        BY Zenon, <1>1, <2>1
      <4> QED
        BY Zenon, <2>1, <2>4, <2>7, <3>1, <4>1, ValueAt
    <3>2. CASE j # k
      <4>1. ASSUME NEW i \in 1 .. n PROVE \E h \in 1 .. n + 1 : t[h] = es[i]
        <5>1. CASE i < p
          BY <1>4, <2>3, <5>1
        <5>2. CASE i >= p
          <6>1. i + 1 \in 1 .. n + 1 /\ i + 1 > p /\ (i + 1) - 1 = i
            BY <1>1, <1>4, <5>2
          <6> QED
            BY Zenon, <2>5, <6>1
        <5> QED
          BY <1>1, <5>1, <5>2
      <4>2. ASSUME NEW h \in 1 .. n + 1, KeyAt(t, h) = j PROVE \E i \in 1 .. n : t[h] = es[i]
        BY Zenon, <2>3, <2>4, <2>5, <2>6, <3>2, <4>2
      <4>3. Value(t, j) = Value(es, j)
        <5>1. /\ \A i \in 1 .. Len(es) : KeyAt(es, i) = j => \E h \in 1 .. Len(t) : t[h] = es[i]
              /\ \A h \in 1 .. Len(t) : KeyAt(t, h) = j => \E i \in 1 .. Len(es) : t[h] = es[i]
          BY <2>1, <4>1, <4>2 DEF n
        <5> QED
          BY Zenon, <2>1, <2>7, <5>1, SameValue
      <4> QED
        BY Zenon, <3>2, <4>3
    <3> QED
      BY Zenon, <3>1, <3>2
  <2>10. Len(t) \in 1 .. n + 1
    BY <1>4, <2>1
  <2> QED
    BY Zenon, <2>1, <2>7, <2>8, <2>9, <2>10 DEF n, EntriesPut
<1> QED
  BY Zenon, <1>5, <1>6

\* a and b are the entries es before and from sep on, the key after the first mid.
EntriesSplit(es, a, b, Val, mid, sep, lo, hi) ==
    /\ sep \in Nat /\ lo < sep /\ sep < hi
    /\ a \in Seq(Entry(Val)) /\ Rising(a) /\ Within(a, lo, sep) /\ Len(a) = mid
    /\ b \in Seq(Entry(Val)) /\ Rising(b) /\ Within(b, sep, hi) /\ Len(b) = Len(es) - mid
    /\ \A j \in Nat : j < sep => Value(a, j) = Value(es, j)
    /\ \A j \in Nat : j >= sep => Value(b, j) = Value(es, j)

\* The two halves of a leaf that is split.
LEMMA SplitEntries ==
    ASSUME NEW Val, NEW es \in Seq(Entry(Val)), Rising(es),
           NEW lo \in Nat, NEW hi \in Nat, Within(es, lo, hi),
           NEW mid \in Nat, 1 <= mid, mid < Len(es), NEW sep, sep = KeyAt(es, mid + 1),
           NEW a, a = SubSeq(es, 1, mid), NEW b, b = SubSeq(es, mid + 1, Len(es))
    PROVE  EntriesSplit(es, a, b, Val, mid, sep, lo, hi)
<1> DEFINE n == Len(es)
<1>1. n \in Nat /\ \A i \in 1 .. n : KeyAt(es, i) \in Nat
  BY Zenon, KeyAtType
<1>2. a \in Seq(Entry(Val)) /\ Len(a) = mid /\ \A i \in 1 .. mid : a[i] = es[i]
  OBVIOUS
<1>3. b \in Seq(Entry(Val)) /\ Len(b) = n - mid /\ \A i \in 1 .. n - mid : b[i] = es[mid + i]
  OBVIOUS
<1>4. /\ \A i \in 1 .. n, j \in 1 .. n : i < j => KeyAt(es, i) < KeyAt(es, j)
      /\ \A i \in 1 .. n : lo <= KeyAt(es, i) /\ KeyAt(es, i) < hi
  BY Zenon DEF Rising, Within
<1>5. mid < n /\ mid + 1 \in 1 .. n /\ 1 \in 1 .. n
  BY <1>1
<1> HIDE DEF n
<1>6. \A i \in 1 .. mid : i \in 1 .. n /\ i < mid + 1 /\ KeyAt(a, i) = KeyAt(es, i)
  <2>1. \A i \in 1 .. mid : KeyAt(a, i) = KeyAt(es, i)
    BY Zenon, <1>2 DEF KeyAt
  <2>2. \A i \in 1 .. mid : i \in 1 .. n /\ i < mid + 1
    BY <1>1, <1>5
  <2> QED
    BY Zenon, <2>1, <2>2
<1>7. \A i \in 1 .. n - mid : mid + i \in 1 .. n /\ mid + i >= mid + 1 /\ KeyAt(b, i) = KeyAt(es, mid + i)
  <2>1. \A i \in 1 .. n - mid : KeyAt(b, i) = KeyAt(es, mid + i)
    BY Zenon, <1>3 DEF KeyAt
  <2>2. \A i \in 1 .. n - mid : mid + i \in 1 .. n /\ mid + i >= mid + 1
    BY <1>1, <1>5
  <2> QED
    BY Zenon, <2>1, <2>2
<1>8. sep \in Nat /\ lo < sep /\ sep < hi
  <2>1. KeyAt(es, 1) \in Nat /\ KeyAt(es, mid + 1) \in Nat /\ lo <= KeyAt(es, 1) /\ KeyAt(es, mid + 1) < hi
    BY Zenon, <1>1, <1>4, <1>5
  <2>2. KeyAt(es, 1) < KeyAt(es, mid + 1)
    BY <1>4, <1>5
  <2> QED
    BY <2>1, <2>2
<1>9. \A i \in 1 .. n : (i < mid + 1 => KeyAt(es, i) < sep) /\ (i >= mid + 1 => KeyAt(es, i) >= sep)
  BY <1>1, <1>4, <1>5
<1>10. Rising(a) /\ Within(a, lo, sep)
  BY Zenon, <1>2, <1>4, <1>6, <1>9 DEF Rising, Within
<1>11. Rising(b) /\ Within(b, sep, hi)
  <2>1. \A i \in 1 .. n - mid : KeyAt(b, i) >= sep /\ KeyAt(b, i) < hi /\ KeyAt(b, i) \in Nat
    BY Zenon, <1>1, <1>4, <1>7, <1>9
  <2>2. \A i \in 1 .. n - mid : sep <= KeyAt(b, i)
    BY <1>8, <2>1
  <2>3. \A i \in 1 .. n - mid, j \in 1 .. n - mid : i < j => mid + i < mid + j
    BY <1>1
  <2>4. \A i \in 1 .. n - mid, j \in 1 .. n - mid : i < j => KeyAt(b, i) < KeyAt(b, j)
    BY Zenon, <1>4, <1>7, <2>3
  <2> QED
    BY Zenon, <1>3, <2>1, <2>2, <2>4 DEF Rising, Within
<1>12. ASSUME NEW j \in Nat, j < sep PROVE Value(a, j) = Value(es, j)
  <2>1. ASSUME NEW i \in 1 .. Len(es), KeyAt(es, i) = j PROVE \E h \in 1 .. Len(a) : a[h] = es[i]
    <3>1. i < mid + 1
      BY <1>8, <1>9, <1>12, <2>1 DEF n
    <3> QED
      BY <1>2, <3>1
  <2>2. \A h \in 1 .. Len(a) : \E i \in 1 .. Len(es) : a[h] = es[i]
    BY Zenon, <1>2, <1>6 DEF n
  <2> QED
    BY Zenon, <1>2, <1>10, <2>1, <2>2, SameValue
<1>13. ASSUME NEW j \in Nat, j >= sep PROVE Value(b, j) = Value(es, j)
  <2>1. ASSUME NEW i \in 1 .. Len(es), KeyAt(es, i) = j PROVE \E h \in 1 .. Len(b) : b[h] = es[i]
    <3>1. i >= mid + 1
      BY <1>8, <1>9, <1>13, <2>1 DEF n
    <3>2. i - mid \in 1 .. n - mid /\ mid + (i - mid) = i
      BY <1>1, <3>1 DEF n
    <3> QED
      BY Zenon, <1>3, <3>2
  <2>2. \A h \in 1 .. Len(b) : \E i \in 1 .. Len(es) : b[h] = es[i]
    BY Zenon, <1>3, <1>7 DEF n
  <2> QED
    BY Zenon, <1>3, <1>11, <2>1, <2>2, SameValue
<1> QED
  BY Zenon, <1>2, <1>3, <1>8, <1>10, <1>11, <1>12, <1>13 DEF n, EntriesSplit

\* t is es without the key k.
EntriesRemoved(es, t, Val, k, lo, hi) ==
    /\ t \in Seq(Entry(Val)) /\ Rising(t) /\ Within(t, lo, hi)
    /\ Len(es) \in Nat /\ Len(es) > 0 /\ Len(t) = Len(es) - 1
    /\ \A j \in Nat : Value(t, j) = IF j = k THEN NotFound ELSE Value(es, j)

\* Removal keeps the order and takes one key away.
LEMMA RemovedEntries ==
    ASSUME NEW Val, NEW es \in Seq(Entry(Val)), Rising(es),
           NEW lo \in Nat, NEW hi \in Nat, Within(es, lo, hi), NEW k \in Nat,
           NEW p, p = Position(es, k), HasAt(es, p, k), NEW t, t = RemoveAt(es, p)
    PROVE  EntriesRemoved(es, t, Val, k, lo, hi)
<1> DEFINE n == Len(es)
<1>1. n \in Nat /\ \A i \in 1 .. n : KeyAt(es, i) \in Nat
  BY Zenon, KeyAtType
<1>2. p \in 1 .. n /\ KeyAt(es, p) = k
  BY Zenon, PositionOf
<1>3. /\ \A i \in 1 .. n, j \in 1 .. n : i < j => KeyAt(es, i) < KeyAt(es, j)
      /\ \A i \in 1 .. n : lo <= KeyAt(es, i) /\ KeyAt(es, i) < hi
  BY Zenon DEF Rising, Within
<1>4. /\ t \in Seq(Entry(Val)) /\ Len(t) = n - 1
      /\ \A j \in 1 .. n - 1 : t[j] = IF j < p THEN es[j] ELSE es[j + 1]
  BY SMTT(30), <1>2, RemovedAt
<1> HIDE DEF n
<1> DEFINE from(j) == IF j < p THEN j ELSE j + 1
<1>5. \A j \in 1 .. n - 1 : from(j) \in 1 .. n /\ from(j) # p
  BY <1>1, <1>2
<1>6. \A i \in 1 .. n - 1, j \in 1 .. n - 1 : i < j => from(i) < from(j)
  BY SMTT(30), <1>1, <1>2
<1>7. \A i \in 1 .. n : i # p => \E j \in 1 .. n - 1 : from(j) = i
  <2> SUFFICES ASSUME NEW i \in 1 .. n, i # p PROVE \E j \in 1 .. n - 1 : from(j) = i
    BY Zenon
  <2>1. CASE i < p
    <3>1. i \in 1 .. n - 1 /\ from(i) = i
      BY <1>1, <1>2, <2>1
    <3> QED
      BY Zenon, <3>1
  <2>2. CASE i > p
    <3>1. i - 1 \in 1 .. n - 1 /\ from(i - 1) = i
      BY <1>1, <1>2, <2>2
    <3> QED
      BY Zenon, <3>1
  <2> QED
    BY <1>2, <2>1, <2>2
<1>8. \A j \in 1 .. n - 1 : t[j] = es[from(j)]
  BY Zenon, <1>4
<1> HIDE DEF from
<1>9. \A j \in 1 .. n - 1 : KeyAt(t, j) = KeyAt(es, from(j))
  BY Zenon, <1>8 DEF KeyAt
<1>10. Rising(t) /\ Within(t, lo, hi)
  <2>1. \A i \in 1 .. n - 1, j \in 1 .. n - 1 : i < j => KeyAt(t, i) < KeyAt(t, j)
    BY Zenon, <1>3, <1>5, <1>6, <1>9
  <2>2. \A i \in 1 .. n - 1 : lo <= KeyAt(t, i) /\ KeyAt(t, i) < hi
    BY Zenon, <1>3, <1>5, <1>9
  <2> QED
    BY Zenon, <1>4, <2>1, <2>2 DEF Rising, Within
<1>11. \A i \in 1 .. n : i # p => KeyAt(es, i) # k
  BY <1>1, <1>2, <1>3
<1>12. ASSUME NEW j \in Nat PROVE Value(t, j) = IF j = k THEN NotFound ELSE Value(es, j)
  <2>1. CASE j = k
    <3>1. \A i \in 1 .. Len(t) : KeyAt(t, i) # k
      BY Zenon, <1>4, <1>5, <1>9, <1>11
    <3> QED
      BY Zenon, <1>4, <1>10, <2>1, <3>1, ValueAt
  <2>2. CASE j # k
    <3>1. \A i \in 1 .. Len(es) : KeyAt(es, i) = j => \E h \in 1 .. Len(t) : t[h] = es[i]
      BY Zenon, <1>2, <1>4, <1>7, <1>8, <2>2 DEF n
    <3>2. \A h \in 1 .. Len(t) : \E i \in 1 .. Len(es) : t[h] = es[i]
      BY Zenon, <1>4, <1>5, <1>8 DEF n
    <3>3. Value(t, j) = Value(es, j)
      BY Zenon, <1>4, <1>10, <3>1, <3>2, SameValue
    <3> QED
      BY Zenon, <2>2, <3>3
  <2> QED
    BY Zenon, <2>1, <2>2
<1>13. n > 0
  BY <1>1, <1>2
<1> QED
  BY Zenon, <1>1, <1>4, <1>10, <1>12, <1>13 DEF n, EntriesRemoved

(***************************************************************************)
(* The children of an inner node.  Fits(Ordered, n, lo, hi): the keys      *)
(* under n are in order, from lo up to but not including hi.               *)
(***************************************************************************)
Fits(Ordered, n, lo, hi) == <<n, lo, hi>> \in Ordered

\* The bounds of the child at i, between these m routing keys.
Low(ks, i, lo) == IF i = 1 THEN lo ELSE ks[i - 1]
Up(ks, m, i, hi) == IF i = m + 1 THEN hi ELSE ks[i]

\* m keys in order, between lo and hi, of which those before q are at most j and those
\* from q on more.
Sorted(ks, m, lo, hi) ==
    /\ \A i \in 1 .. m : lo <= ks[i] /\ ks[i] < hi
    /\ \A i, j \in 1 .. m : i < j => ks[i] < ks[j]
Parts(ks, m, j, q) ==
    /\ q \in 1 .. m + 1
    /\ \A i \in 1 .. m : i < q => ks[i] <= j
    /\ \A i \in 1 .. m : i >= q => ks[i] > j

\* The bounds are numbers, within those of the node.
LEMMA BoundsType ==
    ASSUME NEW m \in Nat, NEW ks \in [1 .. m -> Nat], NEW lo \in Nat, NEW hi \in Nat,
           Sorted(ks, m, lo, hi), NEW i \in 1 .. m + 1
    PROVE  /\ Low(ks, i, lo) \in Nat /\ Up(ks, m, i, hi) \in Nat
           /\ lo <= Low(ks, i, lo) /\ Up(ks, m, i, hi) <= hi
BY DEF Low, Up, Sorted

\* A key is within the bounds of the child where it is looked for.
LEMMA PartsBounds ==
    ASSUME NEW m \in Nat, NEW ks \in [1 .. m -> Nat], NEW lo \in Nat, NEW hi \in Nat,
           NEW j \in Nat, lo <= j, j < hi, NEW q \in 1 .. m + 1, Parts(ks, m, j, q)
    PROVE  Low(ks, q, lo) <= j /\ j < Up(ks, m, q, hi)
BY DEF Low, Up, Parts

\* The keys before pos are less than sep, the others more.
Divides(ks, m, pos, sep) ==
    /\ \A i \in 1 .. m : i < pos => ks[i] < sep
    /\ \A i \in 1 .. m : i >= pos => sep < ks[i]

\* A key between the bounds of the child at pos is after the routing keys before pos,
\* and before the others.
LEMMA SepBetween ==
    ASSUME NEW m \in Nat, NEW ks \in [1 .. m -> Nat], NEW lo \in Nat, NEW hi \in Nat,
           Sorted(ks, m, lo, hi), NEW pos \in 1 .. m + 1, NEW sep \in Nat,
           Low(ks, pos, lo) < sep, sep < Up(ks, m, pos, hi)
    PROVE  Divides(ks, m, pos, sep) /\ lo < sep /\ sep < hi
<1>1. ASSUME NEW i \in 1 .. m, i < pos PROVE ks[i] < sep
  <2>1. pos - 1 \in 1 .. m /\ Low(ks, pos, lo) = ks[pos - 1]
    BY <1>1 DEF Low
  <2>2. ks[i] <= ks[pos - 1]
    BY <1>1, <2>1 DEF Sorted
  <2> QED
    BY <2>1, <2>2
<1>2. ASSUME NEW i \in 1 .. m, i >= pos PROVE sep < ks[i]
  <2>1. pos \in 1 .. m /\ Up(ks, m, pos, hi) = ks[pos]
    BY <1>2 DEF Up
  <2>2. pos < i => ks[pos] < ks[i]
    BY Zenon, <2>1 DEF Sorted
  <2>3. pos = i \/ pos < i
    BY <1>2
  <2> QED
    BY <2>1, <2>2, <2>3
<1>3. lo < sep /\ sep < hi
  BY BoundsType
<1> QED
  BY Zenon, <1>1, <1>2, <1>3 DEF Divides

\* Where a key is looked for with sep among the routing keys.
Moved(pos, sep, j, q) == IF q < pos \/ (q = pos /\ j < sep) THEN q ELSE q + 1

\* The bounds with it inserted, and where keys are looked for.
Refined(ls, ks, m, pos, sep, lo, hi) ==
    /\ Sorted(ls, m + 1, lo, hi)
    /\ \A i \in 1 .. m + 2 :
          /\ i <= pos => Low(ls, i, lo) = Low(ks, i, lo)
          /\ i < pos => Up(ls, m + 1, i, hi) = Up(ks, m, i, hi)
          /\ i = pos => Up(ls, m + 1, i, hi) = sep
          /\ i = pos + 1 => Low(ls, i, lo) = sep
          /\ i > pos + 1 => Low(ls, i, lo) = Low(ks, i - 1, lo)
          /\ i >= pos + 1 => Up(ls, m + 1, i, hi) = Up(ks, m, i - 1, hi)
    /\ \A j \in Nat, q \in 1 .. m + 1 : Parts(ks, m, j, q) =>
          Parts(ls, m + 1, j, Moved(pos, sep, j, q))

\* Inserted at pos, it parts the child's keys and leaves the other bounds as they were.
LEMMA InsertedKey ==
    ASSUME NEW m \in Nat, NEW ks \in [1 .. m -> Nat], NEW lo \in Nat, NEW hi \in Nat,
           Sorted(ks, m, lo, hi), NEW pos \in 1 .. m + 1, NEW sep \in Nat,
           Divides(ks, m, pos, sep), lo < sep, sep < hi, NEW ls \in [1 .. m + 1 -> Nat], Inserts(ls, Nat, ks, m, pos, sep)
    PROVE  Refined(ls, ks, m, pos, sep, lo, hi)
<1> USE DEF Divides, Inserts, Moved
<1>1. Sorted(ls, m + 1, lo, hi)
  <2>1. ASSUME NEW i \in 1 .. m + 1 PROVE lo <= ls[i] /\ ls[i] < hi
    <3>1. CASE i < pos
      <4>1. i \in 1 .. m /\ ls[i] = ks[i]
        BY <3>1
      <4> QED
        BY Zenon, <4>1 DEF Sorted
    <3>2. CASE i = pos
      BY <3>2 DEF Sorted
    <3>3. CASE i > pos
      <4>1. i - 1 \in 1 .. m /\ ls[i] = ks[i - 1]
        BY <3>3
      <4> QED
        BY Zenon, <4>1 DEF Sorted
    <3> QED
      BY <3>1, <3>2, <3>3
  <2>2. ASSUME NEW i \in 1 .. m + 1, NEW j \in 1 .. m + 1, i < j PROVE ls[i] < ls[j]
    <3>1. CASE j < pos
      <4>1. i \in 1 .. m /\ j \in 1 .. m /\ ls[i] = ks[i] /\ ls[j] = ks[j]
        BY <2>2, <3>1
      <4> QED
        BY Zenon, <2>2, <4>1 DEF Sorted
    <3>2. CASE j = pos
      BY SMTT(30), <2>2, <3>2 DEF Sorted
    <3>3. CASE j > pos
      <4>1. j - 1 \in 1 .. m /\ ls[j] = ks[j - 1] /\ sep < ks[j - 1]
        BY SMTT(30), <3>3
      <4>2. CASE i < pos
        BY <3>3, <4>1, <4>2 DEF Sorted
      <4>3. CASE i = pos
        BY <4>1, <4>3
      <4>4. CASE i > pos
        <5>1. i - 1 \in 1 .. m /\ ls[i] = ks[i - 1] /\ i - 1 < j - 1
          BY <2>2, <4>4
        <5> QED
          BY <4>1, <5>1 DEF Sorted
      <4> QED
        BY <4>2, <4>3, <4>4
    <3> QED
      BY <3>1, <3>2, <3>3
  <2> QED
    BY Zenon, <2>1, <2>2 DEF Sorted
<1>2. ASSUME NEW i \in 1 .. m + 2
      PROVE  /\ i <= pos => Low(ls, i, lo) = Low(ks, i, lo)
             /\ i < pos => Up(ls, m + 1, i, hi) = Up(ks, m, i, hi)
             /\ i = pos => Up(ls, m + 1, i, hi) = sep
             /\ i = pos + 1 => Low(ls, i, lo) = sep
             /\ i > pos + 1 => Low(ls, i, lo) = Low(ks, i - 1, lo)
             /\ i >= pos + 1 => Up(ls, m + 1, i, hi) = Up(ks, m, i - 1, hi)
  <2>1. CASE i < pos
    BY <2>1 DEF Low, Up
  <2>2. CASE i = pos
    BY <2>2 DEF Low, Up
  <2>3. CASE i = pos + 1
    BY <2>3 DEF Low, Up
  <2>4. CASE i > pos + 1
    BY SMTT(30), <2>4 DEF Low, Up
  <2> QED
    BY <2>1, <2>2, <2>3, <2>4
<1>3. ASSUME NEW j \in Nat, NEW q \in 1 .. m + 1, Parts(ks, m, j, q), NEW r \in 1 .. m + 2,
             r = Moved(pos, sep, j, q)
      PROVE  Parts(ls, m + 1, j, r)
  <2>1. ASSUME q < pos PROVE j < sep
    <3>1. q \in 1 .. m /\ q >= q
      BY <2>1
    <3>2. ks[q] > j /\ ks[q] < sep
      BY Zenon, <1>3, <2>1, <3>1 DEF Parts
    <3> QED
      BY <3>1, <3>2
  <2>2. ASSUME q > pos PROVE sep <= j
    <3>1. q - 1 \in 1 .. m /\ q - 1 < q /\ q - 1 >= pos
      BY <2>2
    <3>2. ks[q - 1] <= j /\ sep < ks[q - 1]
      BY Zenon, <1>3, <3>1 DEF Parts
    <3> QED
      BY <3>1, <3>2
  <2>3. ASSUME NEW i \in 1 .. m + 1 PROVE (i < r => ls[i] <= j) /\ (i >= r => ls[i] > j)
    <3>1. CASE i < pos
      BY SMTT(30), <1>3, <2>1, <2>2, <3>1 DEF Parts
    <3>2. CASE i = pos
      BY <1>3, <2>1, <2>2, <3>2 DEF Parts
    <3>3. CASE i > pos
      <4>1. i - 1 \in 1 .. m /\ ls[i] = ks[i - 1]
        BY <3>3
      <4>2. i - 1 < q => ks[i - 1] <= j
        BY Zenon, <1>3, <4>1 DEF Parts
      <4>3. i - 1 >= q => ks[i - 1] > j
        BY Zenon, <1>3, <4>1 DEF Parts
      <4>4. i < r => i - 1 < q
        BY <1>3, <3>3 DEF Moved
      <4>5. i >= r => i - 1 >= q
        <5>1. CASE q < pos
          BY <3>3, <5>1
        <5>2. CASE q = pos
          BY <3>3, <5>2
        <5>3. CASE q > pos
          BY <1>3, <3>3, <5>3 DEF Moved
        <5> QED
          BY <5>1, <5>2, <5>3
      <4> QED
        BY Zenon, <4>1, <4>2, <4>3, <4>4, <4>5
    <3> QED
      BY <3>1, <3>2, <3>3
  <2> QED
    BY <2>3 DEF Parts
<1> QED
  <2>1. ASSUME NEW j \in Nat, NEW q \in 1 .. m + 1, Parts(ks, m, j, q)
        PROVE  Parts(ls, m + 1, j, Moved(pos, sep, j, q))
    <3> DEFINE r == Moved(pos, sep, j, q)
    <3>1. r \in 1 .. m + 2
      OBVIOUS
    <3> QED
      BY Zenon, <1>3, <2>1, <3>1
  <2> QED
    BY Zenon, <1>1, <1>2, <2>1 DEF Refined

\* as and bs are the keys before and after sep, the one after the first mid.
Halved(as, bs, ks, m, mid, w, sep, lo, hi) ==
    /\ lo < sep /\ sep < hi /\ Sorted(as, mid, lo, sep) /\ Sorted(bs, w, sep, hi)
    /\ \A i \in 1 .. mid + 1 : /\ Low(as, i, lo) = Low(ks, i, lo)
                               /\ Up(as, mid, i, sep) = Up(ks, m, i, hi)
    /\ \A i \in 1 .. w + 1 : /\ Low(bs, i, sep) = Low(ks, mid + 1 + i, lo)
                             /\ Up(bs, w, i, hi) = Up(ks, m, mid + 1 + i, hi)
    /\ \A j \in Nat, q \in 1 .. m + 1 : Parts(ks, m, j, q) =>
          /\ j < sep => q \in 1 .. mid + 1 /\ Parts(as, mid, j, q)
          /\ j >= sep => q - (mid + 1) \in 1 .. w + 1 /\ Parts(bs, w, j, q - (mid + 1))

\* The keys before and after one in the middle, and the children they part.
LEMMA HalvedKeys ==
    ASSUME NEW m \in Nat, NEW ks \in [1 .. m -> Nat], NEW lo \in Nat, NEW hi \in Nat,
           Sorted(ks, m, lo, hi), NEW mid \in Nat, 1 <= mid, NEW w \in Nat, mid + 1 + w = m,
           NEW sep \in Nat, sep = ks[mid + 1],
           NEW as \in [1 .. mid -> Nat], \A i \in 1 .. mid : as[i] = ks[i],
           NEW bs \in [1 .. w -> Nat], \A i \in 1 .. w : bs[i] = ks[mid + 1 + i]
    PROVE  Halved(as, bs, ks, m, mid, w, sep, lo, hi)
<1>1. mid + 1 \in 1 .. m /\ 1 \in 1 .. m /\ 1 < mid + 1
  OBVIOUS
<1>2. lo < sep /\ sep < hi
  <2>1. lo <= ks[1] /\ ks[1] < ks[mid + 1] /\ ks[mid + 1] < hi
    BY Zenon, <1>1 DEF Sorted
  <2> QED
    BY <1>1, <2>1
<1>3. ASSUME NEW i \in 1 .. mid PROVE i \in 1 .. m /\ as[i] = ks[i] /\ lo <= ks[i] /\ ks[i] < sep
  <2>1. i \in 1 .. m /\ i < mid + 1
    OBVIOUS
  <2> QED
    BY Zenon, <1>1, <2>1 DEF Sorted
<1>4. ASSUME NEW i \in 1 .. w
      PROVE  mid + 1 + i \in 1 .. m /\ bs[i] = ks[mid + 1 + i] /\ sep < ks[mid + 1 + i] /\ ks[mid + 1 + i] < hi
  <2>1. mid + 1 + i \in 1 .. m /\ mid + 1 < mid + 1 + i
    OBVIOUS
  <2> QED
    BY Zenon, <1>1, <2>1 DEF Sorted
<1>5. Sorted(as, mid, lo, sep)
  BY Zenon, <1>3 DEF Sorted
<1>6. Sorted(bs, w, sep, hi)
  <2>1. ASSUME NEW i \in 1 .. w PROVE sep <= bs[i] /\ bs[i] < hi
    BY <1>4
  <2>2. ASSUME NEW i \in 1 .. w, NEW j \in 1 .. w, i < j PROVE bs[i] < bs[j]
    <3>1. mid + 1 + i < mid + 1 + j
      BY <2>2
    <3>2. ks[mid + 1 + i] < ks[mid + 1 + j]
      BY Zenon, <1>4, <3>1 DEF Sorted
    <3> QED
      BY Zenon, <1>4, <3>2
  <2> QED
    BY Zenon, <2>1, <2>2 DEF Sorted
<1>7. ASSUME NEW i \in 1 .. mid + 1
      PROVE  Low(as, i, lo) = Low(ks, i, lo) /\ Up(as, mid, i, sep) = Up(ks, m, i, hi)
  <2>1. Low(as, i, lo) = Low(ks, i, lo)
    <3>1. i # 1 => i - 1 \in 1 .. mid
      OBVIOUS
    <3> QED
      BY Zenon, <1>3, <3>1 DEF Low
  <2>2. Up(as, mid, i, sep) = Up(ks, m, i, hi)
    <3>1. i # m + 1 /\ (i # mid + 1 => i \in 1 .. mid)
      OBVIOUS
    <3> QED
      BY Zenon, <1>3, <3>1 DEF Up
  <2> QED
    BY Zenon, <2>1, <2>2
<1>8. ASSUME NEW i \in 1 .. w + 1
      PROVE  /\ Low(bs, i, sep) = Low(ks, mid + 1 + i, lo)
             /\ Up(bs, w, i, hi) = Up(ks, m, mid + 1 + i, hi)
  <2>3. Up(bs, w, i, hi) = Up(ks, m, mid + 1 + i, hi)
    <3>1. (i = w + 1 <=> mid + 1 + i = m + 1) /\ (i # w + 1 => i \in 1 .. w)
      OBVIOUS
    <3> QED
      BY Zenon, <1>4, <3>1 DEF Up
  <2>1. CASE i = 1
    <3>1. Low(ks, mid + 1 + i, lo) = ks[mid + 1]
      BY <2>1 DEF Low
    <3> QED
      BY Zenon, <2>1, <2>3, <3>1 DEF Low
  <2>2. CASE i # 1
    <3>1. i - 1 \in 1 .. w /\ mid + 1 + i # 1 /\ (mid + 1 + i) - 1 = mid + 1 + (i - 1)
      BY <2>2
    <3>2. Low(ks, mid + 1 + i, lo) = ks[mid + 1 + (i - 1)]
      BY Zenon, <3>1 DEF Low
    <3>3. Low(bs, i, sep) = bs[i - 1]
      BY Zenon, <2>2 DEF Low
    <3> QED
      BY Zenon, <1>4, <2>3, <3>1, <3>2, <3>3
  <2> QED
    BY Zenon, <2>1, <2>2
<1>9. ASSUME NEW j \in Nat, NEW q \in 1 .. m + 1, Parts(ks, m, j, q), j < sep
      PROVE  q \in 1 .. mid + 1 /\ Parts(as, mid, j, q)
  <2>1. q \in 1 .. mid + 1
    BY <1>1, <1>9 DEF Parts
  <2> QED
    BY Zenon, <1>3, <1>9, <2>1 DEF Parts
<1>10. ASSUME NEW j \in Nat, NEW q \in 1 .. m + 1, Parts(ks, m, j, q), j >= sep
       PROVE  q - (mid + 1) \in 1 .. w + 1 /\ Parts(bs, w, j, q - (mid + 1))
  <2>1. q > mid + 1
    BY <1>1, <1>10 DEF Parts
  <2>2. q - (mid + 1) \in 1 .. w + 1
    BY <2>1
  <2>3. ASSUME NEW i \in 1 .. w
        PROVE  (i < q - (mid + 1) => bs[i] <= j) /\ (i >= q - (mid + 1) => bs[i] > j)
    <3>1. i < q - (mid + 1) => mid + 1 + i < q
      OBVIOUS
    <3>2. i >= q - (mid + 1) => mid + 1 + i >= q
      OBVIOUS
    <3> QED
      BY Zenon, <1>4, <1>10, <3>1, <3>2 DEF Parts
  <2> QED
    BY Zenon, <2>2, <2>3 DEF Parts
<1> QED
  BY Zenon, <1>2, <1>5, <1>6, <1>7, <1>8, <1>9, <1>10 DEF Halved

\* ls is ks without the key at d, and the children without the one at pos.
Coarsened(ls, ks, m, w, pos, d, lo, hi) ==
    /\ Sorted(ls, w, lo, hi)
    /\ \A i \in 1 .. w + 1, f \in 1 .. m + 1 : f = (IF i < pos THEN i ELSE i + 1) =>
          /\ Low(ls, i, lo) \in Nat /\ Up(ls, w, i, hi) \in Nat
          /\ Low(ls, i, lo) <= Low(ks, f, lo) /\ Up(ks, m, f, hi) <= Up(ls, w, i, hi)
    /\ \A j \in Nat, q \in 1 .. m + 1 : Parts(ks, m, j, q) =>
          /\ q # pos => Parts(ls, w, j, IF q < pos THEN q ELSE q - 1)
          /\ q = pos => Parts(ls, w, j, d)
    /\ \A j \in Nat, f \in 1 .. m + 1 : Parts(ks, m, j, pos) /\ f = (IF d < pos THEN d ELSE d + 1) =>
          j < Low(ks, f, lo) \/ j >= Up(ks, m, f, hi)

\* The keys without one: the child at pos is gone, and a child beside it has its place
\* too.
LEMMA RemovedKey ==
    ASSUME NEW m \in Nat, NEW ks \in [1 .. m -> Nat], NEW lo \in Nat, NEW hi \in Nat,
           Sorted(ks, m, lo, hi), NEW pos \in 1 .. m + 1, NEW w \in Nat, w + 1 = m,
           NEW d \in 1 .. m, d = IF pos <= m THEN pos ELSE pos - 1,
           NEW ls \in [1 .. w -> Nat],
           \A i \in 1 .. w : ls[i] = IF i < d THEN ks[i] ELSE ks[i + 1]
    PROVE  Coarsened(ls, ks, m, w, pos, d, lo, hi)
<1>1. ASSUME NEW i \in 1 .. w PROVE /\ i \in 1 .. m /\ i + 1 \in 1 .. m
                                    /\ i < d => ls[i] = ks[i]
                                    /\ i >= d => ls[i] = ks[i + 1]
  OBVIOUS
<1>2. Sorted(ls, w, lo, hi)
  <2>1. ASSUME NEW i \in 1 .. w PROVE lo <= ls[i] /\ ls[i] < hi
    BY Zenon, <1>1 DEF Sorted
  <2>2. ASSUME NEW i \in 1 .. w, NEW j \in 1 .. w, i < j PROVE ls[i] < ls[j]
    <3>1. CASE j < d
      <4>1. i < d
        BY <2>2, <3>1
      <4> QED
        BY Zenon, <1>1, <2>2, <3>1, <4>1 DEF Sorted
    <3>2. CASE j >= d /\ i < d
      <4>1. i < j + 1
        BY <2>2
      <4> QED
        BY ZenonT(40), <1>1, <3>2, <4>1 DEF Sorted
    <3>3. CASE i >= d
      <4>1. i + 1 < j + 1 /\ j >= d
        BY <2>2, <3>3
      <4> QED
        BY ZenonT(40), <1>1, <3>3, <4>1 DEF Sorted
    <3> QED
      BY <3>1, <3>2, <3>3
  <2> QED
    BY Zenon, <2>1, <2>2 DEF Sorted
<1>3. ASSUME NEW i \in 1 .. w + 1, NEW f \in 1 .. m + 1, f = IF i < pos THEN i ELSE i + 1
      PROVE  /\ Low(ls, i, lo) \in Nat /\ Up(ls, w, i, hi) \in Nat
             /\ Low(ls, i, lo) <= Low(ks, f, lo) /\ Up(ks, m, f, hi) <= Up(ls, w, i, hi)
  <2>1. Low(ls, i, lo) \in Nat /\ Up(ls, w, i, hi) \in Nat
    BY Zenon, <1>2, BoundsType
  <2>2. Low(ls, i, lo) <= Low(ks, f, lo)
    <3>1. CASE i = 1
      <4>1. lo <= Low(ks, f, lo)
        BY Zenon, BoundsType
      <4> QED
        BY <3>1, <4>1 DEF Low
    <3>2. CASE i > 1
      <4>1. i - 1 \in 1 .. w /\ f - 1 \in 1 .. m /\ Low(ls, i, lo) = ls[i - 1] /\ Low(ks, f, lo) = ks[f - 1]
        BY <1>3, <3>2 DEF Low
      <4>2. ls[i - 1] = IF i - 1 < d THEN ks[i - 1] ELSE ks[i]
        BY SMTT(30), <4>1
      <4>3. i \in 1 .. m /\ i - 1 \in 1 .. m /\ i - 1 < i /\ ks[i - 1] < ks[i]
        BY <3>2 DEF Sorted
      <4>4. i - 1 >= d => f = i + 1
        BY <1>3, <3>2
      <4> QED
        BY SMTT(30), <1>3, <4>1, <4>2, <4>3, <4>4
    <3> QED
      BY <3>1, <3>2
  <2>3. Up(ks, m, f, hi) <= Up(ls, w, i, hi)
    <3>1. CASE i = w + 1
      <4>1. Up(ks, m, f, hi) <= hi
        BY Zenon, BoundsType
      <4> QED
        BY <3>1, <4>1 DEF Up
    <3>2. CASE i < w + 1
      <4>1. i \in 1 .. w /\ f \in 1 .. m /\ Up(ls, w, i, hi) = ls[i] /\ Up(ks, m, f, hi) = ks[f]
        BY <1>3, <3>2 DEF Up
      <4>2. ls[i] = IF i < d THEN ks[i] ELSE ks[i + 1]
        BY <4>1
      <4>3. i \in 1 .. m /\ i + 1 \in 1 .. m /\ ks[i] < ks[i + 1]
        BY <3>2 DEF Sorted
      <4>4. i < d => f = i
        BY <1>3, <3>2
      <4> QED
        BY <1>3, <4>1, <4>2, <4>3, <4>4
    <3> QED
      BY <3>1, <3>2
  <2> QED
    BY Zenon, <2>1, <2>2, <2>3
<1>4. ASSUME NEW j \in Nat, NEW q \in 1 .. m + 1, Parts(ks, m, j, q), NEW r \in 1 .. m,
             r = IF q = pos THEN d ELSE IF q < pos THEN q ELSE q - 1
      PROVE  Parts(ls, w, j, r)
  <2>1. r \in 1 .. w + 1
    OBVIOUS
  <2>2. ASSUME NEW i \in 1 .. w PROVE (i < r => ls[i] <= j) /\ (i >= r => ls[i] > j)
    <3>1. CASE i < d
      <4>1. (i < r => i < q) /\ (i >= r => i >= q)
        BY <1>4, <3>1
      <4> QED
        BY Zenon, <1>1, <1>4, <3>1, <4>1 DEF Parts
    <3>2. CASE i >= d
      <4>1. (i < r => i + 1 < q) /\ (i >= r => i + 1 >= q)
        BY <1>4, <3>2
      <4> QED
        BY Zenon, <1>1, <1>4, <3>2, <4>1 DEF Parts
    <3> QED
      BY <3>1, <3>2
  <2> QED
    BY Zenon, <2>1, <2>2 DEF Parts
<1>5. ASSUME NEW j \in Nat, NEW q \in 1 .. m + 1, Parts(ks, m, j, q)
      PROVE  /\ q # pos => Parts(ls, w, j, IF q < pos THEN q ELSE q - 1)
             /\ q = pos => Parts(ls, w, j, d)
  <2>1. CASE q = pos
    BY Zenon, <1>4, <1>5, <2>1
  <2>2. CASE q # pos
    <3> DEFINE r == IF q < pos THEN q ELSE q - 1
    <3>1. r \in 1 .. m
      BY <2>2
    <3> QED
      BY Zenon, <1>4, <1>5, <2>2, <3>1
  <2> QED
    BY Zenon, <2>1, <2>2
<1>6. ASSUME NEW j \in Nat, NEW f \in 1 .. m + 1, Parts(ks, m, j, pos), f = IF d < pos THEN d ELSE d + 1
      PROVE  j < Low(ks, f, lo) \/ j >= Up(ks, m, f, hi)
  <2>1. CASE pos <= m
    <3>1. f = pos + 1 /\ Low(ks, f, lo) = ks[pos] /\ pos \in 1 .. m /\ pos >= pos
      BY <1>6, <2>1 DEF Low
    <3>2. ks[pos] > j
      BY Zenon, <1>6, <3>1 DEF Parts
    <3> QED
      BY <3>1, <3>2
  <2>2. CASE pos = m + 1
    <3>1. f = m /\ Up(ks, m, f, hi) = ks[m] /\ m \in 1 .. m /\ m < pos
      BY <1>6, <2>2 DEF Up
    <3>2. ks[m] <= j
      BY Zenon, <1>6, <3>1 DEF Parts
    <3> QED
      BY <3>1, <3>2
  <2> QED
    BY <2>1, <2>2
<1> QED
  BY Zenon, <1>2, <1>3, <1>5, <1>6 DEF Coarsened

\* The routing keys part the keys from lo up to hi among the children.
Parted(Ordered, ks, cs, lo, hi) ==
    /\ Len(cs) = Len(ks) + 1
    /\ Sorted(ks, Len(ks), lo, hi)
    /\ \A i \in 1 .. Len(ks) + 1 : Fits(Ordered, cs[i], Low(ks, i, lo), Up(ks, Len(ks), i, hi))

\* A sequence of numbers as a function.
LEMMA NumbersType ==
    ASSUME NEW ks \in Seq(Nat)
    PROVE  Len(ks) \in Nat /\ ks \in [1 .. Len(ks) -> Nat]
OBVIOUS

\* descend_pos is where the keys part.
LEMMA DescendParts ==
    ASSUME NEW ks \in Seq(Nat), NEW lo, NEW hi, Sorted(ks, Len(ks), lo, hi), NEW j \in Nat
    PROVE  /\ descend_pos(ks, j) \in 1 .. Len(ks) + 1
           /\ Parts(ks, Len(ks), j, descend_pos(ks, j))
<1>1. Increasing(ks)
  BY Zenon DEF Sorted, Increasing
<1>2. Between(ks, j, descend_pos(ks, j))
  BY Zenon, <1>1, DescendFinds
<1> QED
  BY Zenon, <1>2 DEF Between, Parts

\* There is one such place.
LEMMA PartsAt ==
    ASSUME NEW ks \in Seq(Nat), NEW j \in Nat, NEW q, Parts(ks, Len(ks), j, q)
    PROVE  descend_pos(ks, j) = q
<1>1. Between(ks, j, q)
  BY Zenon DEF Between, Parts
<1> QED
  BY Zenon, <1>1, DescendIs

\* ds is cs with c in place of the child at pos.
ChildReplaced(Ordered, Node, ds, ks, cs, m, pos, c, lo, hi) ==
    /\ ds \in Seq(Node) /\ Parted(Ordered, ks, ds, lo, hi)
    /\ \A q \in 1 .. m + 1 : ds[q] = IF q = pos THEN c ELSE cs[q]

\* A child in another's place, within the same bounds.
LEMMA ReplacedChild ==
    ASSUME NEW Ordered, NEW Node, NEW ks \in Seq(Nat), NEW cs \in Seq(Node), NEW lo, NEW hi,
           NEW m, m = Len(ks), Parted(Ordered, ks, cs, lo, hi), NEW pos \in 1 .. m + 1, NEW c, c \in Node,
           Fits(Ordered, c, Low(ks, pos, lo), Up(ks, m, pos, hi)), NEW ds, ds = ReplaceAt(cs, pos, c)
    PROVE  ChildReplaced(Ordered, Node, ds, ks, cs, m, pos, c, lo, hi)
<1>1. Len(cs) = Len(ks) + 1
  BY Zenon DEF Parted
<1>2. pos \in 1 .. Len(cs)
  BY Zenon, <1>1
<1>3. /\ ds \in Seq(Node) /\ Len(ds) = Len(cs)
      /\ \A q \in 1 .. Len(cs) : ds[q] = IF q = pos THEN c ELSE cs[q]
  <2>1. ds \in Seq(Node) /\ Len(ds) = Len(cs) /\ Replaces(ds, Node, cs, Len(cs), pos, c)
    <3>1. Replaces(ds, Node, cs, Len(cs), pos, c)
      BY Zenon, <1>2, ReplacesAt
    <3> QED
      BY Zenon, <3>1 DEF Replaces
  <2> QED
    BY Zenon, <2>1 DEF Replaces
<1>4. \A i \in 1 .. Len(ks) + 1 : Fits(Ordered, ds[i], Low(ks, i, lo), Up(ks, Len(ks), i, hi))
  <2> SUFFICES ASSUME NEW i \in 1 .. Len(ks) + 1
               PROVE  Fits(Ordered, ds[i], Low(ks, i, lo), Up(ks, Len(ks), i, hi))
    BY Zenon
  <2>1. CASE i = pos
    <3>1. ds[i] = c
      BY Zenon, <1>1, <1>3, <2>1
    <3> QED
      BY Zenon, <2>1, <3>1
  <2>2. CASE i # pos
    <3>1. ds[i] = cs[i]
      BY Zenon, <1>1, <1>3, <2>2
    <3> QED
      BY Zenon, <3>1 DEF Parted
  <2> QED
    BY Zenon, <2>1, <2>2
<1> QED
  BY Zenon, <1>1, <1>3, <1>4 DEF Parted, ChildReplaced

\* ls and ds are ks and cs with the child at pos in two halves.
ChildSplit(Ordered, Node, ls, ds, ks, cs, m, pos, left, sep, right, lo, hi) ==
    /\ ls \in Seq(Nat) /\ ds \in Seq(Node) /\ Len(ls) = m + 1
    /\ Parted(Ordered, ls, ds, lo, hi)
    /\ \A j \in Nat :
          ds[descend_pos(ls, j)] =
             IF descend_pos(ks, j) # pos THEN cs[descend_pos(ks, j)]
             ELSE IF j < sep THEN left ELSE right

\* The two halves of a child that was split, in its place.
LEMMA SplitChild ==
    ASSUME NEW Ordered, NEW Node, NEW ks \in Seq(Nat), NEW cs \in Seq(Node),
           NEW lo \in Nat, NEW hi \in Nat, NEW m \in Nat, m = Len(ks),
           Parted(Ordered, ks, cs, lo, hi), NEW pos \in 1 .. m + 1,
           NEW left \in Node, NEW right \in Node, NEW sep \in Nat,
           Low(ks, pos, lo) < sep, sep < Up(ks, m, pos, hi),
           Fits(Ordered, left, Low(ks, pos, lo), sep), Fits(Ordered, right, sep, Up(ks, m, pos, hi)),
           NEW ls, ls = InsertAt(ks, pos, sep),
           NEW ds, ds = InsertAt(ReplaceAt(cs, pos, left), pos + 1, right)
    PROVE  ChildSplit(Ordered, Node, ls, ds, ks, cs, m, pos, left, sep, right, lo, hi)
<1> DEFINE bs == ReplaceAt(cs, pos, left)
<1>1. Sorted(ks, m, lo, hi) /\ Len(cs) = m + 1 /\ ks \in [1 .. m -> Nat]
  <2>1. ks \in [1 .. m -> Nat]
    BY Zenon, NumbersType
  <2> QED
    BY Zenon, <2>1 DEF Parted
<1>2. \A i \in 1 .. m + 1 : Fits(Ordered, cs[i], Low(ks, i, lo), Up(ks, m, i, hi))
  BY Zenon DEF Parted
<1>3. ls \in Seq(Nat) /\ Len(ls) = m + 1 /\ Inserts(ls, Nat, ks, m, pos, sep)
  <2>1. Inserts(ls, Nat, ks, m, pos, sep)
    BY Zenon, InsertsAt
  <2> QED
    BY Zenon, <2>1 DEF Inserts
<1>4. bs \in Seq(Node) /\ Len(bs) = m + 1 /\ Replaces(bs, Node, cs, m + 1, pos, left)
  <2>1. Replaces(bs, Node, cs, m + 1, pos, left)
    BY Zenon, <1>1, ReplacesAt
  <2> QED
    BY Zenon, <2>1 DEF Replaces
<1>5. ds = InsertAt(bs, pos + 1, right)
  BY Zenon
<1> HIDE DEF bs
<1>6. ds \in Seq(Node) /\ Len(ds) = m + 2 /\ Inserts(ds, Node, bs, m + 1, pos + 1, right)
  <2>1. pos + 1 \in 1 .. (m + 1) + 1 /\ (m + 1) + 1 = m + 2
    OBVIOUS
  <2>2. ds \in Seq(Node) /\ Len(ds) = (m + 1) + 1 /\ Inserts(ds, Node, bs, m + 1, pos + 1, right)
    <3>1. Inserts(ds, Node, bs, m + 1, pos + 1, right)
      BY Zenon, <1>4, <1>5, <2>1, InsertsAt
    <3> QED
      BY Zenon, <3>1 DEF Inserts
  <2> QED
    BY Zenon, <2>1, <2>2
<1>7. ls \in [1 .. m + 1 -> Nat]
  BY Zenon, <1>3, NumbersType
<1>8. Divides(ks, m, pos, sep) /\ lo < sep /\ sep < hi
  BY SMTT(30), <1>1, SepBetween
<1>9. /\ Sorted(ls, m + 1, lo, hi)
      /\ \A i \in 1 .. m + 2 :
            /\ i <= pos => Low(ls, i, lo) = Low(ks, i, lo)
            /\ i < pos => Up(ls, m + 1, i, hi) = Up(ks, m, i, hi)
            /\ i = pos => Up(ls, m + 1, i, hi) = sep
            /\ i = pos + 1 => Low(ls, i, lo) = sep
            /\ i > pos + 1 => Low(ls, i, lo) = Low(ks, i - 1, lo)
            /\ i >= pos + 1 => Up(ls, m + 1, i, hi) = Up(ks, m, i - 1, hi)
      /\ \A j \in Nat, q \in 1 .. m + 1 : Parts(ks, m, j, q) =>
            Parts(ls, m + 1, j, Moved(pos, sep, j, q))
  <2>1. Refined(ls, ks, m, pos, sep, lo, hi)
    BY Zenon, <1>1, <1>3, <1>7, <1>8, InsertedKey
  <2> QED
    BY Zenon, <2>1 DEF Refined
<1>10. ASSUME NEW i \in 1 .. m + 2
       PROVE  /\ i < pos => i \in 1 .. m + 1 /\ i <= pos /\ ds[i] = cs[i]
              /\ i = pos => ds[i] = left /\ i <= pos
              /\ i = pos + 1 => ds[i] = right /\ i >= pos + 1 /\ i - 1 = pos
              /\ i > pos + 1 => i - 1 \in 1 .. m + 1 /\ i >= pos + 1 /\ ds[i] = cs[i - 1]
  <2>1. CASE i < pos
    <3>1. i \in 1 .. m + 1 /\ i < pos + 1 /\ i # pos /\ i <= pos
      BY <2>1
    <3>3. i \in 1 .. (m + 1) + 1
      OBVIOUS
    <3>2. ds[i] = bs[i] /\ bs[i] = cs[i]
      BY Zenon, <1>4, <1>6, <3>1, <3>3 DEF Inserts, Replaces
    <3> QED
      BY <2>1, <3>1, <3>2
  <2>2. CASE i = pos
    <3>1. i \in 1 .. m + 1 /\ i < pos + 1 /\ i <= pos
      BY <2>2
    <3>3. i \in 1 .. (m + 1) + 1
      OBVIOUS
    <3>2. ds[i] = bs[i] /\ bs[i] = left
      BY Zenon, <1>4, <1>6, <2>2, <3>1, <3>3 DEF Inserts, Replaces
    <3> QED
      BY <2>2, <3>1, <3>2
  <2>3. CASE i = pos + 1
    <3>1. ~(i < pos + 1) /\ i >= pos + 1 /\ i - 1 = pos
      BY <2>3
    <3>3. i \in 1 .. (m + 1) + 1
      OBVIOUS
    <3>2. ds[i] = right
      BY Zenon, <1>6, <2>3, <3>1, <3>3 DEF Inserts, Replaces
    <3> QED
      BY <2>3, <3>1, <3>2
  <2>4. CASE i > pos + 1
    <3>1. i - 1 \in 1 .. m + 1 /\ ~(i < pos + 1) /\ i # pos + 1 /\ i - 1 # pos /\ i >= pos + 1
      BY <2>4
    <3>3. i \in 1 .. (m + 1) + 1
      OBVIOUS
    <3>2. ds[i] = bs[i - 1] /\ bs[i - 1] = cs[i - 1]
      BY Zenon, <1>4, <1>6, <3>1, <3>3 DEF Inserts, Replaces
    <3> QED
      BY <2>4, <3>1, <3>2
  <2> QED
    BY SMTT(30), <2>1, <2>2, <2>3, <2>4
<1>11. ASSUME NEW i \in 1 .. m + 2 PROVE Fits(Ordered, ds[i], Low(ls, i, lo), Up(ls, m + 1, i, hi))
  <2>1. CASE i < pos
    BY Zenon, <1>2, <1>9, <1>10, <2>1
  <2>2. CASE i = pos
    <3>1. Low(ls, i, lo) = Low(ks, pos, lo) /\ Up(ls, m + 1, i, hi) = sep /\ ds[i] = left
      BY Zenon, <1>9, <1>10, <2>2
    <3> QED
      BY Zenon, <3>1
  <2>3. CASE i = pos + 1
    <3>1. Low(ls, i, lo) = sep /\ Up(ls, m + 1, i, hi) = Up(ks, m, pos, hi) /\ ds[i] = right
      BY <1>9, <1>10, <2>3
    <3> QED
      BY Zenon, <3>1
  <2>4. CASE i > pos + 1
    <3>1. i - 1 \in 1 .. m + 1 /\ ds[i] = cs[i - 1]
          /\ Low(ls, i, lo) = Low(ks, i - 1, lo) /\ Up(ls, m + 1, i, hi) = Up(ks, m, i - 1, hi)
      BY Zenon, <1>9, <1>10, <2>4
    <3> QED
      BY Zenon, <1>2, <3>1
  <2>5. i < pos \/ i = pos \/ i = pos + 1 \/ i > pos + 1
    OBVIOUS
  <2> QED
    BY Zenon, <2>1, <2>2, <2>3, <2>4, <2>5
<1>12. Parted(Ordered, ls, ds, lo, hi)
  <2>1. (m + 1) + 1 = m + 2
    OBVIOUS
  <2> QED
    BY Zenon, <1>3, <1>6, <1>9, <1>11, <2>1 DEF Parted
<1>13. ASSUME NEW j \in Nat, NEW q \in 1 .. m + 1, q = descend_pos(ks, j)
       PROVE  ds[descend_pos(ls, j)] = IF q # pos THEN cs[q] ELSE IF j < sep THEN left ELSE right
  <2> DEFINE r == Moved(pos, sep, j, q)
  <2>1. Parts(ks, m, j, q)
    BY Zenon, <1>1, <1>13, DescendParts
  <2>2. Parts(ls, m + 1, j, r)
    BY Zenon, <1>9, <2>1
  <2>3. q < pos => j < sep
    <3>1. q < pos => q \in 1 .. m /\ q >= q
      OBVIOUS
    <3>2. q < pos => ks[q] > j /\ ks[q] < sep
      BY Zenon, <1>8, <2>1, <3>1 DEF Parts, Divides
    <3>3. q < pos => ks[q] \in Nat
      BY Zenon, <1>1, <3>1, NumbersType
    <3> HIDE DEF r
    <3> QED
      BY <3>2, <3>3
  <2>4. r \in 1 .. m + 2 /\ (q < pos => r = q) /\ (q > pos => r = q + 1 /\ r > pos + 1)
        /\ (q = pos /\ j < sep => r = pos) /\ (q = pos /\ ~(j < sep) => r = pos + 1)
    BY DEF Moved
  <2> HIDE DEF r
  <2>5. descend_pos(ls, j) = r
    BY Zenon, <1>3, <2>2, PartsAt
  <2>6. CASE q < pos
    BY SMTT(30), <1>10, <2>4, <2>5, <2>6
  <2>7. CASE q = pos
    BY <1>10, <2>4, <2>5, <2>7
  <2>8. CASE q > pos
    <3>1. ds[r] = cs[r - 1] /\ r - 1 = q /\ q # pos
      BY <1>10, <2>4, <2>8
    <3> QED
      BY Zenon, <2>5, <3>1
  <2> QED
    BY <2>6, <2>7, <2>8
<1>14. ASSUME NEW j \in Nat
       PROVE  ds[descend_pos(ls, j)] =
                 IF descend_pos(ks, j) # pos THEN cs[descend_pos(ks, j)] ELSE IF j < sep THEN left ELSE right
  <2>1. descend_pos(ks, j) \in 1 .. m + 1
    BY Zenon, <1>1, DescendParts
  <2> QED
    BY Zenon, <1>13, <2>1
<1> QED
  BY Zenon, <1>3, <1>6, <1>12, <1>14 DEF ChildSplit

\* The numbers of children on both sides of the middle key.
LEMMA HalfNumbers ==
    ASSUME NEW m \in Nat, NEW mid \in Nat, NEW w \in Nat, mid + 1 + w = m
    PROVE  m + 1 = (mid + 1) + (w + 1) /\ (mid + 1) + (w + 1) <= m + 1
OBVIOUS

\* The two halves of the keys and children of a node that is split.
NodeSplit(Ordered, Node, as, ds, bs, es, ks, cs, mid, w, sep, lo, hi) ==
    /\ as \in Seq(Nat) /\ ds \in Seq(Node) /\ Len(as) = mid
    /\ bs \in Seq(Nat) /\ es \in Seq(Node) /\ Len(bs) = w
    /\ lo < sep /\ sep < hi /\ Parted(Ordered, as, ds, lo, sep) /\ Parted(Ordered, bs, es, sep, hi)
    /\ \A j \in Nat : j < sep => ds[descend_pos(as, j)] = cs[descend_pos(ks, j)]
    /\ \A j \in Nat : j >= sep => es[descend_pos(bs, j)] = cs[descend_pos(ks, j)]

\* An inner node of too many keys in two, and the middle key between them.
LEMMA SplitNode ==
    ASSUME NEW Ordered, NEW Node, NEW ks \in Seq(Nat), NEW cs \in Seq(Node),
           NEW lo \in Nat, NEW hi \in Nat, NEW m \in Nat, m = Len(ks),
           Parted(Ordered, ks, cs, lo, hi), NEW mid \in Nat, 1 <= mid, NEW w \in Nat, mid + 1 + w = m,
           NEW sep, sep = ks[mid + 1],
           NEW as, as = SubSeq(ks, 1, mid), NEW ds, ds = SubSeq(cs, 1, mid + 1),
           NEW bs, bs = SubSeq(ks, mid + 2, Len(ks)), NEW es, es = SubSeq(cs, mid + 2, Len(cs))
    PROVE  NodeSplit(Ordered, Node, as, ds, bs, es, ks, cs, mid, w, sep, lo, hi)
<1>1. Sorted(ks, m, lo, hi) /\ Len(cs) = m + 1 /\ ks \in [1 .. m -> Nat]
  <2>1. ks \in [1 .. m -> Nat]
    BY Zenon, NumbersType
  <2> QED
    BY Zenon, <2>1 DEF Parted
<1>2. \A i \in 1 .. m + 1 : Fits(Ordered, cs[i], Low(ks, i, lo), Up(ks, m, i, hi))
  BY Zenon DEF Parted
<1>3. Slices(as, Nat, ks, 0, mid)
  <2>1. 0 \in Nat /\ 0 + mid <= Len(ks) /\ 1 = 0 + 1 /\ mid = 0 + mid
    OBVIOUS
  <2> QED
    BY Zenon, <2>1, SlicesAt
<1>4. Slices(ds, Node, cs, 0, mid + 1)
  <2>1. 0 \in Nat /\ mid + 1 \in Nat /\ 0 + (mid + 1) <= Len(cs) /\ 1 = 0 + 1 /\ mid + 1 = 0 + (mid + 1)
    BY <1>1
  <2> QED
    BY Zenon, <2>1, SlicesAt
<1>5. Slices(bs, Nat, ks, mid + 1, w)
  <2>1. mid + 1 \in Nat /\ (mid + 1) + w <= Len(ks) /\ mid + 2 = (mid + 1) + 1 /\ Len(ks) = (mid + 1) + w
    OBVIOUS
  <2> QED
    BY Zenon, <2>1, SlicesAt
<1>6. Slices(es, Node, cs, mid + 1, w + 1)
  <2>1. m + 1 = (mid + 1) + (w + 1) /\ (mid + 1) + (w + 1) <= m + 1
    BY Zenon, HalfNumbers
  <2>2. mid + 1 \in Nat /\ w + 1 \in Nat /\ mid + 2 = (mid + 1) + 1
    OBVIOUS
  <2> QED
    BY Zenon, <1>1, <2>1, <2>2, SlicesAt
<1>7. /\ as \in [1 .. mid -> Nat] /\ \A i \in 1 .. mid : as[i] = ks[i]
      /\ bs \in [1 .. w -> Nat] /\ \A i \in 1 .. w : bs[i] = ks[mid + 1 + i]
  <2>1. as \in [1 .. mid -> Nat] /\ bs \in [1 .. w -> Nat]
    BY Zenon, <1>3, <1>5, NumbersType DEF Slices
  <2>2. \A i \in 1 .. mid : 0 + i = i
    OBVIOUS
  <2> QED
    BY Zenon, <1>3, <1>5, <2>1, <2>2 DEF Slices
<1>8. sep \in Nat
  BY SMTT(30), <1>1
<1>9. Halved(as, bs, ks, m, mid, w, sep, lo, hi)
  BY ZenonT(40), <1>1, <1>7, <1>8, HalvedKeys
<1>10. Parted(Ordered, as, ds, lo, sep)
  <2>1. ASSUME NEW i \in 1 .. mid + 1 PROVE Fits(Ordered, ds[i], Low(as, i, lo), Up(as, mid, i, sep))
    <3>1. i \in 1 .. m + 1 /\ 0 + i = i
      OBVIOUS
    <3>2. ds[i] = cs[i]
      BY Zenon, <1>4, <3>1 DEF Slices
    <3> QED
      BY Zenon, <1>2, <1>9, <3>1, <3>2 DEF Halved
  <2> QED
    BY Zenon, <1>3, <1>4, <1>9, <2>1 DEF Parted, Slices, Halved
<1>11. Parted(Ordered, bs, es, sep, hi)
  <2>1. ASSUME NEW i \in 1 .. w + 1 PROVE Fits(Ordered, es[i], Low(bs, i, sep), Up(bs, w, i, hi))
    <3>1. mid + 1 + i \in 1 .. m + 1
      OBVIOUS
    <3>2. es[i] = cs[mid + 1 + i]
      BY Zenon, <1>6 DEF Slices
    <3> QED
      BY Zenon, <1>2, <1>9, <3>1, <3>2 DEF Halved
  <2> QED
    BY Zenon, <1>5, <1>6, <1>9, <2>1 DEF Parted, Slices, Halved
<1>12. ASSUME NEW j \in Nat
       PROVE  /\ j < sep => ds[descend_pos(as, j)] = cs[descend_pos(ks, j)]
              /\ j >= sep => es[descend_pos(bs, j)] = cs[descend_pos(ks, j)]
  <2> DEFINE q == descend_pos(ks, j)
  <2>1. q \in 1 .. m + 1 /\ Parts(ks, m, j, q)
    BY Zenon, <1>1, DescendParts
  <2> HIDE DEF q
  <2>2. CASE j < sep
    <3>1. q \in 1 .. mid + 1 /\ Parts(as, mid, j, q)
      BY Zenon, <1>9, <2>1, <2>2 DEF Halved
    <3>2. descend_pos(as, j) = q
      BY Zenon, <1>3, <3>1, PartsAt DEF Slices
    <3>3. 0 + q = q
      BY <3>1
    <3>4. ds[q] = cs[q]
      BY Zenon, <1>4, <3>1, <3>3 DEF Slices
    <3>5. ~(j >= sep)
      BY SMTT(30), <1>8, <2>2
    <3> QED
      BY Zenon, <3>2, <3>4, <3>5 DEF q
  <2>3. CASE j >= sep
    <3>1. q - (mid + 1) \in 1 .. w + 1 /\ Parts(bs, w, j, q - (mid + 1))
      BY Zenon, <1>9, <2>1, <2>3 DEF Halved
    <3>2. descend_pos(bs, j) = q - (mid + 1)
      BY Zenon, <1>5, <3>1, PartsAt DEF Slices
    <3>3. mid + 1 + (q - (mid + 1)) = q
      BY <2>1
    <3>4. es[q - (mid + 1)] = cs[q]
      BY Zenon, <1>6, <3>1, <3>3 DEF Slices
    <3>5. ~(j < sep)
      BY <1>8, <2>3
    <3> QED
      BY Zenon, <3>2, <3>4, <3>5 DEF q
  <2> QED
    BY Zenon, <1>8, <2>2, <2>3
<1> QED
  BY Zenon, <1>3, <1>4, <1>5, <1>6, <1>9, <1>10, <1>11, <1>12 DEF NodeSplit, Slices, Halved

\* ls and ds are ks and cs without the child at pos, and a routing key beside it.  A
\* key that would have been looked for in that child is now looked for in another,
\* outside the bounds that one had.
ChildDropped(Ordered, Node, ls, ds, ks, cs, m, w, pos, lo, hi) ==
    /\ ls \in Seq(Nat) /\ ds \in Seq(Node) /\ Len(ls) = w /\ Len(ds) = w + 1
    /\ Sorted(ls, w, lo, hi)
    /\ \A i \in 1 .. w + 1 : \E f \in 1 .. m + 1 :
          /\ ds[i] = cs[f] /\ Low(ls, i, lo) \in Nat /\ Up(ls, w, i, hi) \in Nat
          /\ Low(ls, i, lo) <= Low(ks, f, lo) /\ Up(ks, m, f, hi) <= Up(ls, w, i, hi)
    /\ \A j \in Nat :
          /\ descend_pos(ks, j) # pos => ds[descend_pos(ls, j)] = cs[descend_pos(ks, j)]
          /\ descend_pos(ks, j) = pos =>
                \E f \in 1 .. m + 1 : /\ ds[descend_pos(ls, j)] = cs[f]
                                      /\ j < Low(ks, f, lo) \/ j >= Up(ks, m, f, hi)

\* An inner node without a child.
LEMMA DroppedChild ==
    ASSUME NEW Ordered, NEW Node, NEW ks \in Seq(Nat), NEW cs \in Seq(Node),
           NEW lo \in Nat, NEW hi \in Nat, NEW m \in Nat, m = Len(ks),
           Parted(Ordered, ks, cs, lo, hi), NEW pos \in 1 .. m + 1, NEW w \in Nat, w + 1 = m,
           NEW ls, ls = RemoveAt(ks, IF pos <= m THEN pos ELSE pos - 1),
           NEW ds, ds = RemoveAt(cs, pos)
    PROVE  ChildDropped(Ordered, Node, ls, ds, ks, cs, m, w, pos, lo, hi)
<1> DEFINE d == IF pos <= m THEN pos ELSE pos - 1
           from(i) == IF i < pos THEN i ELSE i + 1
<1>1. Sorted(ks, m, lo, hi) /\ Len(cs) = m + 1 /\ ks \in [1 .. m -> Nat]
  <2>1. ks \in [1 .. m -> Nat]
    BY Zenon, NumbersType
  <2> QED
    BY Zenon, <2>1 DEF Parted
<1>2. d \in 1 .. m
  OBVIOUS
<1>3. d = IF pos <= m THEN pos ELSE pos - 1
  BY Zenon
<1>4. ls = RemoveAt(ks, d)
  BY Zenon
<1>5. \A i \in 1 .. m : from(i) \in 1 .. m + 1 /\ from(i) = IF i < pos THEN i ELSE i + 1
  OBVIOUS
<1> HIDE DEF d, from
<1>6. Drops(ls, Nat, ks, m, d)
  BY Zenon, <1>2, <1>4, DropsAt
<1>7. Drops(ds, Node, cs, m + 1, pos)
  BY Zenon, <1>1, DropsAt
<1>8. m - 1 = w /\ (m + 1) - 1 = w + 1 /\ w + 1 = m
  OBVIOUS
<1>9. ls \in Seq(Nat) /\ Len(ls) = w /\ \A i \in 1 .. w : ls[i] = IF i < d THEN ks[i] ELSE ks[i + 1]
  BY Zenon, <1>6, <1>8 DEF Drops
<1>10. ds \in Seq(Node) /\ Len(ds) = w + 1 /\ \A i \in 1 .. w + 1 : ds[i] = IF i < pos THEN cs[i] ELSE cs[i + 1]
  BY Zenon, <1>7, <1>8 DEF Drops
<1>11. ls \in [1 .. w -> Nat]
  BY Zenon, <1>9, NumbersType
<1>12. Coarsened(ls, ks, m, w, pos, d, lo, hi)
  BY Zenon, <1>1, <1>2, <1>3, <1>8, <1>9, <1>11, RemovedKey
<1>13. ASSUME NEW i \in 1 .. w + 1 PROVE from(i) \in 1 .. m + 1 /\ ds[i] = cs[from(i)]
  BY Zenon, <1>5, <1>8, <1>10
<1>14. ASSUME NEW i \in 1 .. w + 1
       PROVE  \E f \in 1 .. m + 1 :
                 /\ ds[i] = cs[f] /\ Low(ls, i, lo) \in Nat /\ Up(ls, w, i, hi) \in Nat
                 /\ Low(ls, i, lo) <= Low(ks, f, lo) /\ Up(ks, m, f, hi) <= Up(ls, w, i, hi)
  BY Zenon, <1>5, <1>8, <1>12, <1>13 DEF Coarsened
<1>15. ASSUME NEW j \in Nat, NEW q \in 1 .. m + 1, q = descend_pos(ks, j)
       PROVE  /\ q # pos => ds[descend_pos(ls, j)] = cs[q]
              /\ q = pos =>
                   \E f \in 1 .. m + 1 : /\ ds[descend_pos(ls, j)] = cs[f]
                                         /\ j < Low(ks, f, lo) \/ j >= Up(ks, m, f, hi)
  <2>1. Parts(ks, m, j, q)
    BY Zenon, <1>1, <1>15, DescendParts
  <2>2. CASE q # pos
    <3> DEFINE r == IF q < pos THEN q ELSE q - 1
    <3>1. Parts(ls, w, j, r)
      BY Zenon, <1>12, <2>1, <2>2 DEF Coarsened
    <3>2. r \in 1 .. w + 1 /\ (r < pos => r = q) /\ (~(r < pos) => r + 1 = q)
      BY SMTT(30), <2>2
    <3> HIDE DEF r
    <3>3. descend_pos(ls, j) = r
      BY Zenon, <1>9, <3>1, PartsAt
    <3>4. ds[r] = cs[q]
      BY Zenon, <1>10, <3>2
    <3> QED
      BY Zenon, <2>2, <3>3, <3>4
  <2>3. CASE q = pos
    <3>1. Parts(ls, w, j, d) /\ Parts(ks, m, j, pos)
      BY Zenon, <1>12, <2>1, <2>3 DEF Coarsened
    <3>2. descend_pos(ls, j) = d
      BY Zenon, <1>9, <3>1, PartsAt
    <3>3. d \in 1 .. w + 1
      BY Zenon, <1>2, <1>8
    <3>4. j < Low(ks, from(d), lo) \/ j >= Up(ks, m, from(d), hi)
      BY Zenon, <1>2, <1>5, <1>12, <3>1 DEF Coarsened
    <3> QED
      BY Zenon, <1>13, <2>3, <3>2, <3>3, <3>4
  <2> QED
    BY Zenon, <2>2, <2>3
<1>16. \A j \in Nat : descend_pos(ks, j) \in 1 .. m + 1
  BY Zenon, <1>1, DescendParts
<1>17. Sorted(ls, w, lo, hi)
  BY Zenon, <1>12 DEF Coarsened
<1> QED
  BY Zenon, <1>9, <1>10, <1>14, <1>15, <1>16, <1>17 DEF ChildDropped

(***************************************************************************)
(* Trees.  Node is the set of all trees: leaves of entries, and inner      *)
(* nodes of routing keys and one tree more than there are keys.            *)
(***************************************************************************)
TreeNodes(Node, Val) ==
    /\ EMPTY \notin Node
    /\ \A es \in Seq(Entry(Val)) : Leaf(es) \in Node
    /\ \A ks \in Seq(Nat), cs \in Seq(Node) : Len(cs) = Len(ks) + 1 => Inner(ks, cs) \in Node
    /\ \A n \in Node : IsLeaf(n) => n.entries \in Seq(Entry(Val))
    /\ \A n \in Node : ~IsLeaf(n) => n.keys \in Seq(Nat) /\ n.children \in Seq(Node)

ChildOf(Node) ==
    {e \in Node \X Node : ~IsLeaf(e[2]) /\ \E i \in 1 .. Len(e[2].children) : e[1] = e[2].children[i]}

\* What get_at, set_inner and remove_inner compute: functions that follow their steps.
Gets(get, Node) ==
    \A n \in Node, k \in Nat :
       get[n][k] = GetStep(n, k, get[n.children[descend_pos(n.keys, k)]][k])
Sets(set, Node, Val) ==
    \A n \in Node, k \in Nat, v \in Val :
       set[n][k][v] = SetStep(n, k, v, set[n.children[descend_pos(n.keys, k)]][k][v])
Removes(remove, Node) ==
    \A n \in Node, k \in Nat :
       remove[n][k] = RemoveStep(n, k, remove[n.children[descend_pos(n.keys, k)]][k])

\* The order of whole trees.
Orders(Ordered, Node) ==
    \A n \in Node, lo \in Nat, hi \in Nat :
       Fits(Ordered, n, lo, hi) <=>
          /\ InOrder(n, lo, hi)
          /\ ~IsLeaf(n) => \A i \in 1 .. Len(n.children) :
                              Fits(Ordered, n.children[i], Lower(n, i, lo), Upper(n, i, hi))

\* Which leaves are in order,
LEMMA LeafFits ==
    ASSUME NEW Node, NEW Val, TreeNodes(Node, Val), NEW Ordered, Orders(Ordered, Node),
           NEW n \in Node, IsLeaf(n), NEW lo \in Nat, NEW hi \in Nat
    PROVE  Fits(Ordered, n, lo, hi) <=>
              Len(n.entries) \in 1 .. B /\ Rising(n.entries) /\ Within(n.entries, lo, hi)
<1>1. n.entries \in Seq(Entry(Val))
  <2>1. \A x \in Node : IsLeaf(x) => x.entries \in Seq(Entry(Val))
    BY Zenon DEF TreeNodes
  <2> QED
    BY Zenon, <2>1
<1> DEFINE es == n.entries
<1> DEFINE ks == KeysOf(n)
<1>2. ks = [i \in DOMAIN es |-> KeyAt(es, i)]
  BY Zenon DEF KeysOf
<1>3. DOMAIN es = 1 .. Len(es) /\ Len(es) \in Nat
  <2> HIDE DEF es
  <2> QED
    BY <1>1
<1>4. ks = [i \in 1 .. Len(es) |-> KeyAt(es, i)]
  BY Zenon, <1>2, <1>3
<1>5. Len(ks) = Len(es) /\ \A i \in 1 .. Len(es) : ks[i] = KeyAt(es, i)
  <2> HIDE DEF es, ks
  <2> QED
    BY <1>3, <1>4
<1>6. Fits(Ordered, n, lo, hi) <=> InOrder(n, lo, hi)
  BY Zenon DEF Orders
<1>7. InOrder(n, lo, hi) <=>
        /\ Len(ks) \in 1 .. B
        /\ \A i \in 1 .. Len(ks) : lo <= ks[i] /\ ks[i] < hi
        /\ \A i, j \in 1 .. Len(ks) : i < j => ks[i] < ks[j]
  BY Zenon DEF InOrder
<1> HIDE DEF ks
<1> QED
  BY Zenon, <1>5, <1>6, <1>7 DEF Rising, Within

\* and which inner nodes.
LEMMA InnerFits ==
    ASSUME NEW Node, NEW Val, TreeNodes(Node, Val), NEW Ordered, Orders(Ordered, Node),
           NEW n \in Node, ~IsLeaf(n), NEW lo \in Nat, NEW hi \in Nat
    PROVE  Fits(Ordered, n, lo, hi) <=>
              Len(n.keys) \in 1 .. B /\ Parted(Ordered, n.keys, n.children, lo, hi)
<1>1. KeysOf(n) = n.keys
  BY Zenon DEF KeysOf
<1>2. Fits(Ordered, n, lo, hi) <=>
        /\ InOrder(n, lo, hi)
        /\ \A i \in 1 .. Len(n.children) :
              Fits(Ordered, n.children[i], Lower(n, i, lo), Upper(n, i, hi))
  BY Zenon DEF Orders
<1>3. InOrder(n, lo, hi) <=> /\ Len(n.keys) \in 1 .. B /\ Sorted(n.keys, Len(n.keys), lo, hi)
                            /\ Len(n.children) = Len(n.keys) + 1
  BY Zenon, <1>1 DEF InOrder, Sorted
<1>4. \A i : /\ Lower(n, i, lo) = Low(n.keys, i, lo)
             /\ Upper(n, i, hi) = Up(n.keys, Len(n.keys), i, hi)
  BY Zenon DEF Lower, Upper, Low, Up
<1> QED
  BY Zenon, <1>2, <1>3, <1>4 DEF Parted

\* The fields of what the operations make.
LEMMA Made ==
    ASSUME NEW es, NEW ks, NEW cs
    PROVE  /\ IsLeaf(Leaf(es)) /\ Leaf(es).entries = es
           /\ ~IsLeaf(Inner(ks, cs)) /\ Inner(ks, cs).keys = ks /\ Inner(ks, cs).children = cs
<1>1. IsLeaf(Leaf(es)) /\ Leaf(es).entries = es
  BY DEF Leaf, IsLeaf
<1>2. ~IsLeaf(Inner(ks, cs)) /\ Inner(ks, cs).keys = ks /\ Inner(ks, cs).children = cs
  BY DEF Inner, IsLeaf
<1> QED
  BY Zenon, <1>1, <1>2

\* A tree in order from lo up to hi that holds what c says for the keys in J.
Holds(Ordered, Node, get, n, lo, hi, c, J) ==
    n \in Node /\ Fits(Ordered, n, lo, hi) /\ \A j \in J : get[n][j] = c[j]
Below(sep) == {j \in Nat : j < sep}
From(sep) == {j \in Nat : j >= sep}

\* Entries in order from lo up to hi.
LeafEntries(es, Val, lo, hi) == es \in Seq(Entry(Val)) /\ Rising(es) /\ Within(es, lo, hi)

\* A leaf that is made is in order if its entries are,
LEMMA MadeLeaf ==
    ASSUME NEW Node, NEW Val, TreeNodes(Node, Val), NEW Ordered, Orders(Ordered, Node),
           NEW get, Gets(get, Node), NEW lo \in Nat, NEW hi \in Nat,
           NEW es, LeafEntries(es, Val, lo, hi), Len(es) \in 1 .. B,
           NEW J \in SUBSET Nat, NEW c, \A j \in J : Value(es, j) = c[j]
    PROVE  Holds(Ordered, Node, get, Leaf(es), lo, hi, c, J)
<1>1. Leaf(es) \in Node
  BY Zenon DEF TreeNodes, LeafEntries
<1>2. IsLeaf(Leaf(es)) /\ Leaf(es).entries = es
  BY Zenon, Made
<1>3. Fits(Ordered, Leaf(es), lo, hi)
  BY Zenon, <1>1, <1>2, LeafFits DEF LeafEntries
<1>4. \A j \in J : j \in Nat /\ get[Leaf(es)][j] = Value(es, j)
  BY Zenon, <1>1, <1>2 DEF Gets, GetStep
<1> QED
  BY Zenon, <1>1, <1>3, <1>4 DEF Holds

\* and so is an inner node if its routing keys part its children.
LEMMA MadeInner ==
    ASSUME NEW Node, NEW Val, TreeNodes(Node, Val), NEW Ordered, Orders(Ordered, Node),
           NEW get, Gets(get, Node), NEW lo \in Nat, NEW hi \in Nat,
           NEW ks \in Seq(Nat), NEW cs \in Seq(Node), Parted(Ordered, ks, cs, lo, hi), Len(ks) \in 1 .. B,
           NEW J \in SUBSET Nat, NEW c, \A j \in J : get[cs[descend_pos(ks, j)]][j] = c[j]
    PROVE  Holds(Ordered, Node, get, Inner(ks, cs), lo, hi, c, J)
<1>1. Inner(ks, cs) \in Node
  BY Zenon DEF TreeNodes, Parted
<1>2. ~IsLeaf(Inner(ks, cs)) /\ Inner(ks, cs).keys = ks /\ Inner(ks, cs).children = cs
  BY Zenon, Made
<1>3. Fits(Ordered, Inner(ks, cs), lo, hi)
  BY Zenon, <1>1, <1>2, InnerFits
<1>4. \A j \in J : j \in Nat /\ get[Inner(ks, cs)][j] = get[cs[descend_pos(ks, j)]][j]
  BY ZenonT(40), <1>1, <1>2 DEF Gets, GetStep
<1> QED
  BY Zenon, <1>1, <1>3, <1>4 DEF Holds

(***************************************************************************)
(* Puts.                                                                   *)
(***************************************************************************)

\* A result of set_inner: a tree in order from lo up to hi, or two with a key between
\* them, that hold what c says.
PlainIs(r, n) == IsPlain(r) /\ r.node = n
SplitIs(r, left, sep, right) == ~IsPlain(r) /\ r.left = left /\ r.sep = sep /\ r.right = right
SetResult(Ordered, Node, get, r, lo, hi, c) ==
    \/ \E n : PlainIs(r, n) /\ Holds(Ordered, Node, get, n, lo, hi, c, Nat)
    \/ \E left, sep, right :
          /\ SplitIs(r, left, sep, right) /\ sep \in Nat /\ lo < sep /\ sep < hi
          /\ Holds(Ordered, Node, get, left, lo, sep, c, Below(sep))
          /\ Holds(Ordered, Node, get, right, sep, hi, c, From(sep))

\* The two kinds of results.
LEMMA PlainResult ==
    ASSUME NEW n, NEW r, r = Plain(n)
    PROVE  PlainIs(r, n)
BY DEF IsPlain, Plain, PlainIs

\* One of two trees.
LEMMA SplitResult ==
    ASSUME NEW left, NEW sep, NEW right, NEW r, r = Split(left, sep, right)
    PROVE  SplitIs(r, left, sep, right)
BY DEF IsPlain, Split, SplitIs

\* The middle of one entry or key too many.
MiddleIs(n, mid, w) ==
    /\ mid \in Nat /\ 1 <= mid /\ mid < n /\ mid \in 1 .. B /\ n - mid \in 1 .. B
    /\ w \in Nat /\ w \in 1 .. B /\ mid + 1 + w = n

\* It leaves some on both sides, and not too many.
LEMMA Middle ==
    ASSUME B \in Nat, B >= 2, NEW n, n \in 1 .. B + 1, ~(n <= B), NEW mid, mid = n \div 2,
           NEW w, w = n - (mid + 1)
    PROVE  MiddleIs(n, mid, w)
BY DEF MiddleIs

\* A leaf, or two, of entries in order.
LEMMA FilledLeafResult ==
    ASSUME NEW Node, NEW Val, TreeNodes(Node, Val), NEW Ordered, Orders(Ordered, Node),
           NEW get, Gets(get, Node), B \in Nat, B >= 2, NEW lo \in Nat, NEW hi \in Nat,
           NEW es, LeafEntries(es, Val, lo, hi), Len(es) \in 1 .. B + 1,
           NEW c, \A j \in Nat : Value(es, j) = c[j],
           NEW r, r = FilledLeaf(es)
    PROVE  SetResult(Ordered, Node, get, r, lo, hi, c)
<1>1. CASE Len(es) <= B
  <2>1. PlainIs(r, Leaf(es))
    <3>1. r = Plain(Leaf(es))
      BY Zenon, <1>1 DEF FilledLeaf
    <3> QED
      BY Zenon, <3>1, PlainResult
  <2>2. Len(es) \in 1 .. B
    BY <1>1
  <2>3. Nat \in SUBSET Nat
    BY Zenon
  <2>4. Holds(Ordered, Node, get, Leaf(es), lo, hi, c, Nat)
    BY Zenon, <2>2, <2>3, MadeLeaf
  <2> QED
    BY Zenon, <2>1, <2>4 DEF SetResult
<1>2. CASE ~(Len(es) <= B)
  <2> DEFINE n == Len(es)
             mid == n \div 2
             w == n - (mid + 1)
             sep == KeyAt(es, mid + 1)
             a == SubSeq(es, 1, mid)
             b == SubSeq(es, mid + 1, n)
  <2>1. r = Split(Leaf(a), sep, Leaf(b))
    BY Zenon, <1>2 DEF FilledLeaf
  <2>2. MiddleIs(n, mid, w)
    BY Zenon, <1>2, Middle
  <2>3. mid \in Nat /\ 1 <= mid /\ mid < n /\ mid \in 1 .. B /\ n - mid \in 1 .. B
    BY Zenon, <2>2 DEF MiddleIs
  <2> HIDE DEF mid
  <2>4. EntriesSplit(es, a, b, Val, mid, sep, lo, hi)
    BY Zenon, <2>3, SplitEntries DEF LeafEntries
  <2> HIDE DEF sep, a, b, n
  <2>5. sep \in Nat /\ lo < sep /\ sep < hi
    BY Zenon, <2>4 DEF EntriesSplit
  <2>6. LeafEntries(a, Val, lo, sep) /\ Len(a) \in 1 .. B /\ \A j \in Below(sep) : Value(a, j) = c[j]
    <3>1. \A j \in Below(sep) : j \in Nat /\ j < sep
      BY Zenon DEF Below
    <3>2. \A j \in Nat : j < sep => Value(a, j) = Value(es, j)
      BY Zenon, <2>4 DEF EntriesSplit
    <3>3. LeafEntries(a, Val, lo, sep) /\ Len(a) \in 1 .. B
      BY Zenon, <2>3, <2>4 DEF EntriesSplit, LeafEntries
    <3> QED
      BY Zenon, <3>1, <3>2, <3>3
  <2>7. LeafEntries(b, Val, sep, hi) /\ Len(b) \in 1 .. B /\ \A j \in From(sep) : Value(b, j) = c[j]
    <3>1. \A j \in From(sep) : j \in Nat /\ j >= sep
      BY Zenon DEF From
    <3>2. \A j \in Nat : j >= sep => Value(b, j) = Value(es, j)
      BY Zenon, <2>4 DEF EntriesSplit
    <3>3. LeafEntries(b, Val, sep, hi) /\ Len(b) \in 1 .. B
      BY Zenon, <2>3, <2>4 DEF EntriesSplit, LeafEntries, n
    <3> QED
      BY Zenon, <3>1, <3>2, <3>3
  <2>8. Below(sep) \in SUBSET Nat /\ From(sep) \in SUBSET Nat
    BY Zenon DEF Below, From
  <2>9. Holds(Ordered, Node, get, Leaf(a), lo, sep, c, Below(sep))
    BY Zenon, <2>5, <2>6, <2>8, MadeLeaf
  <2>10. Holds(Ordered, Node, get, Leaf(b), sep, hi, c, From(sep))
    BY Zenon, <2>5, <2>7, <2>8, MadeLeaf
  <2>11. SplitIs(r, Leaf(a), sep, Leaf(b))
    BY Zenon, <2>1, SplitResult
  <2> QED
    BY Zenon, <2>5, <2>9, <2>10, <2>11 DEF SetResult
<1> QED
  BY Zenon, <1>1, <1>2

\* An inner node, or two, of children that their keys part.
LEMMA FilledInnerResult ==
    ASSUME NEW Node, NEW Val, TreeNodes(Node, Val), NEW Ordered, Orders(Ordered, Node),
           NEW get, Gets(get, Node), B \in Nat, B >= 2, NEW lo \in Nat, NEW hi \in Nat,
           NEW ks \in Seq(Nat), NEW cs \in Seq(Node), Len(ks) \in 1 .. B + 1,
           Parted(Ordered, ks, cs, lo, hi),
           NEW c, \A j \in Nat : get[cs[descend_pos(ks, j)]][j] = c[j],
           NEW r, r = FilledInner(ks, cs)
    PROVE  SetResult(Ordered, Node, get, r, lo, hi, c)
<1>1. CASE Len(ks) <= B
  <2>1. PlainIs(r, Inner(ks, cs))
    <3>1. r = Plain(Inner(ks, cs))
      BY Zenon, <1>1 DEF FilledInner
    <3> QED
      BY Zenon, <3>1, PlainResult
  <2>2. Len(ks) \in 1 .. B
    BY <1>1
  <2>3. Nat \in SUBSET Nat
    BY Zenon
  <2>4. Holds(Ordered, Node, get, Inner(ks, cs), lo, hi, c, Nat)
    BY Zenon, <2>2, <2>3, MadeInner
  <2> QED
    BY Zenon, <2>1, <2>4 DEF SetResult
<1>2. CASE ~(Len(ks) <= B)
  <2> DEFINE m == Len(ks)
             mid == m \div 2
             w == m - (mid + 1)
             sep == ks[mid + 1]
             as == SubSeq(ks, 1, mid)
             ds == SubSeq(cs, 1, mid + 1)
             bs == SubSeq(ks, mid + 2, Len(ks))
             es == SubSeq(cs, mid + 2, Len(cs))
  <2>1. r = Split(Inner(as, ds), sep, Inner(bs, es))
    BY Zenon, <1>2 DEF FilledInner
  <2>2. MiddleIs(m, mid, w)
    BY Zenon, <1>2, Middle
  <2> HIDE DEF mid, w
  <2>3. mid \in Nat /\ 1 <= mid /\ mid \in 1 .. B /\ w \in Nat /\ w \in 1 .. B /\ mid + 1 + w = m
    BY Zenon, <2>2 DEF MiddleIs
  <2>4. m \in Nat
    BY Zenon, NumbersType
  <2>5. NodeSplit(Ordered, Node, as, ds, bs, es, ks, cs, mid, w, sep, lo, hi)
    BY Zenon, <2>3, <2>4, SplitNode
  <2>6. sep \in Nat
    BY SMTT(30), <2>3
  <2> HIDE DEF sep, as, ds, bs, es, m
  <2>7. as \in Seq(Nat) /\ ds \in Seq(Node) /\ Len(as) \in 1 .. B /\ Parted(Ordered, as, ds, lo, sep)
    BY Zenon, <2>3, <2>5 DEF NodeSplit
  <2>8. bs \in Seq(Nat) /\ es \in Seq(Node) /\ Len(bs) \in 1 .. B /\ Parted(Ordered, bs, es, sep, hi)
    BY Zenon, <2>3, <2>5 DEF NodeSplit
  <2>9. lo < sep /\ sep < hi /\ Below(sep) \in SUBSET Nat /\ From(sep) \in SUBSET Nat
    BY Zenon, <2>5 DEF NodeSplit, Below, From
  <2>10. \A j \in Below(sep) : get[ds[descend_pos(as, j)]][j] = c[j]
    <3>1. \A j \in Below(sep) : j \in Nat /\ ds[descend_pos(as, j)] = cs[descend_pos(ks, j)]
      <4>1. \A j \in Below(sep) : j \in Nat /\ j < sep
        BY Zenon DEF Below
      <4>2. \A j \in Nat : j < sep => ds[descend_pos(as, j)] = cs[descend_pos(ks, j)]
        BY Zenon, <2>5 DEF NodeSplit
      <4> QED
        BY Zenon, <4>1, <4>2
    <3> QED
      BY Zenon, <3>1
  <2>11. \A j \in From(sep) : get[es[descend_pos(bs, j)]][j] = c[j]
    <3>1. \A j \in From(sep) : j \in Nat /\ es[descend_pos(bs, j)] = cs[descend_pos(ks, j)]
      <4>1. \A j \in From(sep) : j \in Nat /\ j >= sep
        BY Zenon DEF From
      <4>2. \A j \in Nat : j >= sep => es[descend_pos(bs, j)] = cs[descend_pos(ks, j)]
        BY Zenon, <2>5 DEF NodeSplit
      <4> QED
        BY Zenon, <4>1, <4>2
    <3> QED
      BY Zenon, <3>1
  <2>12. Holds(Ordered, Node, get, Inner(as, ds), lo, sep, c, Below(sep))
    BY Zenon, <2>6, <2>7, <2>9, <2>10, MadeInner
  <2>13. Holds(Ordered, Node, get, Inner(bs, es), sep, hi, c, From(sep))
    BY Zenon, <2>6, <2>8, <2>9, <2>11, MadeInner
  <2>14. SplitIs(r, Inner(as, ds), sep, Inner(bs, es))
    BY Zenon, <2>1, SplitResult
  <2> QED
    BY Zenon, <2>6, <2>9, <2>12, <2>13, <2>14 DEF SetResult
<1> QED
  BY Zenon, <1>1, <1>2

\* What n holds with v under k.
With(get, n, k, v) == [j \in Nat |-> IF j = k THEN v ELSE get[n][j]]

\* set_inner keeps the order and the sizes of nodes, and puts the value.
LEMMA SetInner ==
    ASSUME NEW Node, NEW Val, TreeNodes(Node, Val), IsWellFoundedOn(ChildOf(Node), Node),
           NEW Ordered, Orders(Ordered, Node), NEW get, Gets(get, Node),
           NEW set, Sets(set, Node, Val), B \in Nat, B >= 2, NEW k \in Nat, NEW v \in Val
    PROVE  \A n \in Node, lo \in Nat, hi \in Nat :
              Fits(Ordered, n, lo, hi) /\ lo <= k /\ k < hi =>
                 SetResult(Ordered, Node, get, set[n][k][v], lo, hi, With(get, n, k, v))
<1> DEFINE c(n) == With(get, n, k, v)
           Right(n, lo, hi) == SetResult(Ordered, Node, get, set[n][k][v], lo, hi, c(n))
           Missed == {n \in Node : \E lo \in Nat, hi \in Nat :
                         Fits(Ordered, n, lo, hi) /\ lo <= k /\ k < hi /\ ~Right(n, lo, hi)}
<1>1. \A n : \A j \in Nat : c(n)[j] = IF j = k THEN v ELSE get[n][j]
  BY DEF With
<1> SUFFICES ASSUME Missed # {} PROVE FALSE
  BY Zenon
<1> HIDE DEF c, Right
<1>2. PICK n \in Missed : \A x \in Missed : <<x, n>> \notin ChildOf(Node)
  <2>1. Missed \subseteq Node
    BY Zenon
  <2> QED
    BY Zenon, <2>1, WFMin
<1>3. n \in Node
  BY Zenon
<1>4. PICK lo \in Nat, hi \in Nat : Fits(Ordered, n, lo, hi) /\ lo <= k /\ k < hi /\ ~Right(n, lo, hi)
  BY Zenon
<1> DEFINE pos == descend_pos(n.keys, k)
           r == set[n.children[pos]][k][v]
<1>5. set[n][k][v] = SetStep(n, k, v, r)
  BY Zenon, <1>3 DEF Sets
<1>6. CASE IsLeaf(n)
  <2> DEFINE es == n.entries
             t == Inserted(es, k, v)
  <2>1. es \in Seq(Entry(Val))
    <3>1. \A x \in Node : IsLeaf(x) => x.entries \in Seq(Entry(Val))
      BY Zenon DEF TreeNodes
    <3> QED
      BY Zenon, <1>3, <1>6, <3>1
  <2>2. Len(es) \in 1 .. B /\ Rising(es) /\ Within(es, lo, hi)
    BY Zenon, <1>3, <1>4, <1>6, LeafFits
  <2>3. \A j \in Nat : get[n][j] = Value(es, j)
    BY Zenon, <1>3, <1>6 DEF Gets, GetStep
  <2>4. set[n][k][v] = FilledLeaf(t)
    BY Zenon, <1>5, <1>6 DEF SetStep
  <2> HIDE DEF es
  <2>5. EntriesPut(es, t, Val, k, v, lo, hi)
    BY Zenon, <1>4, <2>1, <2>2, InsertedEntries
  <2> HIDE DEF t
  <2>6. Len(t) \in 1 .. B + 1
    <3>1. Len(t) \in 1 .. Len(es) + 1
      BY Zenon, <2>5 DEF EntriesPut
    <3> QED
      BY <2>2, <3>1
  <2>7. LeafEntries(t, Val, lo, hi)
    BY Zenon, <2>5 DEF EntriesPut, LeafEntries
  <2>8. \A j \in Nat : Value(t, j) = c(n)[j]
    BY Zenon, <1>1, <2>3, <2>5 DEF EntriesPut
  <2>9. Right(n, lo, hi)
    BY Zenon, <2>4, <2>6, <2>7, <2>8, FilledLeafResult DEF Right
  <2> QED
    BY Zenon, <1>4, <2>9
<1>7. CASE ~IsLeaf(n)
  <2> DEFINE ks == n.keys
             cs == n.children
             m == Len(ks)
             l == Low(ks, pos, lo)
             u == Up(ks, m, pos, hi)
             x == cs[pos]
  <2>1. ks \in Seq(Nat) /\ cs \in Seq(Node)
    BY Zenon, <1>3, <1>7 DEF TreeNodes
  <2>2. m \in 1 .. B /\ Parted(Ordered, ks, cs, lo, hi)
    BY Zenon, <1>3, <1>4, <1>7, InnerFits
  <2>3. \A j \in Nat : get[n][j] = get[cs[descend_pos(ks, j)]][j]
    BY Zenon, <1>3, <1>7 DEF Gets, GetStep
  <2>4. set[n][k][v] = IF IsPlain(r) THEN Plain(Inner(ks, ReplaceAt(cs, pos, r.node)))
                       ELSE FilledInner(InsertAt(ks, pos, r.sep),
                                        InsertAt(ReplaceAt(cs, pos, r.left), pos + 1, r.right))
    BY Zenon, <1>5, <1>7 DEF SetStep
  <2>5. m \in Nat /\ ks \in [1 .. m -> Nat] /\ Len(cs) = m + 1 /\ Sorted(ks, m, lo, hi)
        /\ \A i \in 1 .. m + 1 : Fits(Ordered, cs[i], Low(ks, i, lo), Up(ks, m, i, hi))
    BY Zenon, <2>1, <2>2, NumbersType DEF Parted
  <2>6. pos \in 1 .. m + 1 /\ Parts(ks, m, k, pos)
    BY Zenon, <2>1, <2>5, DescendParts
  <2>7. l \in Nat /\ u \in Nat
    BY Zenon, <2>5, <2>6, BoundsType
  <2>8. l <= k /\ k < u
    BY Zenon, <1>4, <2>5, <2>6, PartsBounds
  <2>9. x \in Node /\ Fits(Ordered, x, l, u) /\ <<x, n>> \in ChildOf(Node)
    <3>1. x \in Node
      BY ElementOfSeq, <2>1, <2>5, <2>6
    <3>2. \E i \in 1 .. Len(n.children) : x = n.children[i]
      BY Zenon, <2>5, <2>6
    <3>3. <<x, n>> \in ChildOf(Node)
      <4> HIDE DEF x
      <4> QED
        BY <1>3, <1>7, <3>1, <3>2 DEF ChildOf
    <3> QED
      BY Zenon, <2>5, <2>6, <3>1, <3>3
  <2> HIDE DEF l, u, x
  <2>10. Right(x, l, u)
    BY Zenon, <1>2, <2>7, <2>8, <2>9
  <2>11. SetResult(Ordered, Node, get, r, l, u, c(x))
    BY Zenon, <2>10 DEF Right, x
  <2>12. \A j \in Nat : descend_pos(ks, j) = pos => c(x)[j] = c(n)[j]
    <3>1. \A j \in Nat : descend_pos(ks, j) = pos => get[n][j] = get[x][j]
      BY Zenon, <2>3 DEF x
    <3> QED
      BY Zenon, <1>1, <3>1
  <2>13. \A j \in Nat : descend_pos(ks, j) # pos => get[cs[descend_pos(ks, j)]][j] = c(n)[j]
    BY Zenon, <1>1, <2>3
  <2>14. \A j \in Nat : descend_pos(ks, j) \in 1 .. m + 1
    BY Zenon, <2>1, <2>5, DescendParts
  <2> HIDE DEF r, pos, ks, cs, m
  <2>15. ASSUME NEW y, PlainIs(r, y), Holds(Ordered, Node, get, y, l, u, c(x), Nat)
         PROVE  Right(n, lo, hi)
    <3> DEFINE ds == ReplaceAt(cs, pos, y)
    <3>1. y \in Node /\ Fits(Ordered, y, l, u) /\ \A j \in Nat : get[y][j] = c(x)[j]
      BY Zenon, <2>15 DEF Holds
    <3>2. set[n][k][v] = Plain(Inner(ks, ds))
      BY Zenon, <2>4, <2>15 DEF PlainIs
    <3>3. ChildReplaced(Ordered, Node, ds, ks, cs, m, pos, y, lo, hi)
      BY Zenon, <2>1, <2>2, <2>6, <3>1, ReplacedChild DEF l, u, m
    <3> HIDE DEF ds
    <3>4. ds \in Seq(Node) /\ Parted(Ordered, ks, ds, lo, hi)
      BY Zenon, <3>3 DEF ChildReplaced
    <3>5. \A j \in Nat : get[ds[descend_pos(ks, j)]][j] = c(n)[j]
      <4> SUFFICES ASSUME NEW j \in Nat PROVE get[ds[descend_pos(ks, j)]][j] = c(n)[j]
        BY Zenon
      <4>1. ds[descend_pos(ks, j)] = IF descend_pos(ks, j) = pos THEN y ELSE cs[descend_pos(ks, j)]
        BY Zenon, <2>14, <3>3 DEF ChildReplaced
      <4> QED
        BY Zenon, <2>12, <2>13, <3>1, <4>1
    <3>6. Nat \in SUBSET Nat
      BY Zenon
    <3>7. Holds(Ordered, Node, get, Inner(ks, ds), lo, hi, c(n), Nat)
      BY Zenon, <2>1, <2>2, <3>4, <3>5, <3>6, MadeInner DEF m
    <3>8. PlainIs(set[n][k][v], Inner(ks, ds))
      BY Zenon, <3>2, PlainResult
    <3> QED
      BY Zenon, <3>7, <3>8 DEF Right, SetResult
  <2>16. ASSUME NEW left, NEW sep, NEW right, SplitIs(r, left, sep, right), sep \in Nat, l < sep, sep < u,
                Holds(Ordered, Node, get, left, l, sep, c(x), Below(sep)),
                Holds(Ordered, Node, get, right, sep, u, c(x), From(sep))
         PROVE  Right(n, lo, hi)
    <3> DEFINE ls == InsertAt(ks, pos, sep)
               ds == InsertAt(ReplaceAt(cs, pos, left), pos + 1, right)
    <3>1. /\ left \in Node /\ Fits(Ordered, left, l, sep) /\ \A j \in Below(sep) : get[left][j] = c(x)[j]
          /\ right \in Node /\ Fits(Ordered, right, sep, u) /\ \A j \in From(sep) : get[right][j] = c(x)[j]
      BY Zenon, <2>16 DEF Holds
    <3>2. set[n][k][v] = FilledInner(ls, ds)
      BY Zenon, <2>4, <2>16 DEF SplitIs
    <3>3. ChildSplit(Ordered, Node, ls, ds, ks, cs, m, pos, left, sep, right, lo, hi)
      BY ZenonT(40), <2>1, <2>2, <2>5, <2>6, <2>16, <3>1, SplitChild DEF l, u, m
    <3> HIDE DEF ls, ds
    <3>4. ls \in Seq(Nat) /\ ds \in Seq(Node) /\ Len(ls) = m + 1 /\ Parted(Ordered, ls, ds, lo, hi)
      BY Zenon, <3>3 DEF ChildSplit
    <3>5. Len(ls) \in 1 .. B + 1
      BY <2>2, <3>4
    <3>6. \A j \in Nat : get[ds[descend_pos(ls, j)]][j] = c(n)[j]
      <4> SUFFICES ASSUME NEW j \in Nat PROVE get[ds[descend_pos(ls, j)]][j] = c(n)[j]
        BY Zenon
      <4>1. ds[descend_pos(ls, j)] = IF descend_pos(ks, j) # pos THEN cs[descend_pos(ks, j)]
                                     ELSE IF j < sep THEN left ELSE right
        BY Zenon, <3>3 DEF ChildSplit
      <4>2. j >= sep \/ j < sep
        BY <2>16
      <4>3. (j < sep => j \in Below(sep)) /\ (j >= sep => j \in From(sep))
        BY Zenon DEF Below, From
      <4>4. CASE descend_pos(ks, j) # pos
        BY Zenon, <2>13, <4>1, <4>4
      <4>5. CASE descend_pos(ks, j) = pos /\ j < sep
        BY Zenon, <2>12, <3>1, <4>1, <4>3, <4>5
      <4>6. CASE descend_pos(ks, j) = pos /\ ~(j < sep)
        <5>1. ds[descend_pos(ls, j)] = right
          BY Zenon, <4>1, <4>6
        <5> QED
          BY Zenon, <2>12, <3>1, <4>2, <4>3, <4>6, <5>1
      <4> QED
        BY Zenon, <4>4, <4>5, <4>6
    <3> QED
      BY ZenonT(40), <3>2, <3>4, <3>5, <3>6, FilledInnerResult DEF Right
  <2> QED
    BY Zenon, <1>4, <2>11, <2>15, <2>16 DEF SetResult
<1> QED
  BY Zenon, <1>6, <1>7

(***************************************************************************)
(* Bounds.                                                                 *)
(***************************************************************************)

\* The children of an inner node in order.
ChildrenFit(Ordered, Node, n, ks, cs, m, lo, hi) ==
    /\ ks = n.keys /\ cs = n.children /\ ks \in Seq(Nat) /\ cs \in Seq(Node)
    /\ m = Len(ks) /\ m \in Nat /\ m \in 1 .. B /\ ks \in [1 .. m -> Nat] /\ Len(cs) = m + 1
    /\ Parted(Ordered, ks, cs, lo, hi) /\ Sorted(ks, m, lo, hi)
    /\ \A i \in 1 .. m + 1 : Fits(Ordered, cs[i], Low(ks, i, lo), Up(ks, m, i, hi))
    /\ \A i \in 1 .. m + 1 : cs[i] \in Node
    /\ \A i \in 1 .. m + 1 : <<cs[i], n>> \in ChildOf(Node)
    /\ \A j \in Nat : descend_pos(ks, j) \in 1 .. m + 1

\* What an inner node in order is made of.
LEMMA InnerChildren ==
    ASSUME NEW Node, NEW Val, TreeNodes(Node, Val), NEW Ordered, Orders(Ordered, Node),
           NEW n \in Node, ~IsLeaf(n), NEW lo \in Nat, NEW hi \in Nat, Fits(Ordered, n, lo, hi),
           NEW ks, ks = n.keys, NEW cs, cs = n.children, NEW m, m = Len(ks)
    PROVE  ChildrenFit(Ordered, Node, n, ks, cs, m, lo, hi)
<1>1. ks \in Seq(Nat) /\ cs \in Seq(Node)
  BY Zenon DEF TreeNodes
<1>2. m \in 1 .. B /\ Parted(Ordered, ks, cs, lo, hi)
  BY Zenon, InnerFits
<1>3. m \in Nat /\ ks \in [1 .. m -> Nat] /\ Len(cs) = m + 1 /\ Sorted(ks, m, lo, hi)
      /\ \A i \in 1 .. m + 1 : Fits(Ordered, cs[i], Low(ks, i, lo), Up(ks, m, i, hi))
  BY Zenon, <1>1, <1>2, NumbersType DEF Parted
<1>4. \A j \in Nat : descend_pos(ks, j) \in 1 .. m + 1
  BY Zenon, <1>1, <1>3, DescendParts
<1>5. ASSUME NEW i \in 1 .. m + 1 PROVE cs[i] \in Node /\ <<cs[i], n>> \in ChildOf(Node)
  <2> DEFINE x == cs[i]
  <2>1. x \in Node
    BY ElementOfSeq, <1>1, <1>3
  <2>2. \E h \in 1 .. Len(n.children) : x = n.children[h]
    BY Zenon, <1>3
  <2> HIDE DEF x
  <2>3. <<x, n>> \in ChildOf(Node)
    BY <2>1, <2>2 DEF ChildOf
  <2> QED
    BY Zenon, <2>1, <2>3 DEF x
<1> QED
  BY Zenon, <1>1, <1>2, <1>3, <1>4, <1>5 DEF ChildrenFit

\* Wider bounds for the keys give wider bounds for those of each child.
LEMMA WiderKeys ==
    ASSUME NEW m \in Nat, NEW ks \in [1 .. m -> Nat], NEW lo \in Nat, NEW hi \in Nat,
           NEW a \in Nat, NEW b \in Nat, a <= lo, hi <= b, Sorted(ks, m, lo, hi)
    PROVE  /\ Sorted(ks, m, a, b)
           /\ \A i \in 1 .. m + 1 : /\ Low(ks, i, a) \in Nat /\ Up(ks, m, i, b) \in Nat
                                    /\ Low(ks, i, lo) \in Nat /\ Up(ks, m, i, hi) \in Nat
                                    /\ Low(ks, i, a) <= Low(ks, i, lo) /\ Up(ks, m, i, hi) <= Up(ks, m, i, b)
<1>1. Sorted(ks, m, a, b)
  BY DEF Sorted
<1>2. ASSUME NEW i \in 1 .. m + 1
      PROVE  /\ Low(ks, i, a) \in Nat /\ Up(ks, m, i, b) \in Nat
             /\ Low(ks, i, lo) \in Nat /\ Up(ks, m, i, hi) \in Nat
  BY Zenon, <1>1, BoundsType
<1>3. ASSUME NEW i \in 1 .. m + 1 PROVE Low(ks, i, a) <= Low(ks, i, lo)
  BY DEF Low
<1>4. ASSUME NEW i \in 1 .. m + 1 PROVE Up(ks, m, i, hi) <= Up(ks, m, i, b)
  BY DEF Up
<1> QED
  BY Zenon, <1>1, <1>2, <1>3, <1>4

\* A tree in order within bounds is in order within wider ones.
LEMMA Wider ==
    ASSUME NEW Node, NEW Val, TreeNodes(Node, Val), IsWellFoundedOn(ChildOf(Node), Node),
           NEW Ordered, Orders(Ordered, Node)
    PROVE  \A n \in Node, lo \in Nat, hi \in Nat, a \in Nat, b \in Nat :
              Fits(Ordered, n, lo, hi) /\ a <= lo /\ hi <= b => Fits(Ordered, n, a, b)
<1> DEFINE Missed == {n \in Node : \E lo \in Nat, hi \in Nat, a \in Nat, b \in Nat :
                         Fits(Ordered, n, lo, hi) /\ a <= lo /\ hi <= b /\ ~Fits(Ordered, n, a, b)}
<1> SUFFICES ASSUME Missed # {} PROVE FALSE
  BY Zenon
<1>1. PICK n \in Missed : \A x \in Missed : <<x, n>> \notin ChildOf(Node)
  <2>1. Missed \subseteq Node
    BY Zenon
  <2> QED
    BY Zenon, <2>1, WFMin
<1>2. n \in Node
  BY Zenon
<1>3. PICK lo \in Nat, hi \in Nat, a \in Nat, b \in Nat :
         Fits(Ordered, n, lo, hi) /\ a <= lo /\ hi <= b /\ ~Fits(Ordered, n, a, b)
  BY Zenon
<1>4. CASE IsLeaf(n)
  <2> DEFINE es == n.entries
  <2>1. es \in Seq(Entry(Val))
    BY Zenon, <1>2, <1>4 DEF TreeNodes
  <2>2. Len(es) \in 1 .. B /\ Rising(es) /\ Within(es, lo, hi)
    BY Zenon, <1>2, <1>3, <1>4, LeafFits
  <2> HIDE DEF es
  <2>3. Len(es) \in Nat /\ \A i \in 1 .. Len(es) : KeyAt(es, i) \in Nat
    BY Zenon, <2>1, KeyAtType
  <2>4. Within(es, a, b)
    <3>1. \A i \in 1 .. Len(es) : lo <= KeyAt(es, i) /\ KeyAt(es, i) < hi
      BY Zenon, <2>2 DEF Within
    <3>2. \A i \in 1 .. Len(es) : a <= KeyAt(es, i) /\ KeyAt(es, i) < b
      BY SMTT(30), <1>3, <2>3, <3>1
    <3> QED
      BY Zenon, <3>2 DEF Within
  <2>5. Fits(Ordered, n, a, b)
    BY Zenon, <1>2, <1>4, <2>2, <2>4, LeafFits DEF es
  <2> QED
    BY Zenon, <1>3, <2>5
<1>5. CASE ~IsLeaf(n)
  <2> DEFINE ks == n.keys
             cs == n.children
             m == Len(ks)
  <2>1. ChildrenFit(Ordered, Node, n, ks, cs, m, lo, hi)
    BY Zenon, <1>2, <1>3, <1>5, InnerChildren
  <2>2. m \in Nat /\ m \in 1 .. B /\ ks \in [1 .. m -> Nat] /\ Len(cs) = m + 1 /\ Sorted(ks, m, lo, hi)
    BY Zenon, <2>1 DEF ChildrenFit
  <2>3. \A i \in 1 .. m + 1 : Fits(Ordered, cs[i], Low(ks, i, lo), Up(ks, m, i, hi))
    BY Zenon, <2>1 DEF ChildrenFit
  <2>4. /\ \A i \in 1 .. m + 1 : cs[i] \in Node
        /\ \A i \in 1 .. m + 1 : <<cs[i], n>> \in ChildOf(Node)
    BY Zenon, <2>1 DEF ChildrenFit
  <2>5. /\ Sorted(ks, m, a, b)
        /\ \A i \in 1 .. m + 1 : /\ Low(ks, i, a) \in Nat /\ Up(ks, m, i, b) \in Nat
                                 /\ Low(ks, i, lo) \in Nat /\ Up(ks, m, i, hi) \in Nat
                                 /\ Low(ks, i, a) <= Low(ks, i, lo) /\ Up(ks, m, i, hi) <= Up(ks, m, i, b)
    <3> HIDE DEF ks, m
    <3> QED
      BY Zenon, <1>3, <2>2, WiderKeys
  <2>6. ASSUME NEW i \in 1 .. m + 1 PROVE Fits(Ordered, cs[i], Low(ks, i, a), Up(ks, m, i, b))
    <3>1. cs[i] \notin Missed
      BY Zenon, <1>1, <2>4
    <3> QED
      BY Zenon, <2>3, <2>4, <2>5, <3>1
  <2>7. Parted(Ordered, ks, cs, a, b)
    BY Zenon, <2>2, <2>5, <2>6 DEF Parted
  <2>8. Fits(Ordered, n, a, b)
    BY Zenon, <1>2, <1>5, <2>2, <2>7, InnerFits
  <2> QED
    BY Zenon, <1>3, <2>8
<1> QED
  BY Zenon, <1>4, <1>5

\* A key outside the bounds of the keys is outside those of the child where it is
\* looked for.
LEMMA PartsOutside ==
    ASSUME NEW m \in Nat, NEW ks \in [1 .. m -> Nat], NEW lo \in Nat, NEW hi \in Nat,
           Sorted(ks, m, lo, hi), NEW j \in Nat, j < lo \/ j >= hi, NEW q \in 1 .. m + 1, Parts(ks, m, j, q)
    PROVE  j < Low(ks, q, lo) \/ j >= Up(ks, m, q, hi)
<1>1. CASE j < lo
  <2>1. q = 1
    <3> SUFFICES ASSUME q # 1 PROVE FALSE
      BY Zenon
    <3>1. q - 1 \in 1 .. m /\ q - 1 < q
      OBVIOUS
    <3>2. ks[q - 1] <= j /\ lo <= ks[q - 1]
      BY Zenon, <3>1 DEF Parts, Sorted
    <3> QED
      BY SMTT(30), <1>1, <3>1, <3>2
  <2> QED
    BY Zenon, <1>1, <2>1 DEF Low
<1>2. CASE j >= hi
  <2>1. q = m + 1
    <3> SUFFICES ASSUME q # m + 1 PROVE FALSE
      BY Zenon
    <3>1. q \in 1 .. m /\ q >= q
      OBVIOUS
    <3>2. ks[q] > j /\ ks[q] < hi
      BY Zenon, <3>1 DEF Parts, Sorted
    <3> QED
      BY SMTT(30), <1>2, <3>1, <3>2
  <2> QED
    BY Zenon, <1>2, <2>1 DEF Up
<1> QED
  BY Zenon, <1>1, <1>2

\* Nothing is found under keys outside a node's bounds.
Beyond(j, lo, hi) == j < lo \/ j >= hi
NothingBeyond(Ordered, get, n) ==
    \A lo \in Nat, hi \in Nat, j \in Nat :
        Fits(Ordered, n, lo, hi) /\ Beyond(j, lo, hi) => get[n][j] = NotFound

\* A tree holds nothing outside its bounds: get_at finds None there.
LEMMA Outside ==
    ASSUME NEW Node, NEW Val, TreeNodes(Node, Val), IsWellFoundedOn(ChildOf(Node), Node),
           NEW Ordered, Orders(Ordered, Node), NEW get, Gets(get, Node), NEW top, top \in Node
    PROVE  NothingBeyond(Ordered, get, top)
<1> DEFINE Missed == {n \in Node : ~NothingBeyond(Ordered, get, n)}
<1> SUFFICES ASSUME Missed # {} PROVE FALSE
  BY Zenon
<1>1. PICK n \in Missed : \A x \in Missed : <<x, n>> \notin ChildOf(Node)
  <2>1. Missed \subseteq Node
    BY Zenon
  <2> QED
    BY Zenon, <2>1, WFMin
<1>2. n \in Node
  BY Zenon
<1>3. PICK lo \in Nat, hi \in Nat, j \in Nat :
         Fits(Ordered, n, lo, hi) /\ Beyond(j, lo, hi) /\ get[n][j] # NotFound
  BY Zenon DEF NothingBeyond
<1>4. CASE IsLeaf(n)
  <2> DEFINE es == n.entries
  <2>1. es \in Seq(Entry(Val))
    BY Zenon, <1>2, <1>4 DEF TreeNodes
  <2>2. Rising(es) /\ Within(es, lo, hi)
    BY Zenon, <1>2, <1>3, <1>4, LeafFits
  <2>3. get[n][j] = Value(es, j)
    BY Zenon, <1>2, <1>4 DEF Gets, GetStep
  <2> HIDE DEF es
  <2>4. \A i \in 1 .. Len(es) : KeyAt(es, i) \in Nat /\ lo <= KeyAt(es, i) /\ KeyAt(es, i) < hi
    BY Zenon, <2>1, <2>2, KeyAtType DEF Within
  <2>5. \A i \in 1 .. Len(es) : KeyAt(es, i) # j
    BY <1>3, <2>4 DEF Beyond
  <2>6. Value(es, j) = NotFound
    BY Zenon, <2>1, <2>2, <2>5, ValueAt
  <2> QED
    BY Zenon, <1>3, <2>3, <2>6
<1>5. CASE ~IsLeaf(n)
  <2> DEFINE ks == n.keys
             cs == n.children
             m == Len(ks)
             q == descend_pos(ks, j)
             l == Low(ks, q, lo)
             u == Up(ks, m, q, hi)
  <2>1. ChildrenFit(Ordered, Node, n, ks, cs, m, lo, hi)
    BY Zenon, <1>2, <1>3, <1>5, InnerChildren
  <2>2. ks \in Seq(Nat) /\ m \in Nat /\ ks \in [1 .. m -> Nat] /\ Sorted(ks, m, lo, hi)
    BY Zenon, <2>1 DEF ChildrenFit
  <2>3. q \in 1 .. m + 1 /\ Parts(ks, m, j, q)
    BY Zenon, <2>2, DescendParts
  <2>4. cs[q] \in Node /\ <<cs[q], n>> \in ChildOf(Node) /\ Fits(Ordered, cs[q], l, u)
    BY Zenon, <2>1, <2>3 DEF ChildrenFit
  <2>5. l \in Nat /\ u \in Nat
    BY Zenon, <2>2, <2>3, BoundsType
  <2>6. Beyond(j, l, u)
    BY Zenon, <1>3, <2>2, <2>3, PartsOutside DEF Beyond
  <2>7. get[n][j] = get[cs[q]][j]
    BY Zenon, <1>2, <1>5 DEF Gets, GetStep
  <2>8. NothingBeyond(Ordered, get, cs[q])
    BY Zenon, <1>1, <2>4
  <2> HIDE DEF l, u, q
  <2> QED
    BY Zenon, <1>3, <2>4, <2>5, <2>6, <2>7, <2>8 DEF NothingBeyond
<1> QED
  BY Zenon, <1>4, <1>5

(***************************************************************************)
(* Removals.                                                               *)
(***************************************************************************)

\* What n holds without k.
Without(get, n, k) == [j \in Nat |-> IF j = k THEN NotFound ELSE get[n][j]]

\* A result of remove_inner at n: the key is not there; the tree has no other; or a tree
\* in order without it.
NodeIs(r, n) == r # Unchanged /\ r # Gone /\ r.node = n
RemoveResult(Ordered, Node, get, r, n, k, lo, hi) ==
    \/ r = Unchanged /\ get[n][k] = NotFound
    \/ r = Gone /\ r # Unchanged /\ \A j \in Nat : j # k => get[n][j] = NotFound
    \/ \E y : NodeIs(r, y) /\ Holds(Ordered, Node, get, y, lo, hi, Without(get, n, k), Nat)

\* The results differ.
LEMMA RemoveResults ==
    ASSUME NEW y, NEW r, r = Plain(y)
    PROVE  NodeIs(r, y) /\ Gone # Unchanged
<1>1. r.node = y /\ "node" \in DOMAIN r
  BY DEF Plain
<1>2. "node" \notin DOMAIN Unchanged /\ "node" \notin DOMAIN Gone
  BY DEF Unchanged, Gone
<1>3. "gone" \in DOMAIN Gone /\ "gone" \notin DOMAIN Unchanged
  BY DEF Unchanged, Gone
<1> QED
  BY Zenon, <1>1, <1>2, <1>3 DEF NodeIs

\* A tree in place of another, in order without k, is a result.
LEMMA NodeResult ==
    ASSUME NEW Ordered, NEW Node, NEW get, NEW n, NEW k, NEW lo, NEW hi, NEW y, NEW r, r = Plain(y),
           Holds(Ordered, Node, get, y, lo, hi, Without(get, n, k), Nat)
    PROVE  RemoveResult(Ordered, Node, get, r, n, k, lo, hi)
<1>1. NodeIs(r, y)
  BY Zenon, RemoveResults
<1> QED
  BY Zenon, <1>1 DEF RemoveResult

\* remove_inner keeps the order and the sizes of nodes, and takes the key away.
LEMMA RemoveInner ==
    ASSUME NEW Node, NEW Val, TreeNodes(Node, Val), IsWellFoundedOn(ChildOf(Node), Node),
           NEW Ordered, Orders(Ordered, Node), NEW get, Gets(get, Node),
           NEW remove, Removes(remove, Node), B \in Nat, NEW k \in Nat
    PROVE  \A n \in Node, lo \in Nat, hi \in Nat :
              Fits(Ordered, n, lo, hi) => RemoveResult(Ordered, Node, get, remove[n][k], n, k, lo, hi)
<1> DEFINE c(n) == Without(get, n, k)
           Right(n, lo, hi) == RemoveResult(Ordered, Node, get, remove[n][k], n, k, lo, hi)
           Missed == {n \in Node : \E lo \in Nat, hi \in Nat :
                         Fits(Ordered, n, lo, hi) /\ ~Right(n, lo, hi)}
<1>1. \A n : \A j \in Nat : c(n)[j] = IF j = k THEN NotFound ELSE get[n][j]
  BY DEF Without
<1> SUFFICES ASSUME Missed # {} PROVE FALSE
  BY Zenon
<1> HIDE DEF Right
<1>2. PICK n \in Missed : \A x \in Missed : <<x, n>> \notin ChildOf(Node)
  <2>1. Missed \subseteq Node
    BY Zenon
  <2> QED
    BY Zenon, <2>1, WFMin
<1>3. n \in Node
  BY Zenon
<1>4. PICK lo \in Nat, hi \in Nat : Fits(Ordered, n, lo, hi) /\ ~Right(n, lo, hi)
  BY Zenon
<1> DEFINE pos == descend_pos(n.keys, k)
           r == remove[n.children[pos]][k]
<1>5. remove[n][k] = RemoveStep(n, k, r)
  BY Zenon, <1>3 DEF Removes
<1>6. Nat \in SUBSET Nat /\ Gone # Unchanged
  BY Zenon, RemoveResults
<1>7. CASE IsLeaf(n)
  <2> DEFINE es == n.entries
             p == Position(es, k)
             t == RemoveAt(es, p)
  <2>1. es \in Seq(Entry(Val))
    BY Zenon, <1>3, <1>7 DEF TreeNodes
  <2>2. Len(es) \in 1 .. B /\ Rising(es) /\ Within(es, lo, hi)
    BY Zenon, <1>3, <1>4, <1>7, LeafFits
  <2>3. \A j \in Nat : get[n][j] = Value(es, j)
    BY Zenon, <1>3, <1>7 DEF Gets, GetStep
  <2>4. remove[n][k] = IF ~HasAt(es, p, k) THEN Unchanged
                       ELSE IF t = <<>> THEN Gone ELSE Plain(Leaf(t))
    BY Zenon, <1>5, <1>7 DEF RemoveStep
  <2> HIDE DEF es
  <2>5. CASE ~HasAt(es, p, k)
    <3>1. \A i \in 1 .. Len(es) : KeyAt(es, i) # k
      BY Zenon, <2>1, <2>2, <2>5, PositionOf
    <3>2. get[n][k] = NotFound
      BY Zenon, <2>1, <2>2, <2>3, <3>1, ValueAt
    <3>3. Right(n, lo, hi)
      BY Zenon, <2>4, <2>5, <3>2 DEF Right, RemoveResult
    <3> QED
      BY Zenon, <1>4, <3>3
  <2>6. CASE HasAt(es, p, k)
    <3>1. EntriesRemoved(es, t, Val, k, lo, hi)
      BY Zenon, <2>1, <2>2, <2>6, RemovedEntries
    <3> HIDE DEF t
    <3>2. /\ t \in Seq(Entry(Val)) /\ LeafEntries(t, Val, lo, hi)
          /\ Len(es) \in Nat /\ Len(es) > 0 /\ Len(t) = Len(es) - 1
      BY Zenon, <3>1 DEF EntriesRemoved, LeafEntries
    <3>3. \A j \in Nat : Value(t, j) = c(n)[j]
      <4> HIDE DEF c
      <4> QED
        BY ZenonT(40), <1>1, <2>3, <3>1 DEF EntriesRemoved
    <3>4. CASE t = <<>>
      <4>1. \A i \in 1 .. Len(t) : KeyAt(t, i) # k
        BY <3>4
      <4>2. ASSUME NEW j \in Nat, j # k PROVE get[n][j] = NotFound
        <5>1. \A i \in 1 .. Len(t) : KeyAt(t, i) # j
          BY <3>4
        <5>2. Value(t, j) = NotFound
          BY Zenon, <3>2, <5>1, ValueAt DEF LeafEntries
        <5> HIDE DEF c
        <5> QED
          BY Zenon, <1>1, <3>3, <4>2, <5>2
      <4>3. Right(n, lo, hi)
        BY ZenonT(40), <1>6, <2>4, <2>6, <3>4, <4>2 DEF Right, RemoveResult
      <4> QED
        BY Zenon, <1>4, <4>3
    <3>5. CASE t # <<>>
      <4>1. remove[n][k] = Plain(Leaf(t))
        BY Zenon, <2>4, <2>6, <3>5
      <4>2. Len(t) # 0
        BY Zenon, <3>2, <3>5, EmptySeq
      <4>3. Len(t) \in 1 .. B
        BY SMTT(30), <2>2, <3>2, <4>2
      <4>4. Holds(Ordered, Node, get, Leaf(t), lo, hi, c(n), Nat)
        <5> HIDE DEF c
        <5> QED
          BY Zenon, <1>6, <3>2, <3>3, <4>3, MadeLeaf
      <4>5. Right(n, lo, hi)
        BY Zenon, <4>1, <4>4, NodeResult DEF Right
      <4> QED
        BY Zenon, <1>4, <4>5
    <3> QED
      BY Zenon, <3>4, <3>5
  <2> QED
    BY Zenon, <2>5, <2>6
<1>8. CASE ~IsLeaf(n)
  <2> DEFINE ks == n.keys
             cs == n.children
             m == Len(ks)
             l == Low(ks, pos, lo)
             u == Up(ks, m, pos, hi)
             x == cs[pos]
  <2>1. ChildrenFit(Ordered, Node, n, ks, cs, m, lo, hi)
    BY Zenon, <1>3, <1>4, <1>8, InnerChildren
  <2>2. ks \in Seq(Nat) /\ cs \in Seq(Node) /\ m = Len(ks) /\ m \in Nat /\ m \in 1 .. B /\ ks \in [1 .. m -> Nat]
        /\ Parted(Ordered, ks, cs, lo, hi) /\ Sorted(ks, m, lo, hi)
    BY Zenon, <2>1 DEF ChildrenFit
  <2>3. \A j \in Nat : descend_pos(ks, j) \in 1 .. m + 1
    BY Zenon, <2>1 DEF ChildrenFit
  <2>4. pos \in 1 .. m + 1
    BY Zenon, <2>3
  <2>5. l \in Nat /\ u \in Nat
    BY Zenon, <2>2, <2>4, BoundsType
  <2>6. x \in Node /\ Fits(Ordered, x, l, u) /\ <<x, n>> \in ChildOf(Node)
    BY Zenon, <2>1, <2>4 DEF ChildrenFit
  <2>7. \A j \in Nat : get[n][j] = get[cs[descend_pos(ks, j)]][j]
    BY Zenon, <1>3, <1>8 DEF Gets, GetStep
  <2>8. remove[n][k] = IF r = Unchanged THEN Unchanged
                       ELSE IF r # Gone THEN Plain(Inner(ks, ReplaceAt(cs, pos, r.node)))
                       ELSE IF WithoutChild(n, pos).children = <<>> THEN Gone
                       ELSE IF WithoutChild(n, pos).keys = <<>> /\ Len(WithoutChild(n, pos).children) = 1
                            THEN Plain(WithoutChild(n, pos).children[1])
                       ELSE Plain(WithoutChild(n, pos))
    BY Zenon, <1>5, <1>8 DEF RemoveStep
  <2> HIDE DEF l, u, x
  <2>9. Right(x, l, u)
    <3>1. x \notin Missed
      BY Zenon, <1>2, <2>6
    <3> QED
      BY Zenon, <2>5, <2>6, <3>1
  <2>10. RemoveResult(Ordered, Node, get, r, x, k, l, u)
    BY Zenon, <2>9 DEF Right, x
  <2>11. \A j \in Nat : descend_pos(ks, j) = pos => get[n][j] = get[x][j]
    BY Zenon, <2>7 DEF x
  <2> HIDE DEF c
  <2>12. \A j \in Nat : descend_pos(ks, j) # pos => get[cs[descend_pos(ks, j)]][j] = c(n)[j]
    BY Zenon, <1>1, <2>7
  <2>13. CASE r = Unchanged /\ get[x][k] = NotFound
    <3>1. get[n][k] = NotFound
      BY Zenon, <2>11, <2>13
    <3>2. Right(n, lo, hi)
      BY Zenon, <2>8, <2>13, <3>1 DEF Right, RemoveResult
    <3> QED
      BY Zenon, <1>4, <3>2
  <2>14. ASSUME NEW y, NodeIs(r, y), Holds(Ordered, Node, get, y, l, u, c(x), Nat)
         PROVE  FALSE
    <3> DEFINE ds == ReplaceAt(cs, pos, y)
    <3>1. y \in Node /\ Fits(Ordered, y, l, u) /\ \A j \in Nat : get[y][j] = c(x)[j]
      BY Zenon, <2>14 DEF Holds
    <3>2. remove[n][k] = Plain(Inner(ks, ds))
      BY Zenon, <2>8, <2>14 DEF NodeIs
    <3>3. ChildReplaced(Ordered, Node, ds, ks, cs, m, pos, y, lo, hi)
      BY Zenon, <2>2, <2>4, <3>1, ReplacedChild DEF l, u
    <3> HIDE DEF ds, ks, cs, m, pos
    <3>4. ds \in Seq(Node) /\ Parted(Ordered, ks, ds, lo, hi)
      BY Zenon, <3>3 DEF ChildReplaced
    <3>5. \A j \in Nat : get[ds[descend_pos(ks, j)]][j] = c(n)[j]
      <4> SUFFICES ASSUME NEW j \in Nat PROVE get[ds[descend_pos(ks, j)]][j] = c(n)[j]
        BY Zenon
      <4>1. ds[descend_pos(ks, j)] = IF descend_pos(ks, j) = pos THEN y ELSE cs[descend_pos(ks, j)]
        BY Zenon, <2>3, <3>3 DEF ChildReplaced
      <4>2. descend_pos(ks, j) = pos => c(x)[j] = c(n)[j]
        BY Zenon, <1>1, <2>11
      <4> QED
        BY ZenonT(40), <2>12, <3>1, <4>1, <4>2
    <3>6. Holds(Ordered, Node, get, Inner(ks, ds), lo, hi, c(n), Nat)
      BY Zenon, <1>6, <2>2, <3>4, <3>5, MadeInner
    <3>7. Right(n, lo, hi)
      BY Zenon, <3>2, <3>6, NodeResult DEF Right, c
    <3> QED
      BY Zenon, <1>4, <3>7
  <2>15. CASE r = Gone /\ r # Unchanged /\ \A j \in Nat : j # k => get[x][j] = NotFound
    <3> DEFINE ls == RemoveAt(ks, IF pos <= m THEN pos ELSE pos - 1)
               ds == RemoveAt(cs, pos)
               w == m - 1
               rest == WithoutChild(n, pos)
    <3>1. rest = Inner(ls, ds)
      BY Zenon DEF WithoutChild
    <3>2. rest.children = ds /\ rest.keys = ls
      <4> HIDE DEF ls, ds, rest
      <4>1. Inner(ls, ds).children = ds /\ Inner(ls, ds).keys = ls
        BY Zenon, Made
      <4> QED
        BY Zenon, <3>1, <4>1
    <3>3. w \in Nat /\ w + 1 = m /\ (w = 0 \/ w \in 1 .. B)
      <4>1. m \in 1 .. B
        BY Zenon, <2>2
      <4> HIDE DEF m
      <4> QED
        BY <4>1
    <3> HIDE DEF w
    <3>4. ChildDropped(Ordered, Node, ls, ds, ks, cs, m, w, pos, lo, hi)
      BY Zenon, <2>2, <2>4, <3>3, DroppedChild
    <3> HIDE DEF ls, ds, rest, ks, cs, m, pos
    <3>5. ls \in Seq(Nat) /\ ds \in Seq(Node) /\ Len(ls) = w /\ Len(ds) = w + 1 /\ Sorted(ls, w, lo, hi)
      BY Zenon, <3>4 DEF ChildDropped
    <3>6. \A f \in 1 .. m + 1 : cs[f] \in Node /\ Fits(Ordered, cs[f], Low(ks, f, lo), Up(ks, m, f, hi))
                                /\ Low(ks, f, lo) \in Nat /\ Up(ks, m, f, hi) \in Nat
      <4>1. \A f \in 1 .. m + 1 : cs[f] \in Node
        BY Zenon, <2>1 DEF ChildrenFit
      <4>2. \A f \in 1 .. m + 1 : Fits(Ordered, cs[f], Low(ks, f, lo), Up(ks, m, f, hi))
        BY Zenon, <2>1 DEF ChildrenFit
      <4>3. \A f \in 1 .. m + 1 : Low(ks, f, lo) \in Nat /\ Up(ks, m, f, hi) \in Nat
        BY Zenon, <2>2, BoundsType
      <4> QED
        BY Zenon, <4>1, <4>2, <4>3
    <3>7. ASSUME NEW i \in 1 .. w + 1
          PROVE  ds[i] \in Node /\ Fits(Ordered, ds[i], Low(ls, i, lo), Up(ls, w, i, hi))
      <4>1. PICK f \in 1 .. m + 1 :
               /\ ds[i] = cs[f] /\ Low(ls, i, lo) \in Nat /\ Up(ls, w, i, hi) \in Nat
               /\ Low(ls, i, lo) <= Low(ks, f, lo) /\ Up(ks, m, f, hi) <= Up(ls, w, i, hi)
        BY Zenon, <3>4 DEF ChildDropped
      <4>2. Fits(Ordered, cs[f], Low(ls, i, lo), Up(ls, w, i, hi))
        BY Zenon, <3>6, <4>1, Wider
      <4> QED
        BY Zenon, <3>6, <4>1, <4>2
    <3>8. \A j \in Nat : get[ds[descend_pos(ls, j)]][j] = c(n)[j]
      <4> SUFFICES ASSUME NEW j \in Nat PROVE get[ds[descend_pos(ls, j)]][j] = c(n)[j]
        BY Zenon
      <4>1. CASE descend_pos(ks, j) # pos
        <5>1. ds[descend_pos(ls, j)] = cs[descend_pos(ks, j)]
          BY Zenon, <3>4, <4>1 DEF ChildDropped
        <5> QED
          BY Zenon, <2>12, <4>1, <5>1
      <4>2. CASE descend_pos(ks, j) = pos
        <5>1. PICK f \in 1 .. m + 1 : /\ ds[descend_pos(ls, j)] = cs[f]
                                      /\ j < Low(ks, f, lo) \/ j >= Up(ks, m, f, hi)
          BY Zenon, <3>4, <4>2 DEF ChildDropped
        <5>2. get[cs[f]][j] = NotFound
          <6>1. cs[f] \in Node /\ Fits(Ordered, cs[f], Low(ks, f, lo), Up(ks, m, f, hi))
            BY Zenon, <3>6
          <6>2. Low(ks, f, lo) \in Nat /\ Up(ks, m, f, hi) \in Nat
            BY Zenon, <3>6
          <6>3. Beyond(j, Low(ks, f, lo), Up(ks, m, f, hi))
            BY Zenon, <5>1 DEF Beyond
          <6> QED
            <7>1. NothingBeyond(Ordered, get, cs[f])
              BY Zenon, <6>1, Outside
            <7> QED
              BY Zenon, <6>1, <6>2, <6>3, <7>1 DEF NothingBeyond
        <5>3. c(n)[j] = NotFound
          <6>1. j # k => get[n][j] = NotFound
            BY Zenon, <2>11, <2>15, <4>2
          <6> QED
            BY Zenon, <1>1, <6>1
        <5> QED
          BY Zenon, <5>1, <5>2, <5>3
      <4> QED
        BY Zenon, <4>1, <4>2
    <3>9. ds # <<>>
      <4>1. Len(ds) # 0
        BY SMTT(30), <3>3, <3>5
      <4> QED
        BY <4>1
    <3>10. CASE w = 0
      <4>1. 1 \in 1 .. w + 1 /\ w + 1 = 1 /\ \A i \in 1 .. w + 1 : i = 1
        BY <3>10
      <4>2. Low(ls, 1, lo) = lo /\ Up(ls, w, 1, hi) = hi
        BY Zenon, <4>1 DEF Low, Up
      <4>3. ds[1] \in Node /\ Fits(Ordered, ds[1], lo, hi)
        BY Zenon, <3>7, <4>1, <4>2
      <4>4. \A j \in Nat : descend_pos(ls, j) = 1
        BY Zenon, <3>5, <4>1, DescendParts
      <4>5. Holds(Ordered, Node, get, ds[1], lo, hi, c(n), Nat)
        BY Zenon, <3>8, <4>3, <4>4 DEF Holds
      <4>6. remove[n][k] = Plain(ds[1])
        <5>1. ls = <<>>
          BY Zenon, <3>5, <3>10, EmptySeq
        <5> QED
          BY ZenonT(40), <2>8, <2>15, <3>2, <3>5, <3>9, <4>1, <5>1 DEF rest
      <4>7. Right(n, lo, hi)
        BY ZenonT(40), <4>5, <4>6, NodeResult DEF Right, c
      <4> QED
        BY Zenon, <1>4, <4>7
    <3>11. CASE w # 0
      <4>1. w \in 1 .. B /\ w + 1 # 1
        BY <3>3, <3>11
      <4>2. Parted(Ordered, ls, ds, lo, hi)
        BY Zenon, <3>5, <3>7 DEF Parted
      <4>3. Holds(Ordered, Node, get, Inner(ls, ds), lo, hi, c(n), Nat)
        BY ZenonT(40), <1>6, <3>5, <3>8, <4>1, <4>2, MadeInner
      <4>4. remove[n][k] = Plain(Inner(ls, ds))
        BY Zenon, <2>8, <2>15, <3>1, <3>2, <3>5, <3>9, <4>1 DEF rest
      <4>5. Right(n, lo, hi)
        BY Zenon, <4>3, <4>4, NodeResult DEF Right, c
      <4> QED
        BY Zenon, <1>4, <4>5
    <3> QED
      BY Zenon, <3>10, <3>11
  <2> QED
    BY Zenon, <2>10, <2>13, <2>14, <2>15 DEF RemoveResult, c
<1> QED
  BY Zenon, <1>7, <1>8

(***************************************************************************)
(* The whole map.                                                          *)
(***************************************************************************)

\* A root: no tree, or one in order; and what a lookup from it finds.
SortedTree(Ordered, Node, root) ==
    root = EMPTY \/ (root \in Node /\ \E hi \in Nat : Fits(Ordered, root, 0, hi))
Lookup(get, root, j) == IF root = EMPTY THEN NotFound ELSE get[root][j]

\* A root under which lookups find what c has.
RootWith(Ordered, Node, get, root, c) ==
    SortedTree(Ordered, Node, root) /\ \A j \in Nat : Lookup(get, root, j) = c[j]

\* A tree that holds what it should is a root.
LEMMA RootHolds ==
    ASSUME NEW Node, NEW Val, TreeNodes(Node, Val), NEW Ordered, NEW get, NEW hi \in Nat, NEW c,
           NEW root, Holds(Ordered, Node, get, root, 0, hi, c, Nat)
    PROVE  RootWith(Ordered, Node, get, root, c)
<1>1. root # EMPTY
  BY Zenon DEF TreeNodes, Holds
<1> QED
  BY Zenon, <1>1 DEF Holds, SortedTree, Lookup, RootWith

\* One entry, alone.
OnlyEntry(es, Val, k, v) ==
    /\ LeafEntries(es, Val, 0, k + 1) /\ Len(es) = 1
    /\ \A j \in Nat : Value(es, j) = IF j = k THEN v ELSE NotFound

\* The leaf that set writes into an empty tree holds one entry.
LEMMA OneEntry ==
    ASSUME NEW Val, NEW k \in Nat, NEW v \in Val, NEW es, es = << <<k, v>> >>
    PROVE  OnlyEntry(es, Val, k, v)
<1>1. es \in Seq(Entry(Val)) /\ Len(es) = 1 /\ es[1] = <<k, v>>
  BY DEF Entry
<1>2. KeyAt(es, 1) = k /\ ValAt(es, 1) = v
  BY <1>1 DEF KeyAt, ValAt
<1>3. \A i \in 1 .. Len(es) : i = 1
  BY <1>1
<1>4. 1 \in 1 .. Len(es)
  BY <1>1
<1>5. Rising(es)
  <2>1. ~(1 < 1)
    OBVIOUS
  <2> QED
    BY Zenon, <1>3, <2>1 DEF Rising
<1>6. Within(es, 0, k + 1)
  <2>1. 0 <= k /\ k < k + 1
    OBVIOUS
  <2> QED
    BY Zenon, <1>2, <1>3, <2>1 DEF Within
<1>7. \A j \in Nat : Value(es, j) = IF j = k THEN v ELSE NotFound
  <2> SUFFICES ASSUME NEW j \in Nat PROVE Value(es, j) = IF j = k THEN v ELSE NotFound
    BY Zenon
  <2>1. \A i \in 1 .. Len(es) : KeyAt(es, i) = j => Value(es, j) = ValAt(es, i)
    BY Zenon, <1>1, <1>5, ValueAt
  <2>2. (\A i \in 1 .. Len(es) : KeyAt(es, i) # j) => Value(es, j) = NotFound
    BY Zenon, <1>1, <1>5, ValueAt
  <2> QED
    BY Zenon, <1>2, <1>3, <1>4, <2>1, <2>2
<1> QED
  BY Zenon, <1>1, <1>5, <1>6, <1>7 DEF LeafEntries, OnlyEntry

\* Two trees under a new root, with a key between them.
LEMMA NewRoot ==
    ASSUME NEW Node, NEW Val, TreeNodes(Node, Val), NEW Ordered, Orders(Ordered, Node),
           NEW get, Gets(get, Node), B \in Nat, B >= 2, NEW hi \in Nat, NEW c,
           NEW left, NEW sep \in Nat, NEW right, sep < hi,
           Holds(Ordered, Node, get, left, 0, sep, c, Below(sep)),
           Holds(Ordered, Node, get, right, sep, hi, c, From(sep))
    PROVE  Holds(Ordered, Node, get, Inner(<<sep>>, <<left, right>>), 0, hi, c, Nat)
<1> DEFINE ks == <<sep>>
           cs == <<left, right>>
<1>1. left \in Node /\ right \in Node /\ Fits(Ordered, left, 0, sep) /\ Fits(Ordered, right, sep, hi)
  BY Zenon DEF Holds
<1>2. /\ ks \in Seq(Nat) /\ cs \in Seq(Node) /\ Len(ks) = 1 /\ Len(cs) = 2
      /\ ks[1] = sep /\ cs[1] = left /\ cs[2] = right
  BY <1>1
<1> HIDE DEF ks, cs
<1>3. Len(ks) \in 1 .. B /\ 0 \in Nat /\ Len(cs) = Len(ks) + 1
  BY <1>2
<1>4. \A i \in 1 .. Len(ks) + 1 : i = 1 \/ i = 2
  BY <1>2
<1>5. \A i \in 1 .. Len(ks) : i = 1
  BY <1>2
<1>6. Sorted(ks, Len(ks), 0, hi)
  <2>1. ~(1 < 1) /\ 0 <= sep
    OBVIOUS
  <2> QED
    BY Zenon, <1>2, <1>5, <2>1 DEF Sorted
<1>7. /\ Low(ks, 1, 0) = 0 /\ Up(ks, Len(ks), 1, hi) = sep
      /\ Low(ks, 2, 0) = sep /\ Up(ks, Len(ks), 2, hi) = hi
  BY <1>2 DEF Low, Up
<1>8. Parted(Ordered, ks, cs, 0, hi)
  BY Zenon, <1>1, <1>2, <1>3, <1>4, <1>6, <1>7 DEF Parted
<1>9. ASSUME NEW j \in Nat, j < sep PROVE descend_pos(ks, j) = 1
  <2>1. Parts(ks, Len(ks), j, 1)
    BY <1>2, <1>9 DEF Parts
  <2> QED
    BY Zenon, <1>2, <2>1, PartsAt
<1>10. ASSUME NEW j \in Nat, j >= sep PROVE descend_pos(ks, j) = 2
  <2>1. Parts(ks, Len(ks), j, 2)
    BY <1>2, <1>10 DEF Parts
  <2> QED
    BY Zenon, <1>2, <2>1, PartsAt
<1>11. ASSUME NEW j \in Nat PROVE get[cs[descend_pos(ks, j)]][j] = c[j]
  <2>1. CASE j < sep
    BY Zenon, <1>2, <1>9, <2>1 DEF Holds, Below
  <2>2. CASE j >= sep
    BY Zenon, <1>2, <1>10, <2>2 DEF Holds, From
  <2>3. j < sep \/ j >= sep
    OBVIOUS
  <2> QED
    BY Zenon, <2>1, <2>2, <2>3
<1>12. Nat \in SUBSET Nat
  BY Zenon
<1> QED
  BY Zenon, <1>2, <1>3, <1>8, <1>11, <1>12, MadeInner DEF ks, cs

\* PBTree::set: puts keep the map in order, its leaves and inner nodes full to no more than B,
\* and a lookup finds the new value under the key and under every other what was there before.
THEOREM SortedSet ==
    ASSUME NEW Node, NEW Val, TreeNodes(Node, Val), IsWellFoundedOn(ChildOf(Node), Node),
           NEW Ordered, Orders(Ordered, Node), NEW get, Gets(get, Node),
           NEW set, Sets(set, Node, Val), B \in Nat, B >= 2, NEW k \in Nat, NEW v \in Val,
           NEW root, SortedTree(Ordered, Node, root), NEW new, new = SetRoot(root, k, v, set[root][k][v])
    PROVE  /\ SortedTree(Ordered, Node, new)
           /\ \A j \in Nat : Lookup(get, new, j) = IF j = k THEN v ELSE Lookup(get, root, j)
<1> DEFINE c == [j \in Nat |-> IF j = k THEN v ELSE Lookup(get, root, j)]
           r == set[root][k][v]
<1>1. \A j \in Nat : c[j] = IF j = k THEN v ELSE Lookup(get, root, j)
  OBVIOUS
<1>2. SUFFICES ASSUME ~\E hi \in Nat : Holds(Ordered, Node, get, new, 0, hi, c, Nat) PROVE FALSE
  <2> HIDE DEF c
  <2>1. PICK hi \in Nat : Holds(Ordered, Node, get, new, 0, hi, c, Nat)
    BY Zenon
  <2>2. RootWith(Ordered, Node, get, new, c)
    BY Zenon, <2>1, RootHolds
  <2> QED
    BY Zenon, <1>1, <2>2 DEF RootWith
<1>3. Nat \in SUBSET Nat /\ 0 \in Nat
  BY Zenon
<1>4. CASE root = EMPTY
  <2> DEFINE es == << <<k, v>> >>
  <2>1. new = Leaf(es)
    BY Zenon, <1>4 DEF SetRoot
  <2>2. /\ LeafEntries(es, Val, 0, k + 1) /\ Len(es) = 1
        /\ \A j \in Nat : Value(es, j) = IF j = k THEN v ELSE NotFound
    <3>1. OnlyEntry(es, Val, k, v)
      BY Zenon, OneEntry
    <3> QED
      BY Zenon, <3>1 DEF OnlyEntry
  <2>3. \A j \in Nat : Lookup(get, root, j) = NotFound
    BY Zenon, <1>4 DEF Lookup
  <2> HIDE DEF es, c
  <2>4. Len(es) \in 1 .. B /\ k + 1 \in Nat
    BY <2>2
  <2>5. \A j \in Nat : Value(es, j) = c[j]
    BY Zenon, <1>1, <2>2, <2>3
  <2>6. Holds(Ordered, Node, get, Leaf(es), 0, k + 1, c, Nat)
    BY Zenon, <1>3, <2>2, <2>4, <2>5, MadeLeaf
  <2> QED
    BY Zenon, <1>2, <2>1, <2>4, <2>6
<1>5. CASE root # EMPTY
  <2>1. PICK a \in Nat : root \in Node /\ Fits(Ordered, root, 0, a)
    BY Zenon, <1>5 DEF SortedTree
  <2>2. PICK hi \in Nat : a <= hi /\ k < hi
    <3>1. a <= a + k + 1 /\ k < a + k + 1 /\ a + k + 1 \in Nat
      OBVIOUS
    <3> QED
      BY Zenon, <3>1
  <2>3. 0 <= 0 /\ 0 <= k
    OBVIOUS
  <2>4. Fits(Ordered, root, 0, hi)
    BY ZenonT(40), <1>3, <2>1, <2>2, <2>3, Wider
  <2>5. c = [j \in Nat |-> IF j = k THEN v ELSE get[root][j]]
    BY <1>5 DEF Lookup
  <2>6. SetResult(Ordered, Node, get, r, 0, hi, c)
    <3> DEFINE d == With(get, root, k, v)
    <3>1. SetResult(Ordered, Node, get, r, 0, hi, d)
      BY Zenon, <1>3, <2>1, <2>2, <2>3, <2>4, SetInner
    <3> HIDE DEF c, d
    <3>2. c = d
      BY Zenon, <2>5 DEF d, With
    <3> QED
      BY Zenon, <3>1, <3>2
  <2> HIDE DEF c
  <2>7. ASSUME NEW n, PlainIs(r, n), Holds(Ordered, Node, get, n, 0, hi, c, Nat) PROVE FALSE
    <3>1. new = n
      BY Zenon, <1>5, <2>7 DEF SetRoot, PlainIs
    <3> QED
      BY Zenon, <1>2, <2>7, <3>1
  <2>8. ASSUME NEW left, NEW sep, NEW right, SplitIs(r, left, sep, right), sep \in Nat, sep < hi,
               Holds(Ordered, Node, get, left, 0, sep, c, Below(sep)),
               Holds(Ordered, Node, get, right, sep, hi, c, From(sep))
        PROVE  FALSE
    <3>1. new = Inner(<<sep>>, <<left, right>>)
      BY Zenon, <1>5, <2>8 DEF SetRoot, SplitIs
    <3>2. Holds(Ordered, Node, get, Inner(<<sep>>, <<left, right>>), 0, hi, c, Nat)
      BY Zenon, <2>8, NewRoot
    <3> QED
      BY Zenon, <1>2, <3>1, <3>2
  <2> QED
    BY Zenon, <2>6, <2>7, <2>8 DEF SetResult
<1> QED
  BY Zenon, <1>4, <1>5

\* PBTree::remove: removals keep the map in order, its leaves and inner nodes full to no more than
\* B and none empty, and take away the key and nothing else.
THEOREM SortedRemove ==
    ASSUME NEW Node, NEW Val, TreeNodes(Node, Val), IsWellFoundedOn(ChildOf(Node), Node),
           NEW Ordered, Orders(Ordered, Node), NEW get, Gets(get, Node),
           NEW remove, Removes(remove, Node), B \in Nat, NEW k \in Nat,
           NEW root, SortedTree(Ordered, Node, root), NEW new, new = RemoveRoot(root, remove[root][k])
    PROVE  /\ SortedTree(Ordered, Node, new)
           /\ \A j \in Nat : Lookup(get, new, j) = IF j = k THEN NotFound ELSE Lookup(get, root, j)
<1> DEFINE r == remove[root][k]
<1>1. CASE root = EMPTY
  <2>1. new = EMPTY
    BY Zenon, <1>1 DEF RemoveRoot
  <2> QED
    BY Zenon, <1>1, <2>1 DEF SortedTree, Lookup
<1>2. CASE root # EMPTY
  <2>1. PICK hi \in Nat : root \in Node /\ Fits(Ordered, root, 0, hi)
    BY Zenon, <1>2 DEF SortedTree
  <2>2. 0 \in Nat
    OBVIOUS
  <2>3. RemoveResult(Ordered, Node, get, r, root, k, 0, hi)
    BY Zenon, <2>1, <2>2, RemoveInner
  <2>4. \A j \in Nat : Lookup(get, root, j) = get[root][j]
    BY Zenon, <1>2 DEF Lookup
  <2>5. CASE r = Unchanged /\ get[root][k] = NotFound
    <3>1. Gone # Unchanged
      BY Zenon, RemoveResults
    <3>2. new = root
      BY Zenon, <1>2, <2>5, <3>1 DEF RemoveRoot
    <3> QED
      BY Zenon, <2>4, <2>5, <3>2
  <2>6. CASE r = Gone /\ \A j \in Nat : j # k => get[root][j] = NotFound
    <3>1. new = EMPTY
      BY Zenon, <2>6 DEF RemoveRoot
    <3>2. \A j \in Nat : Lookup(get, new, j) = NotFound
      BY Zenon, <3>1 DEF Lookup
    <3> QED
      BY Zenon, <2>4, <2>6, <3>1, <3>2 DEF SortedTree
  <2>7. ASSUME NEW y, NodeIs(r, y), Holds(Ordered, Node, get, y, 0, hi, Without(get, root, k), Nat)
        PROVE  /\ SortedTree(Ordered, Node, new)
               /\ \A j \in Nat : Lookup(get, new, j) = IF j = k THEN NotFound ELSE Lookup(get, root, j)
    <3>1. new = y
      BY Zenon, <1>2, <2>7 DEF RemoveRoot, NodeIs
    <3>2. RootWith(Ordered, Node, get, y, Without(get, root, k))
      BY Zenon, <2>7, RootHolds
    <3>3. \A j \in Nat : Without(get, root, k)[j] = IF j = k THEN NotFound ELSE get[root][j]
      BY DEF Without
    <3> QED
      BY Zenon, <2>4, <3>1, <3>2, <3>3 DEF RootWith
  <2> QED
    BY Zenon, <2>3, <2>5, <2>6, <2>7 DEF RemoveResult
<1> QED
  BY Zenon, <1>1, <1>2
=============================================================================
