-------------------------- MODULE CellStoreProofs --------------------------
(***************************************************************************)
(* Facts about stores, read sets and validation, for both commit paths.    *)
(***************************************************************************)
EXTENDS CellStore, TLAPS

\* An observation maps the cells it covers to values.
LEMMA ObservationFacts ==
    /\ \A o \in Observation : DOMAIN o \subseteq Cells /\ o \in [DOMAIN o -> Value]
    /\ \A S \in SUBSET Cells : \A o \in [S -> Value] : o \in Observation
    /\ <<>> \in Observation
<1>1. \A o \in Observation : DOMAIN o \subseteq Cells /\ o \in [DOMAIN o -> Value]
  BY DEF Observation
<1>2. \A S \in SUBSET Cells : \A o \in [S -> Value] : o \in Observation
  BY DEF Observation
<1>3. <<>> \in [{} -> Value]
  OBVIOUS
<1> QED
  BY Zenon, <1>1, <1>2, <1>3

\* Installing writes in a store gives a store.
LEMMA UpdateType ==
    ASSUME NEW f \in [Cells -> Row], NEW g \in Observation
    PROVE  Update(f, g) \in [Cells -> Row]
BY ObservationFacts DEF Update, Row

\* What a program reads is a value in every cell.
LEMMA ViewType ==
    ASSUME NEW s \in [Cells -> Row], NEW p \in Program
    PROVE  /\ \A c \in Cells : ReadIn(s, c) \in Value
           /\ View(s, p) \in [ReadsOf(p) -> Value]
           /\ View(s, p) \in Observation
           /\ Effect(p, View(s, p)) \in Observation
<1>1. \A c \in Cells : ReadIn(s, c) \in Value
  BY CellTypes DEF Row, ReadIn
<1>2. ReadsOf(p) \subseteq Cells
  BY ProgramTypes
<1>3. View(s, p) \in [ReadsOf(p) -> Value]
  BY <1>1, <1>2 DEF View
<1> QED
  BY SMTT(30), <1>1, <1>2, <1>3, ObservationFacts, ProgramTypes

\* Running a program alone on a store leaves a store.
LEMMA RunAloneType ==
    ASSUME NEW s \in [Cells -> Row], NEW p \in Program
    PROVE  RunAlone(s, p) \in [Cells -> Row]
BY ViewType, UpdateType DEF RunAlone

\* A read that validates was of the value a fresh read would return: read_matches
\* never accepts a stale read, whatever is_default leaves out.
LEMMA ReadMatchesIsFresh ==
    ASSUME NEW s, NEW c, NEW v, read_matches(c, s[c], v)
    PROVE  v = ReadIn(s, c)
BY DEF read_matches, is_default, ReadIn

\* A run alone is a commit that merges nothing.
LEMMA AloneIsMergedRun ==
    ASSUME NEW s \in [Cells -> Row], NEW p \in Program, ~Fails(p, View(s, p))
    PROVE  MergedRun(s, p, View(s, p), RunAlone(s, p))
<1> DEFINE o == View(s, p)
           g == Effect(p, o)
<1>1. g \in Observation /\ g \in [DOMAIN g -> Value]
  BY Zenon, ViewType, ObservationFacts
<1>2. \A c \in ReadsOf(p) \ {} : o[c] = ReadIn(s, c)
  BY Zenon DEF View
<1>3. MergedWrites(s, p, o, {}) = g
  <2> HIDE DEF o
  <2> QED
    BY Zenon, <1>1 DEF MergedWrites
<1>4. RunAlone(s, p) = Update(s, MergedWrites(s, p, o, {}))
  BY Zenon, <1>3 DEF RunAlone
<1> HIDE DEF o, g
<1>5. {} \in SUBSET (MapCells \cap ReadsOf(p) \cap DOMAIN Effect(p, o))
  OBVIOUS
<1>6. ~Fails(p, o)
  BY DEF o
<1>7. MergedRun(s, p, o, RunAlone(s, p))
  BY Zenon, <1>2, <1>4, <1>5, <1>6 DEF MergedRun
<1> QED
  BY <1>7 DEF o

\* What validation and merge accept is such a commit: a read that validates still
\* holds, and the others were of map roots that are written and merge.
LEMMA ValidatedIsMergedRun ==
    ASSUME NEW s \in [Cells -> Row], NEW p \in Program, NEW o \in [ReadsOf(p) -> Value],
           NEW M, M = {c \in ReadsOf(p) : ~read_matches(c, s[c], o[c])},
           ~Fails(p, o),
           \A c \in M : /\ c \in MapCells /\ c \in DOMAIN Effect(p, o)
                       /\ MergeThreeWay(Effect(p, o)[c], ReadIn(s, c), o[c]) # NoMerge
    PROVE  /\ MergedWrites(s, p, o, M) \in Observation
           /\ MergedRun(s, p, o, Update(s, MergedWrites(s, p, o, M)))
<1> DEFINE g == Effect(p, o)
           W == MergedWrites(s, p, o, M)
<1>1. /\ g \in Observation /\ DOMAIN g \subseteq Cells
      /\ g \in [DOMAIN g -> Value] /\ ReadsOf(p) \subseteq Cells
  BY Zenon, ProgramTypes, ObservationFacts
<1>2. M \in SUBSET (MapCells \cap ReadsOf(p) \cap DOMAIN g)
  BY Zenon
<1>3. \A c \in ReadsOf(p) \ M : o[c] = ReadIn(s, c)
  <2> TAKE c \in ReadsOf(p) \ M
  <2>1. read_matches(c, s[c], o[c])
    BY Zenon
  <2> QED
    BY Zenon, <2>1, ReadMatchesIsFresh
<1>4. \A c \in M : W[c] = MergeThreeWay(g[c], ReadIn(s, c), o[c])
  BY Zenon, <1>2 DEF MergedWrites
<1>5. \A c \in M : W[c] # NoMerge /\ W[c] \in Value
  <2> TAKE c \in M
  <2>1. c \in Cells /\ c \in DOMAIN g /\ c \in ReadsOf(p)
    BY Zenon, <1>1, <1>2
  <2>2. g[c] \in Value /\ o[c] \in Value /\ ReadIn(s, c) \in Value
    BY Zenon, <1>1, <2>1, ViewType
  <2>3. MergeThreeWay(g[c], ReadIn(s, c), o[c]) \in Value \cup {NoMerge}
    <3> HIDE DEF g
    <3> QED
      BY Zenon, <2>2, MergeType
  <2> QED
    BY Zenon, <1>4, <2>3
<1>6. W \in [DOMAIN g -> Value]
  <2>1. \A c \in DOMAIN g : W[c] \in Value
    <3> TAKE c \in DOMAIN g
    <3>1. CASE c \in M
      BY Zenon, <1>5, <3>1
    <3>2. CASE c \notin M
      <4>1. W[c] = g[c]
        BY Zenon, <3>2 DEF MergedWrites
      <4> QED
        BY Zenon, <1>1, <4>1
    <3> QED
      BY Zenon, <3>1, <3>2
  <2>2. W = [c \in DOMAIN g |-> W[c]]
    BY Zenon DEF MergedWrites
  <2> HIDE DEF W
  <2> QED
    BY Zenon, <2>1, <2>2
<1>7. W \in Observation
  BY Zenon, <1>1, <1>6, ObservationFacts
<1> QED
  BY Zenon, <1>2, <1>3, <1>5, <1>7 DEF MergedRun

\* The program writes no map root it has read, so a commit of it merges nothing;
\* with MapCells = {} no program does.
MergesNothing(p) ==
    \A o \in [ReadsOf(p) -> Value] : MapCells \cap ReadsOf(p) \cap DOMAIN Effect(p, o) = {}


\* Every commit of such a program is a run alone.
LEMMA PlainRunsAlone ==
    ASSUME NEW p \in Program, MergesNothing(p),
           NEW s, NEW o \in [ReadsOf(p) -> Value], NEW t,
           MergedRun(s, p, o, t)
    PROVE  o = View(s, p) /\ t = RunAlone(s, p) /\ ~Fails(p, View(s, p))
<1>1. PICK M \in SUBSET (MapCells \cap ReadsOf(p) \cap DOMAIN Effect(p, o)) :
          /\ \A c \in ReadsOf(p) \ M : o[c] = ReadIn(s, c)
          /\ t = Update(s, MergedWrites(s, p, o, M))
  BY Zenon DEF MergedRun
<1>2. M = {}
  BY Zenon, <1>1 DEF MergesNothing
<1>3. \A c \in ReadsOf(p) : o[c] = ReadIn(s, c)
  BY Zenon, <1>1, <1>2
<1>4. o = View(s, p)
  BY Zenon, <1>3 DEF View
<1>5. Effect(p, o) \in [DOMAIN Effect(p, o) -> Value]
  BY Zenon, ObservationFacts, ProgramTypes
<1>6. MergedWrites(s, p, o, M) = Effect(p, o)
  BY Zenon, <1>2, <1>5 DEF MergedWrites
<1>7. t = RunAlone(s, p)
  BY Zenon, <1>1, <1>4, <1>6 DEF RunAlone
<1> QED
  BY Zenon, <1>4, <1>7 DEF MergedRun

\* What a commit leaves of a cell: what it was, what the program wrote, or the merge.
LEMMA MergedCell ==
    ASSUME NEW p \in Program, NEW s \in [Cells -> Row], NEW o \in [ReadsOf(p) -> Value],
           NEW M \in SUBSET (MapCells \cap ReadsOf(p) \cap DOMAIN Effect(p, o)),
           \A c \in M : MergedWrites(s, p, o, M)[c] # NoMerge,
           NEW t, t = Update(s, MergedWrites(s, p, o, M)),
           NEW g, g = Effect(p, o),
           NEW c \in Cells,
           NEW m, m = MergeThreeWay(g[c], ReadIn(s, c), o[c])
    PROVE  /\ c \notin DOMAIN g => t[c] = s[c] /\ ReadIn(t, c) = ReadIn(s, c)
           /\ c \in DOMAIN g /\ c \notin M => t[c] = g[c] /\ ReadIn(t, c) = g[c]
           /\ c \in M => /\ t[c] = m /\ ReadIn(t, c) = m /\ m # NoMerge /\ m \in Value
                         /\ o[c] \in Value
           /\ c \in DOMAIN g => g[c] \in Value
           /\ ReadIn(s, c) \in Value
<1> DEFINE W == MergedWrites(s, p, o, M)
<1>1. g \in [DOMAIN g -> Value] /\ ReadIn(s, c) \in Value
  BY Zenon, ProgramTypes, ObservationFacts, ViewType
<1>2. /\ DOMAIN W = DOMAIN g
      /\ c \in DOMAIN g => W[c] = IF c \in M THEN m ELSE g[c]
  BY Zenon DEF MergedWrites
<1> HIDE DEF W
<1>3. t[c] = IF c \in DOMAIN g THEN W[c] ELSE s[c]
  BY Zenon, <1>2 DEF Update, W
<1>4. Absent \notin Value
  BY Zenon, CellTypes
<1>5. CASE c \notin DOMAIN g
  <2>1. t[c] = s[c] /\ c \notin M
    BY Zenon, <1>3, <1>5
  <2> QED
    BY Zenon, <1>1, <1>5, <2>1 DEF ReadIn
<1>6. CASE c \in DOMAIN g /\ c \notin M
  <2>1. t[c] = g[c] /\ g[c] \in Value
    BY Zenon, <1>1, <1>2, <1>3, <1>6
  <2>2. ReadIn(t, c) = g[c]
    BY Zenon, <1>4, <2>1 DEF ReadIn
  <2> QED
    BY Zenon, <1>1, <1>6, <2>1, <2>2
<1>7. CASE c \in M
  <2>1. c \in DOMAIN g /\ c \in ReadsOf(p)
    BY Zenon, <1>7
  <2>2. t[c] = m /\ W[c] = m /\ g[c] \in Value /\ o[c] \in Value
    BY Zenon, <1>1, <1>2, <1>3, <1>7, <2>1
  <2>3. m # NoMerge
    BY Zenon, <1>7, <2>2 DEF W
  <2>4. m \in Value
    <3>1. m \in Value \cup {NoMerge}
      BY <1>1, <2>2, MergeType
    <3> QED
      BY Zenon, <2>3, <3>1
  <2>5. ReadIn(t, c) = m
    BY Zenon, <1>4, <2>2, <2>4 DEF ReadIn
  <2> QED
    BY Zenon, <1>1, <1>7, <2>1, <2>2, <2>3, <2>4, <2>5
<1> QED
  BY Zenon, <1>5, <1>6, <1>7

\* KeyByKey on one observation, and on one that is alike.
LEMMA KeyByKeyFacts ==
    ASSUME NEW p, NEW Key, NEW at, NEW keys, KeyByKey(p, Key, at, keys),
           NEW o \in [ReadsOf(p) -> Value], ~Fails(p, o), NEW g, g = Effect(p, o)
    PROVE  /\ \A c \in MapCells : c \in DOMAIN g => c \in ReadsOf(p)
           /\ \A c \in MapCells : \A k \in Key :
                 c \in DOMAIN g /\ k \notin keys[c] => at[g[c]][k] = at[o[c]][k]
           /\ \A v \in [ReadsOf(p) -> Value] : Alike(p, at, keys, o, v) =>
                 /\ ~Fails(p, v) /\ DOMAIN Effect(p, v) = DOMAIN g
                 /\ \A c \in DOMAIN g : c \notin MapCells => Effect(p, v)[c] = g[c]
                 /\ \A c \in DOMAIN g : c \in MapCells =>
                       \A k \in keys[c] : at[Effect(p, v)[c]][k] = at[g[c]][k]
<1>1. /\ \A c \in MapCells \cap DOMAIN g :
            /\ c \in ReadsOf(p)
            /\ \A k \in Key \ keys[c] : at[g[c]][k] = at[o[c]][k]
      /\ \A v \in [ReadsOf(p) -> Value] : Alike(p, at, keys, o, v) =>
            /\ ~Fails(p, v)
            /\ DOMAIN Effect(p, v) = DOMAIN g
            /\ \A c \in DOMAIN g :
                  IF c \in MapCells
                  THEN \A k \in keys[c] : at[Effect(p, v)[c]][k] = at[g[c]][k]
                  ELSE Effect(p, v)[c] = g[c]
  BY DEF KeyByKey
<1> QED
  BY <1>1

\* A commit of a program that uses maps key by key leaves every key that is not its own.
LEMMA KeyedLeavesOthers ==
    ASSUME NEW Key, NEW at, NEW keys, MergesByKey(Key, at),
           NEW p \in Program, KeyByKey(p, Key, at, keys),
           NEW s \in [Cells -> Row], NEW o \in [ReadsOf(p) -> Value], NEW t, MergedRun(s, p, o, t),
           NEW c \in MapCells, c \in Cells, NEW k \in Key, k \notin keys[c]
    PROVE  at[ReadIn(t, c)][k] = at[ReadIn(s, c)][k]
<1>1. PICK M \in SUBSET (MapCells \cap ReadsOf(p) \cap DOMAIN Effect(p, o)) :
          /\ \A d \in ReadsOf(p) \ M : o[d] = ReadIn(s, d)
          /\ \A d \in M : MergedWrites(s, p, o, M)[d] # NoMerge
          /\ t = Update(s, MergedWrites(s, p, o, M))
  BY Zenon DEF MergedRun
<1>2. ~Fails(p, o)
  BY Zenon DEF MergedRun
<1> DEFINE g == Effect(p, o)
           m == MergeThreeWay(g[c], ReadIn(s, c), o[c])
<1> HIDE DEF g, m
<1>3. /\ c \notin DOMAIN g => ReadIn(t, c) = ReadIn(s, c)
      /\ c \in DOMAIN g /\ c \notin M => ReadIn(t, c) = g[c]
      /\ c \in M => ReadIn(t, c) = m /\ m # NoMerge /\ o[c] \in Value
      /\ c \in DOMAIN g => g[c] \in Value
      /\ ReadIn(s, c) \in Value
  BY <1>1, MergedCell DEF g, m
<1>4. c \in DOMAIN g => c \in ReadsOf(p) /\ at[g[c]][k] = at[o[c]][k]
  BY <1>2, KeyByKeyFacts DEF g
<1>5. CASE c \notin DOMAIN g
  BY Zenon, <1>3, <1>5
<1>6. CASE c \in DOMAIN g /\ c \notin M
  BY Zenon, <1>1, <1>3, <1>4, <1>6
<1>7. CASE c \in M
  <2>1. c \in DOMAIN g
    BY Zenon, <1>7 DEF g
  <2>2. at[g[c]][k] = at[o[c]][k] /\ m # NoMerge /\ g[c] \in Value /\ o[c] \in Value
    BY Zenon, <1>3, <1>4, <1>7, <2>1
  <2>3. at[m][k] = at[ReadIn(s, c)][k]
    BY <1>3, <2>2 DEF MergesByKey, m
  <2> QED
    BY Zenon, <1>3, <1>7, <2>3
<1> QED
  BY Zenon, <1>5, <1>6, <1>7

\* What the commit of p leaves is key by key what a run alone would, and the views of the
\* two agree where it matters.
RunsByKey(Key, at, keys, p, s, o, t) ==
    /\ ~Fails(p, View(s, p)) /\ SameEntries(Key, at, t, RunAlone(s, p))
    /\ Alike(p, at, keys, o, View(s, p))

\* If moreover the program's own keys still hold what it observed, its commit is a run
\* alone, whatever has become of the other keys.
LEMMA KeyedRunsAlone ==
    ASSUME NEW Key, NEW at, NEW keys, MergesByKey(Key, at),
           NEW p \in Program, KeyByKey(p, Key, at, keys),
           NEW s \in [Cells -> Row], NEW o \in [ReadsOf(p) -> Value], NEW t, MergedRun(s, p, o, t),
           \A c \in MapCells : c \in ReadsOf(p) => \A k \in keys[c] :
               at[o[c]][k] = at[ReadIn(s, c)][k]
    PROVE  RunsByKey(Key, at, keys, p, s, o, t)
<1>1. PICK M \in SUBSET (MapCells \cap ReadsOf(p) \cap DOMAIN Effect(p, o)) :
          /\ \A d \in ReadsOf(p) \ M : o[d] = ReadIn(s, d)
          /\ \A d \in M : MergedWrites(s, p, o, M)[d] # NoMerge
          /\ t = Update(s, MergedWrites(s, p, o, M))
  BY Zenon DEF MergedRun
<1>2. ~Fails(p, o)
  BY Zenon DEF MergedRun
<1> DEFINE v == View(s, p)
           g == Effect(p, o)
           h == Effect(p, v)
           u == RunAlone(s, p)
<1>3. v \in [ReadsOf(p) -> Value] /\ \A c \in ReadsOf(p) : v[c] = ReadIn(s, c)
  BY Zenon, ViewType DEF View
<1>4. h \in [DOMAIN h -> Value]
  BY Zenon, <1>3, ProgramTypes, ObservationFacts
<1>5. \A c \in Cells : u[c] = IF c \in DOMAIN h THEN h[c] ELSE s[c]
  BY Zenon DEF RunAlone, Update
<1> HIDE DEF v, g, h, u
<1>6. Alike(p, at, keys, o, v)
  <2> SUFFICES ASSUME NEW c \in ReadsOf(p), c \in M
               PROVE  /\ c \in MapCells /\ c \in DOMAIN Effect(p, o)
                      /\ \A k \in keys[c] : at[o[c]][k] = at[v[c]][k]
    BY Zenon, <1>1, <1>3 DEF Alike
  <2> QED
    BY Zenon, <1>3
<1>7. /\ ~Fails(p, v) /\ DOMAIN h = DOMAIN g
      /\ \A c \in DOMAIN g : c \notin MapCells => h[c] = g[c]
      /\ \A c \in DOMAIN g : c \in MapCells => \A k \in keys[c] : at[h[c]][k] = at[g[c]][k]
  BY <1>2, <1>3, <1>6, KeyByKeyFacts DEF g, h
<1>8. /\ \A c \in MapCells : c \in DOMAIN g => c \in ReadsOf(p)
      /\ \A c \in MapCells : \A k \in Key :
            c \in DOMAIN g /\ k \notin keys[c] => at[g[c]][k] = at[o[c]][k]
  BY <1>2, KeyByKeyFacts DEF g
<1>9. \A c \in MapCells : \A k \in Key :
            c \in DOMAIN h /\ k \notin keys[c] => at[h[c]][k] = at[v[c]][k]
  BY <1>3, <1>7, KeyByKeyFacts DEF h
<1>10. ASSUME NEW c \in Cells
       PROVE  \/ t[c] = u[c]
              \/ /\ c \in MapCells /\ t[c] \in Value /\ u[c] \in Value
                 /\ \A k \in Key : at[t[c]][k] = at[u[c]][k]
  <2> DEFINE m == MergeThreeWay(g[c], ReadIn(s, c), o[c])
  <2> HIDE DEF m
  <2>1. /\ c \notin DOMAIN g => t[c] = s[c]
        /\ c \in DOMAIN g /\ c \notin M => t[c] = g[c]
        /\ c \in M => t[c] = m /\ m \in Value /\ m # NoMerge /\ o[c] \in Value
        /\ c \in DOMAIN g => g[c] \in Value
        /\ ReadIn(s, c) \in Value
    BY <1>1, MergedCell DEF g, m
  <2>2. c \in DOMAIN g => u[c] = h[c] /\ h[c] \in Value
    BY Zenon, <1>4, <1>5, <1>7
  <2>3. CASE c \notin DOMAIN g
    BY Zenon, <1>5, <1>7, <2>1, <2>3
  <2>4. CASE c \in DOMAIN g /\ c \notin MapCells
    <3>1. c \notin M
      BY Zenon, <2>4
    <3> QED
      BY Zenon, <1>7, <2>1, <2>2, <2>4, <3>1
  <2>5. CASE c \in DOMAIN g /\ c \in MapCells /\ c \notin M
    <3>1. c \in ReadsOf(p)
      BY Zenon, <1>8, <2>5
    <3>2. o[c] = v[c]
      BY Zenon, <1>1, <1>3, <2>5, <3>1
    <3>3. ASSUME NEW k \in Key
          PROVE  at[h[c]][k] = at[g[c]][k]
      <4>1. CASE k \in keys[c]
        BY Zenon, <1>7, <2>5, <4>1
      <4>2. CASE k \notin keys[c]
        <5>1. at[g[c]][k] = at[o[c]][k]
          BY Zenon, <1>8, <2>5, <4>2
        <5>2. at[h[c]][k] = at[v[c]][k]
          BY Zenon, <1>7, <1>9, <2>5, <4>2
        <5> QED
          BY Zenon, <3>2, <5>1, <5>2
      <4> QED
        BY Zenon, <4>1, <4>2
    <3> QED
      BY Zenon, <2>1, <2>2, <2>5, <3>3
  <2>6. CASE c \in M
    <3>1. c \in MapCells /\ c \in ReadsOf(p) /\ c \in DOMAIN g
      BY Zenon, <2>6 DEF g
    <3>2. ASSUME NEW k \in Key
          PROVE  at[h[c]][k] = at[m][k]
      <4>1. v[c] = ReadIn(s, c)
        BY Zenon, <1>3, <3>1
      <4>2. m # NoMerge /\ g[c] \in Value /\ o[c] \in Value
        BY Zenon, <2>1, <2>6, <3>1
      <4>3. /\ at[g[c]][k] = at[o[c]][k] => at[m][k] = at[ReadIn(s, c)][k]
            /\ at[ReadIn(s, c)][k] = at[o[c]][k] => at[m][k] = at[g[c]][k]
        BY ZenonT(40), <2>1, <4>2 DEF MergesByKey, m
      <4>4. CASE k \in keys[c]
        <5>1. at[o[c]][k] = at[ReadIn(s, c)][k]
          BY Zenon, <3>1, <4>4
        <5>2. at[h[c]][k] = at[g[c]][k]
          BY Zenon, <1>7, <3>1, <4>4
        <5> QED
          BY Zenon, <4>3, <5>1, <5>2
      <4>5. CASE k \notin keys[c]
        <5>1. at[g[c]][k] = at[o[c]][k]
          BY Zenon, <1>8, <3>1, <4>5
        <5>2. at[h[c]][k] = at[v[c]][k]
          BY Zenon, <1>7, <1>9, <3>1, <4>5
        <5> QED
          BY Zenon, <4>1, <4>3, <5>1, <5>2
      <4> QED
        BY Zenon, <4>4, <4>5
    <3> QED
      BY Zenon, <2>1, <2>2, <2>6, <3>1, <3>2
  <2> QED
    BY Zenon, <2>3, <2>4, <2>5, <2>6
<1>11. SameEntries(Key, at, t, u)
  BY Zenon, <1>10 DEF SameEntries
<1> QED
  BY Zenon, <1>6, <1>7, <1>11 DEF v, u, RunsByKey

\* Where every mapping has one root, stores with the same entries are the same.
LEMMA SameEntriesSame ==
    ASSUME NEW Key, NEW at, OneRoot(Key, at), NEW s \in [Cells -> Row], NEW t \in [Cells -> Row],
           SameEntries(Key, at, s, t)
    PROVE  s = t
<1>1. \A c \in Cells : s[c] = t[c]
  BY DEF SameEntries, OneRoot
<1> QED
  BY <1>1

\* Cutting a sequence back to a prefix.
LEMMA Truncated ==
    ASSUME NEW S, NEW s \in Seq(S), NEW n \in Nat, n <= Len(s)
    PROVE  /\ SubSeq(s, 1, n) \in Seq(S)
           /\ Len(SubSeq(s, 1, n)) = n
           /\ \A i \in 1 .. n : SubSeq(s, 1, n)[i] = s[i]
OBVIOUS

\* A function on an interval is a sequence, and its prefixes are its restrictions.
LEMMA PrefixOfFunction ==
    ASSUME NEW n \in Nat, NEW m \in 0 .. n, NEW E, NEW f \in [1 .. n -> E]
    PROVE  /\ f \in Seq(E) /\ Len(f) = n
           /\ SubSeq(f, 1, m) = [i \in 1 .. m |-> f[i]]
<1>1. f \in Seq(E) /\ Len(f) = n
  OBVIOUS
<1>2. /\ SubSeq(f, 1, m) \in Seq(E) /\ Len(SubSeq(f, 1, m)) = m
      /\ \A i \in 1 .. m : SubSeq(f, 1, m)[i] = f[i]
  BY <1>1, Truncated
<1> DEFINE g == SubSeq(f, 1, m)
<1> HIDE DEF g
<1>3. g \in Seq(E) /\ Len(g) = m /\ \A i \in 1 .. m : g[i] = f[i]
  BY <1>2 DEF g
<1>4. g = [i \in 1 .. m |-> f[i]]
  BY <1>3
<1> QED
  BY <1>1, <1>4 DEF g
=============================================================================
