----------------------------- MODULE CellStore -----------------------------
(***************************************************************************)
(* Cells, and programs that run on them, as the commit paths see them.     *)
(*                                                                         *)
(* A store maps every cell to a row or to Absent.  A program is abstracted *)
(* to the cells it reads and what it computes from them; what it observed  *)
(* is its read set, what it computed its write set.  A persistent map is   *)
(* the value of its root cell: its node cells are content addressed, hence *)
(* immutable, and stand for nothing more.                                  *)
(***************************************************************************)
EXTENDS Naturals, Sequences, FiniteSets

CONSTANTS
    Cells,                  \* state cells
    MapCells,               \* those that hold the root of a persistent map
    UnlistedDefault,        \* cells whose type's default is_default() omits
    DefaultOf,              \* DefaultOf[c]: Value::default_for of the cell's type
    Value,                  \* cell values
    Absent,                 \* no row
    Program,                \* contract entry points with their arguments
    ReadsOf(_),             \* cells a program reads
    Effect(_, _),           \* Effect(p, obs): the cells it writes, and the values
    Fails(_, _),            \* the program reverts on these observations
    MergeThreeWay(_, _, _), \* merge_three_way(ours, live, ancestor)
    NoMerge                 \* its None

Row == Value \cup {Absent}
Observation == UNION {[S -> Value] : S \in SUBSET Cells}

\* What the code around the model guarantees of the constants: every cell type
\* has a default, a program reads and writes cells of the namespace, and a merge
\* of map roots is a map root.
ASSUME CellTypes == Absent \notin Value /\ DefaultOf \in [Cells -> Value]

ASSUME ProgramTypes ==
    \A p \in Program :
        /\ ReadsOf(p) \subseteq Cells
        /\ \A o \in [ReadsOf(p) -> Value] : Effect(p, o) \in Observation

ASSUME MergeType ==
    \A ours, live, ancestor \in Value :
        MergeThreeWay(ours, live, ancestor) \in Value \cup {NoMerge}

Fresh == [c \in Cells |-> Absent]

\* Installing the writes g in store f.
Update(f, g) == [c \in Cells |-> IF c \in DOMAIN g THEN g[c] ELSE f[c]]

\* What a read of cell c returns in store s: a missing row reads as the default
\* of the cell's type.
ReadIn(s, c) == IF s[c] = Absent THEN DefaultOf[c] ELSE s[c]

\* Mutant: an unset cell matches no recorded value.
is_default_never(c, v) == FALSE

is_default(c, v) == v = DefaultOf[c] /\ c \notin UnlistedDefault

\* Validation of one recorded read against the row it finds.
read_matches(c, on_disk, expected) ==
    IF on_disk = Absent THEN is_default(c, expected) ELSE on_disk = expected

(***************************************************************************)
(* Running a program alone.                                                *)
(***************************************************************************)

View(s, p) == [c \in ReadsOf(p) |-> ReadIn(s, c)]
RunAlone(s, p) == Update(s, Effect(p, View(s, p)))

(***************************************************************************)
(* Committing what a program computed earlier.                             *)
(***************************************************************************)

\* What a program that observed o writes to s, merging the cells of M.
MergedWrites(s, p, o, M) ==
    [c \in DOMAIN Effect(p, o) |->
        IF c \in M THEN MergeThreeWay(Effect(p, o)[c], ReadIn(s, c), o[c])
                   ELSE Effect(p, o)[c]]

\* The program succeeded on o, and its commit turns s into t: what it observed
\* still holds, but for map roots that it writes and that can be merged.
MergedRun(s, p, o, t) ==
    /\ ~Fails(p, o)
    /\ \E M \in SUBSET (MapCells \cap ReadsOf(p) \cap DOMAIN Effect(p, o)) :
          /\ \A c \in ReadsOf(p) \ M : o[c] = ReadIn(s, c)
          /\ \A c \in M : MergedWrites(s, p, o, M)[c] # NoMerge
          /\ t = Update(s, MergedWrites(s, p, o, M))

(***************************************************************************)
(* Programs that use a map key by key.  at[v] is the mapping the root v    *)
(* stands for, keys[c] are the keys of map c that are the program's own.   *)
(***************************************************************************)

\* What merge_three_way is to do, and MergeLookup of CollectionProofs says it does:
\* under a key one side left alone the merge holds what the other side does.
MergesByKey(Key, at) ==
    \A ours, live, ancestor \in Value :
        LET merged == MergeThreeWay(ours, live, ancestor)
        IN  merged # NoMerge => \A k \in Key :
               /\ at[ours][k] = at[ancestor][k] => at[merged][k] = at[live][k]
               /\ at[live][k] = at[ancestor][k] => at[merged][k] = at[ours][k]

\* Two stores differ at most in the roots of maps that stand for the same mapping.
SameEntries(Key, at, s, t) ==
    \A c \in Cells :
        \/ s[c] = t[c]
        \/ /\ c \in MapCells /\ {s[c], t[c]} \subseteq Value
           /\ \A k \in Key : at[s[c]][k] = at[t[c]][k]

\* Every mapping has one root: so it is of maps that no entry is removed from.
OneRoot(Key, at) == \A v, w \in Value : (\A k \in Key : at[v][k] = at[w][k]) => v = w

\* The program finds the same in o and v, but for keys that are not its own of maps
\* that it writes.
Alike(p, at, keys, o, v) ==
    \A c \in ReadsOf(p) :
        \/ o[c] = v[c]
        \/ /\ c \in MapCells /\ c \in DOMAIN Effect(p, o)
           /\ \A k \in keys[c] : at[o[c]][k] = at[v[c]][k]

\* A program that reads the root of every map it writes, changes only its own keys
\* and depends on no others: puts, removals and updates of single entries.
KeyByKey(p, Key, at, keys) ==
    \A o \in [ReadsOf(p) -> Value] : ~Fails(p, o) =>
        /\ \A c \in MapCells \cap DOMAIN Effect(p, o) :
              /\ c \in ReadsOf(p)
              /\ \A k \in Key \ keys[c] : at[Effect(p, o)[c]][k] = at[o[c]][k]
        /\ \A v \in [ReadsOf(p) -> Value] : Alike(p, at, keys, o, v) =>
              /\ ~Fails(p, v)
              /\ DOMAIN Effect(p, v) = DOMAIN Effect(p, o)
              /\ \A c \in DOMAIN Effect(p, o) :
                    IF c \in MapCells
                    THEN \A k \in keys[c] : at[Effect(p, v)[c]][k] = at[Effect(p, o)[c]][k]
                    ELSE Effect(p, v)[c] = Effect(p, o)[c]
=============================================================================
