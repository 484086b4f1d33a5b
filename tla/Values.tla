------------------------------ MODULE Values ------------------------------
(***************************************************************************)
(* Run-time values of the language and the kernels both executors share    *)
(* (crates/rend/src/value.rs, ops.rs).  A value or a type is a tuple whose *)
(* first component is its variant.  `int' is arbitrary precision; the      *)
(* sized integers, which are all checked in the same way, are represented  *)
(* by u64, whose largest value is the constant MaxU64.                     *)
(***************************************************************************)
EXTENDS Integers, Sequences, SequencesExt, TLC

CONSTANT MaxU64

ASSUME MaxU64Assumption == MaxU64 \in Nat \ {0}

VInt(n)     == <<"int", n>>
VU64(n)     == <<"u64", n>>
VBool(b)    == <<"bool", b>>
VUnit       == <<"unit">>
VRes(n)     == <<"resource", n>>
VArray(s)   == <<"array", s>>
VSet(s)     == <<"set", s>>
VDict(s)    == <<"dict", s>>
VTuple(s)   == <<"tuple", s>>
VStruct(name, fields) == <<"struct", name, fields>>
VEnum(name, variant, payload) == <<"enum", name, variant, payload>>
VPending(h) == <<"pending", h>>

Ok(v)  == [ok |-> TRUE, v |-> v]
Err(k) == [ok |-> FALSE, v |-> <<k>>]

-----------------------------------------------------------------------------
(* Types: <<"int">>, <<"u64">>, <<"bool">>, <<"unit">>, <<"resource">>,     *)
(* <<"array", t>>, <<"set", t>>, <<"dict", k, v>>, <<"tuple", ts>>,          *)
(* <<"struct", name, fields, groups>>, <<"enum", name, variants>>,           *)
(* <<"map", k, v>>, <<"pmap", k, v>>.                                        *)

RECURSIVE default_for(_)
default_for(ty) ==
    CASE ty[1] \in {"int", "u64", "resource"} -> <<ty[1], 0>>
      [] ty[1] = "bool"   -> VBool(FALSE)
      [] ty[1] = "unit"   -> VUnit
      [] ty[1] \in {"array", "set", "dict", "bytes", "pmap", "pbtree", "pvec"} -> <<ty[1], <<>>>>
      [] ty[1] = "tuple"  -> VTuple([i \in DOMAIN ty[2] |-> default_for(ty[2][i])])
      [] ty[1] = "struct" -> VStruct(ty[2], [i \in DOMAIN ty[3] |->
                                 <<ty[3][i][1], default_for(ty[3][i][2])>>])
      [] ty[1] = "enum"   -> VEnum(ty[2], ty[3][1][1],
                                 [i \in DOMAIN ty[3][1][2] |-> default_for(ty[3][1][2][i])])
      [] ty[1] = "map"    -> default_for(ty[3])

\* serialize.rs is_default: what an unset cell may have been read as.
is_default(v) ==
    \/ v = VUnit \/ v = VBool(FALSE)
    \/ v[1] \in {"int", "u64", "resource"} /\ v[2] = 0
    \/ v[1] \in {"array", "bytes", "pmap", "pvec"} /\ v[2] = <<>>

RECURSIVE is_copy(_)
is_copy(ty) ==
    CASE ty[1] \in {"int", "u64", "bool", "unit", "bytes", "interface"} -> TRUE
      [] ty[1] \in {"array", "set"} -> is_copy(ty[2])
      [] ty[1] = "dict"   -> is_copy(ty[2]) /\ is_copy(ty[3])
      [] ty[1] = "tuple"  -> \A i \in DOMAIN ty[2] : is_copy(ty[2][i])
      [] ty[1] = "struct" -> \A i \in DOMAIN ty[3] : is_copy(ty[3][i][2])
      [] ty[1] = "enum"   -> \A i \in DOMAIN ty[3] :
                                \A j \in DOMAIN ty[3][i][2] : is_copy(ty[3][i][2][j])
      [] OTHER -> FALSE

RECURSIVE is_keyable_value(_)
is_keyable_value(v) ==
    CASE v[1] \in {"int", "u64", "bool", "bytes"} -> TRUE
      [] v[1] = "array"  -> \A i \in DOMAIN v[2] : is_keyable_value(v[2][i])
      [] v[1] = "struct" -> \A i \in DOMAIN v[3] : is_keyable_value(v[3][i][2])
      [] v[1] = "enum"   -> \A i \in DOMAIN v[4] : is_keyable_value(v[4][i])
      [] OTHER -> FALSE

-----------------------------------------------------------------------------
Abs(n) == IF n < 0 THEN -n ELSE n

\* Rust's division: towards zero; the remainder has the sign of the dividend.
Quot(a, b) == LET q == Abs(a) \div Abs(b) IN IF (a < 0) = (b < 0) THEN q ELSE -q

Compare(op, a, b) ==
    CASE op = "<" -> a < b    [] op = ">" -> a > b
      [] op = "<=" -> a <= b  [] op = ">=" -> a >= b
      [] op = "==" -> a = b   [] op = "!=" -> a # b

Comparisons == {"<", ">", "<=", ">=", "==", "!="}

ArithOps    == {"+", "-", "*", "/", "%"}

Arith(op, a, b) ==
    CASE op = "+" -> a + b  [] op = "-" -> a - b  [] op = "*" -> a * b
      [] op = "/" -> Quot(a, b)  [] op = "%" -> a - b * Quot(a, b)

\* ops.rs bigint_arith: no overflow, division by zero is an error.
bigint_arith(op, a, b) ==
    CASE op \in Comparisons -> Ok(VBool(Compare(op, a, b)))
      [] op \in ArithOps    -> IF op \in {"/", "%"} /\ b = 0 THEN Err("div_zero")
                               ELSE Ok(VInt(Arith(op, a, b)))
      [] OTHER -> Err("type")

\* A result of a sized integer: checked, never wrapped.
Sized(n) == IF n \in 0..MaxU64 THEN Ok(VU64(n)) ELSE Err("overflow")

\* resource(): an i64.
ToResource(v) ==
    IF v[1] # "int" THEN Err("type")
    ELSE IF v[2] \in -((MaxU64 + 1) \div 2) .. MaxU64 \div 2 THEN Ok(VRes(v[2])) ELSE Err("range")

\* Plain `+' on u64 as a release build computes it.
Wrap(n) == n % (MaxU64 + 1)

\* ops.rs int_arith!: checked arithmetic of a sized integer.
int_arith(op, a, b) ==
    CASE op \in Comparisons -> Ok(VBool(Compare(op, a, b)))
      [] op \in ArithOps    -> IF op \in {"/", "%"} /\ b = 0 THEN Err("div_zero")
                               ELSE Sized(Arith(op, a, b))
      [] OTHER -> Err("type")

eval_binary(op, l, r) ==
    IF l[1] # r[1] THEN Err("type")
    ELSE IF l[1] = "int" THEN bigint_arith(op, l[2], r[2])
    ELSE IF l[1] = "u64" THEN int_arith(op, l[2], r[2])
    ELSE CASE op = "==" -> Ok(VBool(l = r))
           [] op = "!=" -> Ok(VBool(l # r))
           [] op = "&&" /\ l[1] = "bool" -> Ok(VBool(l[2] /\ r[2]))
           [] op = "||" /\ l[1] = "bool" -> Ok(VBool(l[2] \/ r[2]))
           [] OTHER -> Err("type")

eval_unary(op, v) ==
    CASE op = "-" /\ v[1] = "int" -> Ok(VInt(-v[2]))
      [] op = "-" /\ v[1] = "u64" -> Sized(-v[2])
      [] op = "!" /\ v[1] = "bool" -> Ok(VBool(~v[2]))
      [] OTHER -> Err("type")

\* ops.rs inc: the step of a counting loop.
inc(v) ==
    CASE v[1] = "int" -> Ok(VInt(v[2] + 1))
      [] v[1] = "u64" -> Sized(v[2] + 1)
      [] OTHER -> Err("type")

\* ops.rs convert, to `int' or to the sized integer.
convert(v, target) ==
    IF v[1] \notin {"int", "u64"} THEN Err("type")
    ELSE IF target = "int" THEN Ok(VInt(v[2])) ELSE Sized(v[2])

-----------------------------------------------------------------------------
(* Collection builtins of ops::call_builtin, named as in the language.      *)

Holds(seq, v) == \E i \in DOMAIN seq : seq[i] = v
KeyAt(pairs, k) == SelectInSeq(pairs, LAMBDA p : p[1] = k)

\* A dictionary is a sequence of pairs in insertion order, one per key.
PutPair(pairs, k, v) ==
    IF KeyAt(pairs, k) = 0 THEN Append(pairs, <<k, v>>)
                           ELSE [pairs EXCEPT ![KeyAt(pairs, k)] = <<k, v>>]

set_builtin(name, a) ==
    IF a[1][1] # "set" THEN Err("type") ELSE
    CASE name = "set_insert" -> Ok(IF Holds(a[1][2], a[2]) THEN a[1]
                                   ELSE VSet(Append(a[1][2], a[2])))
      [] name = "set_remove" -> Ok(VSet(SelectSeq(a[1][2], LAMBDA e : e # a[2])))
      [] name = "set_contains" -> Ok(VBool(Holds(a[1][2], a[2])))
      [] name = "set_len" -> Ok(VInt(Len(a[1][2])))

dict_builtin(name, a) ==
    IF a[1][1] # "dict" THEN Err("type") ELSE
    CASE name = "dict_set" -> Ok(VDict(PutPair(a[1][2], a[2], a[3])))
      [] name = "dict_remove" -> Ok(VDict(SelectSeq(a[1][2], LAMBDA p : p[1] # a[2])))
      [] name = "dict_get" -> Ok(IF KeyAt(a[1][2], a[2]) = 0 THEN a[3]
                                 ELSE a[1][2][KeyAt(a[1][2], a[2])][2])
      [] name = "dict_has" -> Ok(VBool(KeyAt(a[1][2], a[2]) # 0))
      [] name = "dict_len" -> Ok(VInt(Len(a[1][2])))

\* sum, max and min fold with the checked kernels and stop at the first error.
Fold(op, acc, elems) ==
    FoldLeft(LAMBDA r, e :
                 IF ~r.ok THEN r
                 ELSE IF op = "sum" THEN eval_binary("+", r.v, e)
                 ELSE LET c == eval_binary(IF op = "max" THEN ">" ELSE "<", e, r.v)
                      IN  IF ~c.ok THEN c ELSE IF c.v[2] THEN Ok(e) ELSE r,
             Ok(acc), elems)

aggregate(name, a) ==
    IF a[1][1] # "array" THEN Err("type")
    ELSE IF name = "sum" THEN Fold("sum", a[2], a[1][2])
    ELSE IF a[1][2] = <<>> THEN Ok(a[2])
    ELSE Fold(name, a[1][2][1], Tail(a[1][2]))

assert_builtin(a) ==
    IF a[1][1] # "bool" THEN Err("type")
    ELSE IF a[1][2] THEN Ok(VUnit) ELSE Err("assert")

\* The digits of a packed key: fixed width, most significant first, so that a
\* sized integer is one digit; a descending component is complemented.
bytes_builtin(name, a) ==
    CASE name = "to_be_bytes" /\ a[1][1] = "u64" -> Ok(<<"bytes", <<a[1][2]>>>>)
      [] name = "bit_not_bytes" /\ a[1][1] = "bytes" ->
             Ok(<<"bytes", [i \in DOMAIN a[1][2] |-> MaxU64 - a[1][2][i]]>>)
      [] name = "bytes_concat" /\ a[1][1] = "bytes" /\ a[2][1] = "bytes" ->
             Ok(<<"bytes", a[1][2] \o a[2][2]>>)
      [] OTHER -> Err("type")

SetBuiltins  == {"set_insert", "set_remove", "set_contains", "set_len"}
DictBuiltins == {"dict_set", "dict_remove", "dict_get", "dict_has", "dict_len"}
Aggregates   == {"sum", "max", "min"}
BytesBuiltins == {"to_be_bytes", "bit_not_bytes", "bytes_concat"}
Builtins     == SetBuiltins \cup DictBuiltins \cup Aggregates \cup BytesBuiltins \cup {"assert"}

call_builtin(name, a) ==
    CASE name \in SetBuiltins  -> set_builtin(name, a)
      [] name \in DictBuiltins -> dict_builtin(name, a)
      [] name \in Aggregates   -> aggregate(name, a)
      [] name \in BytesBuiltins -> bytes_builtin(name, a)
      [] name = "assert"       -> assert_builtin(a)
      [] OTHER -> Err("type")
=============================================================================
