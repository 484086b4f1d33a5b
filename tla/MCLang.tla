------------------------------- MODULE MCLang -------------------------------
(***************************************************************************)
(* Programs for Execution.  One module holds all functions; a job calls    *)
(* one of them while other transactions change cells it reads.             *)
(***************************************************************************)
EXTENDS Execution

E == INSTANCE Engine

\* Abbreviations for syntax trees.
N(n) == <<"Int", n>>
X(name) == <<"Ident", name>>
Op(op, l, r) == <<"Binary", op, l, r>>
At(state, k) == <<"Index", X(state), k>>
Dot(e, f) == <<"Field", e, f>>
F(name, args) == <<"Call", name, args>>
LetS(name, e) == <<"Let", name, e>>
Set(target, e) == <<"Assign", target, e>>
Ret(e) == <<"Return", <<e>>>>
Blk(stmts) == <<stmts, <<>>>>
IfS(c, then) == <<"If", c, Blk(then), <<"None">>>>
IfElse(c, then, else) == <<"If", c, Blk(then), <<"Else", Blk(else)>>>>
Add(l, r) == Op("+", l, r)

Fn(name, params, stmts) ==
    [name |-> name, params |-> params, body |-> Blk(stmts), nore |-> FALSE, entry |-> TRUE,
     view |-> FALSE, pure |-> FALSE, ret |-> <<"int">>,
     types |-> [i \in DOMAIN params |-> <<"int">>], modifiers |-> <<>>]
Using(f, modifiers) == [f EXCEPT !.modifiers = modifiers]
View(f) == [f EXCEPT !.view = TRUE]
PureFn(f) == [f EXCEPT !.pure = TRUE]
Implicit(f, e) == [f EXCEPT !.body[2] = <<e>>]

TInt == <<"int">>
TU64 == <<"u64">>
TResource == <<"resource">>
TPoint == <<"struct", "P", <<<<"x", TInt>>, <<"y", TInt>>, <<"z", TInt>>>>, <<"", "g", "g">>>>
TUser  == <<"struct", "U", <<<<"id", TU64>>, <<"age", TU64>>>>, <<"", "">>>>

TOpt   == <<"enum", "Opt", <<<<"None", <<>>>>, <<"Some", <<TInt>>>>>>>>
U(n) == <<"U64", n>>
Arr(es) == <<"Array", es>>
For(var, iter, stmts) == <<"For", var, iter, Blk(stmts), <<>>>>
Require(e) == <<"Expr", F("assert", <<e>>)>>
AddTo(name, e) == Set(X(name), Add(X(name), e))
EmitS(ev, e) == <<"Emit", <<"StructLit", ev, <<<<"n", e>>>>>>>>
User(id, age) == <<"StructLit", "U", <<<<"age", age>>, <<"id", id>>>>>>
Each(var, iter) == <<"For", var, iter>>

Functions == <<
  \* locals, branches, calls
  View(Fn("total", <<>>, <<Ret(Add(X("a"), X("b")))>>)),
  PureFn(Fn("double", <<"n">>, <<Ret(Op("*", X("n"), N(2)))>>)),
  Fn("move", <<"n">>, <<Set(X("a"), Op("-", X("a"), X("n"))), Set(X("b"), Add(X("b"), X("n"))),
                        Ret(F("total", <<>>))>>),
  Fn("branch", <<>>, <<LetS("x", X("a")),
                       IfS(Op("<", X("b"), X("x")), <<Set(X("b"), X("x")), Ret(F("double", <<X("x")>>))>>),
                       Ret(X("x"))>>),
  \* loops
  Fn("loops", <<>>,
     <<LetS("i", N(0)), LetS("acc", N(0)),
       <<"While", Op("<", X("i"), N(4)),
         Blk(<<AddTo("i", N(1)), IfS(Op("==", X("i"), N(2)), <<<<"Continue">>>>),
               IfS(Op(">", X("acc"), N(5)), <<<<"Break">>>>), AddTo("acc", At("m", X("i")))>>)>>,
       Ret(X("acc"))>>),
  View(Fn("bal", <<"k">>, <<Ret(At("m", X("k")))>>)),
  View(Fn("prefetched", <<>>,
     <<LetS("acc", N(0)),
       For("k", Arr(<<N(1), N(2)>>), <<AddTo("acc", Op("*", At("m", X("k")), F("bal", <<X("k")>>)))>>),
       Ret(X("acc"))>>)),
  Fn("ranges", <<>>,
     <<LetS("acc", N(0)),
       <<"ForRange", "i", N(0), N(2), TRUE, Blk(<<AddTo("acc", Op("*", X("i"), X("a")))>>)>>,
       <<"For", "x", X("s"), Blk(<<AddTo("acc", X("x"))>>), <<U(1)>>>>,
       For("x", X("v"), <<AddTo("acc", X("x")), Set(At("m", X("x")), X("acc"))>>),
       For("x", X("t"), <<IfS(Op(">", X("x"), N(3)), <<<<"Break">>>>), AddTo("acc", X("x"))>>),
       Ret(X("acc"))>>),
  Fn("comps", <<>>,
     <<LetS("l", <<"ListComp", Op("*", X("x"), X("x")), <<Each("x", X("v")), <<"If", Op(">", X("x"), N(1))>>>>>>),
       LetS("u", <<"SetComp", At("m", X("k")), <<Each("k", Arr(<<N(1), N(2), N(3)>>))>>>>),
       LetS("d", <<"DictComp", X("x"), Add(X("x"), X("y")), <<Each("x", X("s")), Each("y", X("l"))>>>>),
       Ret(<<"TupleLit", <<X("l"), X("u"), X("d"), F("sum", <<X("l"), N(0)>>)>>>>)>>),
  \* structs, groups, enums, tuples, sets and dictionaries
  Fn("points", <<>>,
     <<LetS("p", X("pt")), Set(Dot(X("p"), "x"), Add(Dot(X("p"), "x"), Dot(X("p"), "z"))),
       Set(X("pt"), X("p")), Set(Dot(X("pt"), "x"), Add(Dot(X("pt"), "x"), N(1))),
       Ret(Add(Dot(X("p"), "y"), Dot(X("pt"), "x")))>>),
  Fn("enums", <<>>,
     <<LetS("r", <<"Match", X("o"), <<<<"Some", <<"n">>, Add(X("n"), X("a"))>>, <<"_", <<>>, N(0)>>>>, "Opt">>),
       Set(X("o"), <<"EnumCtor", "Opt", "Some", <<Add(X("r"), N(0))>>>>), Ret(X("r"))>>),
  Fn("values", <<>>,
     <<<<"LetTuple", <<"x", "y">>, <<"TupleLit", <<X("a"), <<"Unary", "-", X("b")>>>>>>>>,
       LetS("z", <<"SetLit", <<X("a"), X("b"), X("x")>>>>),
       LetS("d", <<"DictLit", <<<<X("x"), X("y")>>, <<N(2), X("b")>>>>>>),
       LetS("w", <<"Pipe", F("dict_get", <<X("d"), X("x"), N(0)>>), Add(<<"Prev">>, F("len", <<X("z")>>))>>),
       LetS("q", F("unwrap", <<F("resource", <<Add(X("w"), X("limit"))>>)>>)),
       Require(Op("!=", F("u64", <<X("q")>>), F("block_number", <<>>))),
       Ret(<<"TupleIndex", <<"TupleLit", <<X("y"), <<"Block", <<<<LetS("e", X("q"))>>, <<F("u64", <<X("e")>>)>>>>>>>>>>, 2>>)>>),
  \* persistent collections and indexes
  Fn("collect", <<"k">>,
     <<Set(At("s", X("k")), Add(At("s", N(1)), X("a"))),
       IfS(F("pmap_contains", <<X("s"), N(2)>>), <<<<"Delete", At("s", N(2))>>>>),
       LetS("j", F("u64", <<X("k")>>)), Set(At("t", X("j")), At("t", U(1))), <<"Delete", At("t", U(3))>>,
       LetS("i", F("pvec_push", <<X("v"), X("k")>>)), Set(At("v", N(0)), At("v", N(1))),
       Ret(<<"TupleLit", <<F("pmap_entries", <<X("s")>>), F("pbtree_range", <<X("t"), U(1), U(2)>>),
                           F("pvec_to_array", <<X("v")>>), F("pbtree_contains", <<X("t"), X("j")>>),
                           F("pmap_keys", <<X("s")>>), F("pmap_values", <<X("s")>>), F("pvec_len", <<X("v")>>),
                           X("i")>>>>)>>),
  Fn("join", <<"id", "age">>, <<Set(At("users", X("id")), User(X("id"), X("age"))), Ret(N(0))>>),
  Fn("leave", <<"id">>, <<<<"Delete", At("users", X("id"))>>, Ret(N(0))>>),
  Fn("rejoin", <<>>, <<<<"Expr", F("leave", <<U(1)>>)>>, Set(At("users", U(2)), User(U(1), U(3))),
                       Set(At("users", U(3)), User(U(3), U(3))), Ret(At("by_age", U(3)))>>),
  Fn("clash", <<>>, <<Set(At("users", U(2)), User(U(1), U(3))), Ret(N(0))>>),
  \* legs and events
  Fn("legs", <<>>,
     <<<<"Parallel", <<Set(X("a"), Add(X("b"), N(1))), LetS("y", Add(X("a"), X("b"))),
                       Set(At("m", N(1)), X("b"))>>>>, Ret(X("y"))>>),
  Fn("slots", <<>>,
     <<LetS("ids", <<"Reserve", N(2), "ctr">>), LetS("out", <<"ArrayAlloc", TInt, F("len", <<X("ids")>>)>>),
       <<"ParallelForTo", "x", "i", X("ids"), "out",
         <<<<LetS("n", F("i64", <<X("x")>>)), IfS(Op("==", X("n"), N(2)), <<<<"Continue">>>>), AddTo("b", X("n"))>>,
           <<Add(Add(X("n"), F("i64", <<X("i")>>)), X("b"))>>>>>>,
       Ret(<<"Index", X("out"), N(0)>>)>>),
  Fn("on_e1", <<"e">>, <<Set(X("a"), Add(X("a"), Dot(X("e"), "n"))), Ret(N(0))>>),
  Fn("on_e2", <<"e">>, <<Set(X("b"), Add(X("a"), X("b"))), EmitS("G", X("b")), Ret(N(0))>>),
  Fn("on_g", <<"e">>, <<Set(At("m", Dot(X("e"), "n")), N(1))>>),
  Fn("events", <<>>, <<EmitS("E", X("b")), EmitS("H", N(1)), Ret(X("a"))>>),
  \* reads on both sides of a pure call; a read before and in a branch
  Fn("reorder", <<>>, <<LetS("x", X("a")), LetS("z", F("double", <<N(7)>>)), LetS("y", X("b")),
                        Ret(Add(X("x"), X("y")))>>),
  Fn("torn", <<>>, <<LetS("x", X("a")),
                     IfS(<<"Bool", TRUE>>, <<LetS("y", X("a")), LetS("z", X("b")), Ret(Add(X("x"), X("y")))>>),
                     Ret(N(0))>>),
  \* calls between modules, re-entry, exhaustion
  Fn("across", <<>>, <<LetS("x", <<"CallMod", "double", <<X("a")>>>>), LetS("i", <<"Bind", "Bank", <<N(0)>>>>),
                       Ret(Add(X("x"), <<"DynCall", "i", "total", <<>>>>))>>),
  Fn("direct", <<>>, <<LetS("x", F("double", <<X("a")>>)), Ret(Add(X("x"), F("total", <<>>)))>>),
  [Fn("once", <<"n">>, <<IfS(Op("==", X("n"), N(0)), <<Ret(X("a"))>>), EmitS("R", Op("-", X("n"), N(1))), Ret(X("b"))>>)
      EXCEPT !.nore = TRUE],
  Fn("on_r", <<"e">>, <<Ret(F("once", <<Dot(X("e"), "n")>>))>>),
  \* resources: moved through a binding, a call and both branches; moved twice
  [Fn("mint", <<"n">>, <<Ret(F("resource", <<X("n")>>))>>) EXCEPT !.ret = TResource],
  [Fn("burn", <<"r">>, <<Ret(F("unwrap", <<X("r")>>))>>) EXCEPT !.types = <<TResource>>],
  Fn("spend", <<>>,
     <<LetS("r", F("mint", <<X("a")>>)), LetS("q", X("r")), LetS("x", N(0)),
       IfElse(Op("<", X("b"), X("a")), <<Set(X("x"), F("burn", <<X("q")>>))>>,
              <<Set(X("x"), Add(N(1), F("unwrap", <<X("q")>>)))>>),
       LetS("s2", F("resource", <<X("b")>>)), Ret(Add(X("x"), F("burn", <<X("s2")>>)))>>),
  Fn("spend_twice", <<>>,
     <<LetS("r", F("mint", <<X("a")>>)), LetS("x", N(0)),
       IfElse(Op("<", X("b"), X("a")), <<Set(X("x"), F("burn", <<X("r")>>))>>, <<>>),
       Ret(Add(X("x"), F("burn", <<X("r")>>)))>>),
  \* what classify does not see: an implicit return that reads, one that writes, and
  \* a function with the name of a builtin
  View(Implicit(Fn("peek", <<>>, <<>>), F("total", <<>>))),
  View(Implicit(Fn("settle", <<>>, <<LetS("x", N(1))>>), F("move", <<X("x")>>))),
  Fn("max", <<"n">>, <<Set(X("a"), X("n")), Ret(X("n"))>>),
  View(Fn("cap", <<>>, <<Ret(F("max", <<N(3)>>))>>)),
  \* modifiers: code before and after a body that may return early, and the same written out
  Using(Fn("guarded", <<"n">>, <<IfS(Op("==", X("n"), X("b")), <<Ret(X("n"))>>), Set(X("a"), Op("-", X("a"), X("n")))>>),
        <<<<"count", <<>>>>, <<"atleast", <<Add(X("n"), N(1))>>>>>>),
  Fn("by_hand", <<"n">>,
     <<Set(At("m", N(1)), Add(At("m", N(1)), N(1))), Require(Op(">", Add(X("a"), X("b")), Add(X("n"), N(1)))),
       IfS(Op("==", X("n"), X("b")), <<Ret(X("n"))>>), Set(X("a"), Op("-", X("a"), X("n"))),
       AddTo("b", Add(X("n"), N(1))), Ret(X("a"))>>),
  Fn("forever", <<>>, <<<<"While", <<"Bool", TRUE>>, Blk(<<>>)>>, Ret(N(0))>>),
  Fn("spin", <<>>, <<<<"Parallel", <<<<"Expr", F("forever", <<>>)>>, Set(X("a"), X("b"))>>>>, Ret(N(0))>>)
>>

MCArtifact ==
    LET mod == [fns |-> [n \in {Functions[i].name : i \in DOMAIN Functions} |->
                           Functions[SelectInSeq(Functions, LAMBDA f : f.name = n)]],
               states |-> [a |-> TInt, b |-> TInt, m |-> <<"map", TInt, TInt>>, pt |-> TPoint,
                           s |-> <<"pmap", TInt, TInt>>, t |-> <<"pbtree", TU64, TInt>>, v |-> <<"pvec", TInt>>,
                           users |-> <<"pmap", TU64, TUser>>, by_age |-> <<"pmap", TU64, <<"array", TU64>>>>,
                           by_rank |-> <<"pbtree", <<"bytes">>, <<"array", TU64>>>>, by_key |-> <<"pmap", TU64, TU64>>,
                           by_id |-> <<"pbtree", TU64, TU64>>, ctr |-> TU64, o |-> TOpt],
               modifiers |-> [count |-> [params |-> <<>>,
                                         body |-> <<Set(At("m", N(1)), Add(At("m", N(1)), N(1))), <<"Placeholder">>>>],
                              atleast |-> [params |-> <<"k">>,
                                           body |-> <<Require(Op(">", Add(X("a"), X("b")), X("k"))), <<"Placeholder">>,
                                                      AddTo("b", X("k")), Ret(X("a"))>>]],
               consts |-> [limit |-> N(0)],
               structs |-> [P |-> <<"x", "y", "z">>, U |-> <<"id", "age">>, E |-> <<"n">>, G |-> <<"n">>, H |-> <<"n">>,
                           R |-> <<"n">>],
               enums |-> [Opt |-> <<"None", "Some">>],
               indexes |-> <<[name |-> "by_age", on |-> "users", kind |-> "multi",
                              fields |-> <<[path |-> <<"age">>, desc |-> FALSE]>>],
                             [name |-> "by_id", on |-> "users", kind |-> "unique",
                              fields |-> <<[path |-> <<"id">>, desc |-> FALSE]>>],
                             [name |-> "by_key", on |-> "users", kind |-> "unique",
                              fields |-> <<[path |-> <<"id">>, desc |-> FALSE]>>],
                             [name |-> "by_rank", on |-> "users", kind |-> "multi",
                              fields |-> <<[path |-> <<"age">>, desc |-> TRUE], [path |-> <<"age">>, desc |-> FALSE]>>]>>,
               handlers |-> [E |-> <<"on_e1", "on_e2">>, G |-> <<"on_g">>, R |-> <<"on_r", "on_g">>],
               ifaces |-> [Bank |-> <<[name |-> "total", params |-> <<>>, ret |-> TInt, pure |-> FALSE, view |-> TRUE]>>],
               context |-> [block_number |-> VU64(7)],
               readers |-> {"total"}]
    IN  E!compile_single(mod)

\* A collection with the cells of its nodes.
Planted(state, kind, e) == (<<state>> :> <<kind, e>>)
                           @@ (IF kind = "pvec" THEN VecCell(e) ELSE NodeCell(e)) :> <<"bytes", e>>
U2I(f) == [k \in {VU64(i) : i \in DOMAIN f} |-> VInt(f[k[2]])]
I2I(f) == [k \in {VInt(i) : i \in DOMAIN f} |-> VInt(f[k[2]])]
VUser(id, age) == VStruct("U", <<<<"id", VU64(id)>>, <<"age", VU64(age)>>>>)
Cell(c, v) == c :> VInt(v)
\* The indexes of users of age 2.
Indexed(ids) ==
    LET list == VArray([i \in DOMAIN ids |-> VU64(ids[i])])
        unique == [k \in {VU64(ids[i]) : i \in DOMAIN ids} |-> k]
    IN  Planted("by_age", "pmap", VU64(2) :> list) @@ Planted("by_rank", "pbtree", <<"bytes", <<MaxU64 - 2, 2>>>> :> list)
        @@ Planted("by_id", "pbtree", unique) @@ Planted("by_key", "pmap", unique)

MCStore == Cell(<<"a">>, 2) @@ Cell(<<"b">>, 1) @@ Cell(<<"m", VInt(1)>>, 5) @@ (<<"ctr">> :> VU64(1))
           @@ Cell(<<"pt", "x">>, 1)
           @@ (<<"pt", "g">> :> VStruct("g", <<<<"y", VInt(2)>>, <<"z", VInt(3)>>>>))
           @@ (<<"o">> :> VEnum("Opt", "Some", <<VInt(3)>>))
           @@ Planted("s", "pmap", I2I(<<4, 5>>)) @@ Planted("t", "pbtree", U2I(<<2, 3, 4>>))
           @@ Planted("v", "pvec", <<VInt(1), VInt(2)>>)
           @@ Planted("users", "pmap", VU64(1) :> VUser(1, 2))
           @@ Indexed(<<1>>)

\* What a transaction that inserts user 3 commits.
Joined == Planted("users", "pmap", (VU64(1) :> VUser(1, 2)) @@ (VU64(3) :> VUser(3, 2)))
          @@ Indexed(<<1, 3>>)

\* The call, with and without the optimizer, beside one of the other commits.
Plain(fn, args, other) == [fn |-> fn, as |-> fn, args |-> args, opt |-> FALSE, other |-> other]
Job(fn, args, other) == {[Plain(fn, args, other) EXCEPT !.opt = o] : o \in BOOLEAN}

MCJobs ==
    Job("move", <<VInt(1)>>, {Cell(<<"a">>, 5), Cell(<<"b">>, 4)})
    \cup Job("branch", <<>>, {Cell(<<"a">>, 0), Cell(<<"b">>, 4)})
    \cup Job("loops", <<>>, {Cell(<<"m", VInt(3)>>, 2)})
    \cup Job("prefetched", <<>>, {Cell(<<"m", VInt(2)>>, 2)})
    \cup Job("ranges", <<>>, {Planted("s", "pmap", I2I(<<1>>)), Planted("v", "pvec", <<VInt(3)>>)})
    \cup Job("comps", <<>>, {Planted("v", "pvec", <<VInt(3)>>), Cell(<<"m", VInt(3)>>, 5)})
    \cup Job("points", <<>>, {Cell(<<"pt", "x">>, 7)})
    \cup Job("enums", <<>>, {Cell(<<"a">>, 5), <<"o">> :> VEnum("Opt", "None", <<>>)})
    \cup Job("values", <<>>, {Cell(<<"a">>, 1), Cell(<<"b">>, -1)})
    \cup Job("collect", <<VInt(3)>>, {Cell(<<"a">>, 5), Planted("t", "pbtree", U2I(<<1>>))})
    \cup Job("join", <<VU64(2), VU64(2)>>, {Joined})
    \cup Job("join", <<VU64(1), VU64(3)>>, {}) \cup Job("clash", <<>>, {})
    \cup Job("leave", <<VU64(1)>>, {})
    \cup Job("rejoin", <<>>, {})
    \cup {Plain("legs", <<>>, {Cell(<<"b">>, 4)})}
    \cup Job("slots", <<>>, {<<"ctr">> :> VU64(7)})
    \cup Job("events", <<>>, {Cell(<<"a">>, 5)})
    \cup {[j EXCEPT !.as = "direct"] : j \in Job("across", <<>>, {Cell(<<"b">>, 4)})}
    \cup Job("once", <<VInt(0)>>, {}) \cup Job("once", <<VInt(1)>>, {})
    \cup Job("spend", <<>>, {Cell(<<"b">>, 3), Cell(<<"b">>, 4)}) \cup Job("spend_twice", <<>>, {})
    \cup UNION {Job(n, <<>>, {Cell(<<"a">>, 5)}) : n \in {"peek", "settle", "cap"}}
    \cup {[j EXCEPT !.as = "by_hand"] : j \in UNION {Job("guarded", <<VInt(n)>>, {Cell(<<"b">>, 2)}) : n \in 0..3}}
    \cup Job("unknown", <<>>, {}) \cup Job("forever", <<>>, {}) \cup Job("spin", <<>>, {})

MCReorderJobs == Job("reorder", <<>>, {})
MCTornJobs    == Job("torn", <<>>, {Cell(<<"a">>, 5)})
=============================================================================
