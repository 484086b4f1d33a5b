----------------------------- MODULE Execution -----------------------------
(***************************************************************************)
(* A transaction on what Engine deployed: the machine runs it on the       *)
(* shared store while other transactions commit; the host then commits     *)
(* what it wrote if the store still holds what it read (OccBatch and       *)
(* GroupCommit model the host).  The tree interpreter of the same source,  *)
(* run alone on the store of the commit, says what a serial execution      *)
(* would have done.                                                        *)
(***************************************************************************)
EXTENDS Vm, FiniteSets

\* Artifact: the result of Engine's compile_single.  Jobs: [fn, args, as, opt,
\* other]: the call, what to call in the interpreter, whether the code is the
\* optimized one, and the writes of the transactions that may commit meanwhile.
\* Store: the store at the start.
CONSTANTS Artifact, Jobs, Store, Fuel, MaxOther

I == INSTANCE Interp

Module  == Artifact.module
Effects == Artifact.effects
Prog(j) == IF j.opt THEN Artifact.optimized ELSE Artifact.code

VARIABLES job,     \* the call
          kv,      \* the shared store
          vm,      \* the machine
          others,  \* how many other transactions have committed
          phase,   \* "run", "ran", "committed", "conflict"
          spent    \* resources the machine itself made and unwrapped

vars == <<job, kv, vm, others, phase, spent>>

Init == /\ job \in {j \in Jobs : j.fn \notin Artifact.refused}
        /\ kv = Store
        /\ vm = run_world(Prog(job), job.fn, job.args, Fuel)
        /\ others = 0 /\ phase = "run"
        /\ spent = [made |-> 0, unwrapped |-> 0]

\* Whether the machine, outside a batch, has just executed an instruction.
Executes(name) == /\ vm.batch = <<>> /\ Top(vm).pc \in DOMAIN Top(vm).code
                  /\ Top(vm).code[Top(vm).pc][1] = name /\ Running(vm')

Step == /\ phase = "run" /\ Running(vm)
        /\ vm' \in Steps(vm, Prog(job), kv)
        /\ spent' = [made |-> spent.made + IF Executes("BuiltinResource") THEN 1 ELSE 0,
                     unwrapped |-> spent.unwrapped + IF Executes("BuiltinUnwrap") THEN 1 ELSE 0]
        /\ UNCHANGED <<job, kv, others, phase>>

\* The end of run_world.
Finish == /\ phase = "run" /\ ~Running(vm)
          /\ vm' = finish(vm, kv)
          /\ phase' = "ran"
          /\ UNCHANGED <<job, kv, others, spent>>

\* Another transaction commits.
Other == /\ phase \in {"run", "ran"} /\ others < MaxOther
         /\ \E w \in job.other : kv' = w @@ kv
         /\ others' = others + 1
         /\ UNCHANGED <<job, vm, phase, spent>>

Valid(reads, store) ==
    \A c \in DOMAIN reads : IF Has(store, c) THEN store[c] = reads[c] ELSE is_default(reads[c])

\* The host's decision.  A run that failed commits nothing; whether its reads
\* still hold then only says if it can be compared with a serial run.
Commit == /\ phase = "ran"
          /\ phase' = IF Valid(vm.tx.reads, kv) THEN "committed" ELSE "conflict"
          /\ kv' = IF Valid(vm.tx.reads, kv) /\ vm.status = "done" THEN vm.tx.writes @@ kv ELSE kv
          /\ UNCHANGED <<job, vm, others, spent>>

\* The cells a program can name; nodes are reached from them.
Visible(store) == [x \in {y \in DOMAIN store : y[1] \notin {"node", "vnode"}} |-> store[x]]

Done == phase \in {"committed", "conflict"} /\ UNCHANGED vars

Next == Step \/ Finish \/ Other \/ Commit \/ Done

\* WF_vars(Step \/ Finish \/ Commit): one of them is enabled until the
\* transaction is decided.
Fairness == \/ []<>(phase \notin {"run", "ran"})
            \/ []<><<Step \/ Finish \/ Commit>>_vars
Spec == Init /\ [][Next]_vars /\ Fairness

-----------------------------------------------------------------------------
Serial == I!interpret(Module, kv, job.as, job.args)

\* A transaction whose reads validate at its commit, whatever committed while
\* it ran, does what the interpreter does on the store of the commit: it fails
\* if and only if the interpreter does, and otherwise has the same result, the
\* same event log and the same effect on the store.
Serializable ==
    [][phase' = "committed" /\ phase = "ran" /\ vm.result # <<"fuel">> =>
           /\ (vm.status = "done") = Serial.ok
           /\ Serial.ok => /\ vm.result = Serial.v
                          /\ vm.tx.events = Serial.s.tx.events
                          /\ Visible(kv') = Visible(Serial.s.tx.writes @@ kv)]_vars

\* The machine without the optimizer, alone on a store, to its end.
RECURSIVE Ran(_, _, _)
Ran(m, prog, store) ==
    IF Running(m) THEN Ran(CHOOSE n \in Steps(m, prog, store) : TRUE, prog, store) ELSE finish(m, store)
Unoptimized == Ran(run_world(Artifact.code, job.fn, job.args, Fuel), Artifact.code, kv)

\* optimize.rs, line 39: moving reads together `preserves semantics': the
\* optimized code of a function and the code the compiler emitted for it have
\* the same result and the same effect on the store of the commit.
ReorderingPreservesSemantics ==
    [][phase' = "committed" /\ phase = "ran" => /\ vm.status = Unoptimized.status
                                              /\ vm.result = Unoptimized.result
                                              /\ vm.tx.writes = Unoptimized.tx.writes]_vars

\* Every state a program reaches: a machine and those of its running batch.
RECURSIVE Machines(_)
Machines(m) == {m} \cup IF m.batch = <<>> THEN {}
                        ELSE UNION {Machines(m.batch.legs[j]) : j \in DOMAIN m.batch.legs}

\* What classify does not look at in a body: its tail, that is, its implicit
\* return; the tail of a statement's block; the limit of a for; a key of an
\* assignment's target, here one that is neither a literal nor a local.  (Nor the
\* tails of an else-if inside an if expression, which no program here has.)
RECURSIVE Blocks(_), KeySkipped(_), Skipped(_)
Blocks(st) ==
    CASE st[1] = "While" -> <<st[3]>>
      [] st[1] = "For" -> <<st[4]>>
      [] st[1] \in {"ForRange", "ParallelForTo"} -> <<st[6]>>
      [] st[1] = "Parallel" -> <<<<st[2], <<>>>>>>
      [] st[1] = "If" -> <<st[3]>> \o (CASE st[4][1] = "None" -> <<>>
                                        [] st[4][1] = "Else" -> <<st[4][2]>>
                                        [] st[4][1] = "ElseIf" -> Blocks(st[4][2]))
      [] OTHER -> <<>>
KeySkipped(t) ==
    \/ t[1] = "Index" /\ t[3][1] \notin {"Int", "U64", "Ident"}
    \/ t[1] = "Index" /\ t[3][1] = "Ident" /\ Has(Module.states, t[3][2])
    \/ t[1] \in {"Index", "Field"} /\ KeySkipped(t[2])
Skipped(b) ==
    \/ b[2] # <<>>
    \/ \E i \in DOMAIN b[1] : LET st == b[1][i]
                              IN  \/ st[1] = "For" /\ st[5] # <<>>
                                  \/ st[1] = "Assign" /\ KeySkipped(st[2])
                                  \/ \E j \in DOMAIN Blocks(st) : Skipped(Blocks(st)[j])

\* The functions a function calls, itself or in the functions it calls.
Callees(n) ==
    LET code == Artifact.code.fns[n].code
        Calls(names, at) == {code[i][at] : i \in {j \in DOMAIN code : code[j][1] \in names}}
    IN  Calls({"Call", "CallExternal"}, 3) \cup Calls({"CallExternalDyn"}, 4)
RECURSIVE Reached(_)
Reached(names) ==
    LET next == names \cup UNION {Callees(n) : n \in names \cap DOMAIN Module.fns}
    IN  IF next = names THEN names ELSE Reached(next)

\* classify sees all that a function does: nothing is skipped in it or in its
\* callees, and none of these is a function of the module with the name of an
\* aggregate, whose calls classify takes for calls of the builtin.
SeenWhole(n) ==
    /\ \A g \in Reached({n}) : Has(Module.fns, g) => ~Skipped(Module.fns[g].body)
    /\ Reached(Callees(n)) \cap Aggregates = {}

\* effects.rs: a function classified as writing nothing (so that `view' is
\* accepted, and reads are moved across calls of it) writes no cell and emits
\* no event, in its callees, legs and handlers neither; one classified Pure
\* reads no cell either.  Only of the functions that classify sees whole: a view
\* function whose implicit return calls a writer is classified Pure, and writes.
EffectsBoundBehaviour ==
    Has(Effects, job.fn) =>
        \/ \A m \in Machines(vm) :
              /\ "writes" \notin Effects[job.fn] => m.tx.writes = <<>> /\ m.tx.events = <<>>
              /\ Effects[job.fn] = {} => m.tx.reads = <<>> /\ m.tx.pending = <<>>
        \/ ~SeenWhole(job.fn)

\* affine.rs, for programs that move nothing in a loop or in the tail of a block:
\* whatever branches a function that was accepted takes, and through whatever
\* calls and bindings its resources pass, no resource is unwrapped twice.
NothingSpentTwice == spent.unwrapped <= spent.made

\* vm.rs call, tx.rs nore_active: along a chain of calls, through handlers and
\* legs on shadows, a non-reentrant function is active at most once.
RECURSIVE EnteredOnce(_, _)
EnteredOnce(m, active) ==
    LET guarded == SelectSeq(m.frames, LAMBDA f : f.nore)
        names   == {guarded[i].name : i \in DOMAIN guarded}
    IN  /\ Cardinality(names) = Len(guarded) /\ names \cap active = {}
        /\ m.batch # <<>> => \A j \in DOMAIN m.batch.legs : EnteredOnce(m.batch.legs[j], active \cup names)
NoReentry == phase = "run" => EnteredOnce(vm, {})

\* compile.rs assign_path, compile_delete: in the committed store every entry
\* of a state with indexes is found in each of them under the key its fields
\* project to, whatever transactions on the same indexes interleaved.
IndexComplete ==
    \A i \in DOMAIN Module.indexes :
        LET x == Module.indexes[i]
            on == kv[<<x.on>>][2]
            by == kv[<<x.name>>][2]
        IN  \A k \in DOMAIN on :
                LET p == I!project_index_key(x, on[k])
                IN  Has(by, p) /\ IF x.kind = "unique" THEN by[p] = k ELSE k \in Range(by[p][2])

\* vm.rs tick: fuel ends every run, also of a loop without end, in the function
\* itself or in a leg; the transaction is then decided.
Terminates == <>(phase \in {"committed", "conflict"})

\* tx.rs, line 81: the read set holds the `first-observed value at each read
\* key': an entry stays as it is until the transaction is validated.
FirstObserved ==
    [][\A c \in DOMAIN vm.tx.reads : Has(vm'.tx.reads, c) /\ vm'.tx.reads[c] = vm.tx.reads[c]]_vars
=============================================================================
