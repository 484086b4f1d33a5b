------------------------------- MODULE Engine -------------------------------
(***************************************************************************)
(* From the tree of a module to what is deployed: modifiers are expanded,  *)
(* the module is checked, compiled and optimized (lib.rs frontend,         *)
(* engine.rs compile_single).                                              *)
(***************************************************************************)
EXTENDS Values

C == INSTANCE Compile
O == INSTANCE Optimize
M == INSTANCE Modifier
A == INSTANCE Affine

\* The functions of an expanded module that pass affine::check and
\* verify_purity_annotations.
Checked(m, effects) ==
    {n \in DOMAIN m.fns : A!check_fn(m.fns[n], m) /\ O!verify_purity_annotation(m.fns[n], effects[n])}

\* compile_single.  The code before the optimizer is kept beside the other.
\* The passes refuse a module as a whole; here a function they refuse is one
\* that cannot be called.
Deployed(mod, m, effects, code) ==
    [module |-> m, effects |-> effects, code |-> code, optimized |-> O!optimize(code, effects),
     refused |-> DOMAIN mod.fns \ Checked(m, effects)]
Built(mod, m) == Deployed(mod, m, O!classify(m), C!compile(m))
compile_single(mod) == Built(mod, M!expand(mod))
=============================================================================
