---------------------------- MODULE MCStackCode ----------------------------
(***************************************************************************)
(* Instances of StackCode for TLC.                                         *)
(***************************************************************************)
EXTENDS StackCode

\* All the control flow: a loop with a result and an else of an if without one are left out,
\* see VoidElse and the README.
Control ==
    [len |-> 6, plain |-> {"const", "get_local", "sub", "set_local"},
     openers |-> {<<"block", 0>>, <<"block", 1>>, <<"loop", 0>>, <<"if", 0>>, <<"if", 1>>},
     elses |-> {1}, branches |-> {"br", "br_if", "br_table", "return"},
     consts |-> {1}, m |-> 2, args |-> 1, locals |-> 1, arity |-> 1]

\* All the templates without control flow but store and the comparisons of doubles.
Operands ==
    [len |-> 5,
     plain |-> {"const", "drop", "get_local", "set_local", "tee_local", "sub", "cmp", "mul", "farith",
                "div", "eqz", "popcnt", "load", "grow_memory", "select", "call", "call_indirect"},
     openers |-> {<<"block", 0>>}, elses |-> {}, branches |-> {"return"},
     consts |-> {1, 2}, m |-> 3, args |-> 1, locals |-> 2, arity |-> 0]

VoidElse ==
    [len |-> 3, plain |-> {"const", "get_local", "drop"},
     openers |-> {<<"if", 0>>}, elses |-> {0}, branches |-> {},
     consts |-> {1, 2}, m |-> 3, args |-> 1, locals |-> 1, arity |-> 0]

SoundFamilies == {Control, Operands}
IfElseFamilies == {VoidElse}

\* CodeRepresents and CodeReturns of StackRun_proofs assume this of their families.
ASSUME SoundFamiliesClean == \A fam \in SoundFamilies : CleanFamily(fam)
=============================================================================
