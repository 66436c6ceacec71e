-------------------------- MODULE MCCompilerDriver --------------------------
(***************************************************************************)
(* Every stage with every kind of output, and for the stages that optimize *)
(* also a second list of passes.                                           *)
(***************************************************************************)
EXTENDS CompilerDriver

Setup(stage, output, optimizations) ==
  [stage |-> stage, output |-> output, optimizations |-> optimizations]

MCSetups ==
  {Setup(s, o, <<"folding">>) : s \in Stages, o \in Named}
  \cup {Setup(s, "-", <<"gc", "inliner", "gc">>) : s \in {"dump_ir_opt", "default"}}

\* Input and output of these are one file.
MCAliased == {Setup(s, "in", <<>>) : s \in {"input", "print_ast"}}
=============================================================================
