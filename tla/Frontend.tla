------------------------------ MODULE Frontend ------------------------------
(***************************************************************************)
(* From a tree to graphs: check_program (Semantic) followed by             *)
(* create_firm_ir (MethodBuilder), and what both promise about every       *)
(* program they accept (MiniJava says what a program means).               *)
(***************************************************************************)
EXTENDS Semantic, MethodBuilder, MiniJava

CONSTANTS
  Input, \* what the programs read
  Steps  \* bound: calls and loop iterations of a run

VARIABLE graphs \* the methods' graphs by path

NoGraphs == [p \in {} |-> NewGraph]

CreateFirmIr ==
  /\ phase = "checked"
  /\ graphs' = create_methods(info, consts.value, make_globals)
  /\ phase' = "compiled"
  /\ UNCHANGED <<ast, info, consts>>

-----------------------------------------------------------------------------
(* Names, by the shape of the tree alone: no table, no order of visits.     *)

\* Every node below node by its path.
RECURSIVE Nodes(_, _)
Nodes(node, p) ==
  LET children == Children(node)
  IN FoldLeft(LAMBDA all, i : Nodes(children[i], Append(p, i)) @@ all, p :> node,
              [i \in DOMAIN children |-> i])

Up(p) == SubSeq(p, 1, Len(p) - 1)
Inside(q, p) == Len(p) <= Len(q) /\ SubSeq(q, 1, Len(p)) = p
Of(all, kind) == {p \in DOMAIN all : all[p].node = kind}

\* Parameters are known in their method; a local variable from its
\* declaration to the end of the block around it.
Known(all, d, q) ==
  CASE all[Up(d)].node = "instance_method" -> Inside(q, Up(d)) /\ q # Up(d)
    [] all[Up(d)].node = "local_variable_statement" ->
         Inside(q, Up(Up(d))) /\ Len(q) >= Len(d) - 1 /\ q[Len(d) - 1] >= d[Len(d) - 1]
    [] OTHER -> FALSE

LocalsAt(all, q, name) ==
  {d \in Of(all, "var_decl") : all[d].name = name /\ Known(all, d, q)}
FieldsAt(all, q, name) ==
  {d \in Of(all, "var_decl") :
     all[d].name = name /\ all[Up(d)].node = "class_declaration" /\ Inside(q, Up(d))
       /\ \A m \in Of(all, "main_method") : ~Inside(q, m)}
MeaningsAt(all, q, name) ==
  LET locals == LocalsAt(all, q, name)
      fields == FieldsAt(all, q, name)
  IN IF locals # {} THEN locals ELSE IF fields # {} THEN fields
     ELSE IF name = "System" THEN {make_globals[1].path} ELSE {}

Accesses(all) == {q \in Of(all, "variable_access") : all[q].target = nullptr}
ArgumentOf(all, q, name) ==
  \E m \in Of(all, "main_method") : Inside(q, m) /\ all[m].argname = name
Twice(members) == \E i, j \in DOMAIN members : i # j /\ members[i].name = members[j].name

ScopeFaults(all) ==
  {f \in {"conflicting_definition", "illegal_shadow", "illegal_access",
          "unknown_local_or_field", "duplicate_field", "duplicate_method"} :
     CASE f = "conflicting_definition" ->
            \E d \in Of(all, "var_decl") : LocalsAt(all, d, all[d].name) \ {d} # {}
       [] f = "illegal_shadow" ->
            \E d \in Of(all, "var_decl") : ArgumentOf(all, d, all[d].name)
       [] f = "illegal_access" -> \E q \in Accesses(all) : ArgumentOf(all, q, all[q].name)
       [] f = "unknown_local_or_field" ->
            \E q \in Accesses(all) : MeaningsAt(all, q, all[q].name) = {}
       [] f = "duplicate_field" ->
            \E c \in Of(all, "class_declaration") : Twice(all[c].fields)
       [] f = "duplicate_method" ->
            \E c \in Of(all, "class_declaration") : Twice(all[c].instance_methods)}

(* An accepted program declares nothing twice where it could be confused,  *)
(* and every name in it refers to the declaration the tree's nesting says. *)
(* A program rejected for its names has the fault it is rejected for.      *)
NamesAreLexical ==
  /\ phase = "return_paths" =>
       LET all == Nodes(ast, User)
       IN /\ ScopeFaults(all) = {}
          /\ \A q \in Accesses(all) : {info.vardecl[q].path} = MeaningsAt(all, q, all[q].name)
  /\ phase = "rejected" /\ info.error \in {"conflicting_definition", "illegal_shadow",
        "illegal_access", "unknown_local_or_field", "duplicate_field", "duplicate_method"}
       => info.error \in ScopeFaults(Nodes(ast, User))

-----------------------------------------------------------------------------
(* Running an accepted program, by its tree and by its graphs. *)

OfTree == Execution(ast, make_builtin_ast, Input, Steps)

Main == CHOOSE p \in DOMAIN graphs :
          \E c \in DOMAIN ast.classes : \E i \in DOMAIN ast.classes[c].main_methods :
            p = MainPath(Append(User, c), ast.classes[c], i)
OfGraphs == RunMethod(graphs, Main, <<>>, InitialMemory(Input, 8 * Steps)).M

\* f() == g() with two void methods passes the analysis, see the README.
ComparesVoid ==
  \E p \in DOMAIN info.type :
    /\ p[1] = User[1]
    /\ LET all == Nodes(ast, User)
       IN /\ p \in DOMAIN all
          /\ all[p].node = "binary_expression"
          /\ info.type[Append(p, 1)].info = "void"

(* An accepted program never gets stuck: no value of a wrong type is used, *)
(* no member is missing, no method with a result ends without one.         *)
AcceptedProgramsRun ==
  phase = "compiled" /\ ~ComparesVoid => OfTree.stop # "stuck"

(* The graphs do what the tree says: the same output in the same order,    *)
(* and the same end.                                                       *)
GraphsDoWhatTheTreeSays ==
  phase = "compiled" /\ ~ComparesVoid =>
    /\ \A p \in DOMAIN graphs : ~graphs[p].broken
    /\ LET same(t, g) ==
             t.stop \in {"undefined", "unfinished"} \/ (g.out = t.out /\ g.stop = t.stop)
       IN same(OfTree, OfGraphs)

(* A constant is the value its expression has, and a literal is refused    *)
(* only if it is no int.                                                   *)
ConstantsAreValues ==
  LET empty == program(<<class_declaration("Empty", <<>>, <<>>,
                           <<main_method("main", "args", empty_statement)>>)>>)
      as_int(v) == IF v.t = "boolean" THEN Bool(v.v) ELSE v.v
      is(t, constant) == t.stop = "" /\ as_int(t.value) = constant
      agree(all, start) ==
        \A p \in DOMAIN consts.value : is(Eval(all[p], start), consts.value[p])
      too_large(all) ==
        \E p \in Of(all, "integer_constant") : Literal_(all[p]) \notin MinInt..MaxInt
  IN /\ phase = "checked" =>
          agree(Nodes(ast, User), Execution(empty, program(<<>>), <<>>, 0))
     /\ consts.error # "" => too_large(Nodes(ast, User))
=============================================================================
