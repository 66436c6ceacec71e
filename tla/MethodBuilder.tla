--------------------------- MODULE MethodBuilder ---------------------------
(***************************************************************************)
(* From the annotated tree to graphs (src/src/core/irg).  An expression    *)
(* visitor is the graph built so far (see FirmGraph) with two more         *)
(* members: do_store, set while the left side of an assignment is visited, *)
(* and var_id, the local variable it named or -1.  `info' and `constants'  *)
(* are the semantic analysis's, `ids' the numbers of the local variables.  *)
(***************************************************************************)
EXTENDS FirmGraph, AbstractSyntax

-----------------------------------------------------------------------------
(* Types (type_builder.cpp): only classes that some node's type mentions   *)
(* are turned into Firm types, and only their methods into graphs.         *)

UsedClasses(info) ==
  {info.type[p].info : p \in DOMAIN info.type} \cap DOMAIN info.classes

mode_of(t) ==
  IF t.rank = 0 /\ t.info = "int" THEN "Is"
  ELSE IF t.rank = 0 /\ t.info = "boolean" THEN "Bs" ELSE "P"

\* The places of an object: its fields, or the one that keeps it from being empty.
LayoutOf(class) ==
  LET fields == class.decl.fields
  IN IF fields = <<>> THEN {"__prevent_empty_class"} ELSE {fields[i].name : i \in DOMAIN fields}

\* A declaration is a field's or the global's if it is no local variable's.
in_fieldmap(ids, declared) == declared.path \notin DOMAIN ids
is_global(globals, declared) == \E i \in DOMAIN globals : globals[i] = declared

\* The global System is an object whose fields are objects of their own.
InitialMemory(input, steps) ==
  [heap |-> <<[p \in {"System"} |-> 2], [p \in {"in", "out"} |-> IF p = "in" THEN 3 ELSE 4],
              [p \in {"__prevent_empty_class"} |-> 0], [p \in {"__prevent_empty_class"} |-> 0]>>,
   out |-> <<>>, input |-> input, steps |-> steps, stop |-> ""]

-----------------------------------------------------------------------------
(* Truth values are kept as 0 and 1; only Cmp, Mux and Cond know mode b.   *)

materialize(g) ==
  IF g.node = 0 THEN [g EXCEPT !.broken = TRUE]
  ELSE IF ModeOf(g, g.node) # "b" THEN g
  ELSE LET chosen(top, bot) == Node(top, "Mux", "Bs", <<g.node, bot, top.node>>, 0)
           choose(bot) == chosen(Const(bot, "Bs", 1), bot.node)
       IN choose(Const(g, "Bs", 0))

unmaterialize(g) ==
  IF g.node = 0 THEN [g EXCEPT !.broken = TRUE]
  ELSE IF ModeOf(g, g.node) # "Bs" THEN g
  ELSE LET zero == Const(g, "Bs", 0)
       IN Node(zero, "Cmp", "b", <<g.node, zero.node>>, "not_equal")

Boolean_ == {"equal", "not_equal", "less_than", "less_equal", "greater_than", "greater_equal"}
Arithmetic == [plus |-> "Add", minus |-> "Sub", multiply |-> "Mul", divide |-> "Div",
               modulo |-> "Mod"]

\* n.accept(visitor): see generate for expressions and execute for statements.
\* After the use of a null pointer nothing more is visited.
RECURSIVE accept(_, _, _, _)

visit_boolean_expression(e, p, g, c) ==
  LET compare(h, l) == materialize(Node(h, "Cmp", "b", <<l, h.node>>, e.type))
      right(h) == compare(materialize(accept(e.rhs, Append(p, 2), h, c)), h.node)
  IN right(materialize(accept(e.lhs, Append(p, 1), g, c)))

\* Mutant of divide: the quotient is computed, but its memory is dropped.
ForgetsMemory(g, op, l, r) ==
  LET m == GetValue(g, STORE, "M")
      n == Node(m, op, "T", <<m.node, l, r>>, 0)
  IN Node(Result(n, "Ls"), "Conv", "Is", <<n.node + 1>>, 0)

\* Division is done in twice the width, so that its overflow wraps.
divide(g, op, l, r) ==
  LET narrow(h) == Node(h, "Conv", "Is", <<h.node>>, 0)
      quotient(h, wide) == narrow(Result(MemoryNode(h, op, <<wide, h.node>>, 0), "Ls"))
      right(h) == quotient(Node(h, "Conv", "Ls", <<r>>, 0), h.node)
  IN right(Node(g, "Conv", "Ls", <<l>>, 0))

visit_arithmetic_expression(e, p, g, c) ==
  LET op == Arithmetic[e.type]
      apply(h, l) == IF op \in {"Div", "Mod"} THEN divide(h, op, l, h.node)
                     ELSE Node(h, op, "Is", <<l, h.node>>, 0)
      right(h) == apply(accept(e.rhs, Append(p, 2), h, c), h.node)
  IN right(accept(e.lhs, Append(p, 1), g, c))

\* Control leaves for the block then if the value made last is true, else for else.
Branch(g, then, else) ==
  LET projs(h, cond, yes) == AddPred(AddPred(h, then, yes), else, h.node)
      false(h, cond) == projs(Node(h, "Proj", "X", <<cond>>, "false"), cond, h.node)
      true(h) == false(Node(h, "Proj", "X", <<h.node>>, "true"), h.node)
  IN true(Node(g, "Cond", "T", <<g.node>>, 0))

JumpTo(g, b) ==
  LET jump(h) == AddPred(h, b, h.node) IN jump(Node(g, "Jmp", "X", <<>>, 0))
JumpIfOpen(g, b) == IF g.cur = 0 THEN g ELSE JumpTo(g, b)
Enter(g, b) == SetBlock(Mature(g, b), b)

\* The right operand has a block of its own that is entered only if the left
\* one has not decided the result.
visit_logical_expression(e, p, g, c) ==
  LET right == Len(g.blocks) + 1
      exit == right + 1
      and == e.type = "logical_and"
      value(h, l, r) ==
        materialize(Node(SetValue(h, STORE, h.node), "Phi", "b", <<l, r>>, 0))
      join(h, l, memory, r) ==
        value(Node(Enter(JumpTo(h, exit), exit), "Phi", "M", <<memory, h.node>>, 0), l, r)
      after(h, l, memory) == join(GetValue(h, STORE, "M"), l, memory, h.node)
      second(h, l) == after(unmaterialize(accept(e.rhs, Append(p, 2), h, c)), l, h.node)
      split(h) == Branch(h, IF and THEN right ELSE exit, IF and THEN exit ELSE right)
      first(h) == second(GetValue(Enter(split(h), right), STORE, "M"), h.node)
  IN first(unmaterialize(accept(e.lhs, Append(p, 1), NewBlock(NewBlock(g)), c)))

\* Loads the value at the address made last, or leaves the address to be stored to.
LoadOrAddress(g, mode) ==
  IF g.do_store THEN g ELSE Result(MemoryNode(g, "Load", <<g.node>>, 0), mode)

\* Visits a part of a left side that is itself read.
Read(e, p, g, c) ==
  [accept(e, p, [g EXCEPT !.do_store = FALSE], c) EXCEPT !.do_store = g.do_store]

visit_assignment(e, p, g, c) ==
  LET store(h, address) ==
        [MemoryNode(h, "Store", <<address, h.node>>, 0) EXCEPT !.node = h.node]
      assign(h, left) == IF left.var_id # -1 THEN SetValue(h, left.var_id, h.node)
                         ELSE store(materialize(h), left.node)
      right(h) == assign(accept(e.rhs, Append(p, 2),
                                  [h EXCEPT !.do_store = g.do_store, !.var_id = -1], c), h)
  IN right(accept(e.lhs, Append(p, 1), [g EXCEPT !.do_store = TRUE], c))

visit_field(e, p, g, c, declared) ==
  LET member(h) == Node(h, "Member", "P", <<h.node>>, e.name)
      place == IF is_global(c.globals, declared) THEN Node(g, "Address", "P", <<>>, e.name)
               ELSE member(IF e.target # nullptr THEN Read(e.target, Append(p, 1), g, c)
                           ELSE GetValue(g, 0, "P"))
  IN LoadOrAddress(place, mode_of(c.info.type[declared.path]))

visit_access(e, p, g, c) ==
  LET declared == c.info.vardecl[p]
      id == c.ids[declared.path]
  IN IF in_fieldmap(c.ids, declared) THEN visit_field(e, p, g, c, declared)
     ELSE IF g.do_store THEN [g EXCEPT !.var_id = id, !.node = 0]
     ELSE GetValue(g, id, mode_of(c.info.type[p]))

\* The operands so far, the object first, are in the second component.
Operands(e, p, g, c) ==
  LET before == IF e.target = nullptr THEN 0 ELSE 1
      add(h, operands) == <<h, Append(operands, h.node)>>
      argument(s, i) ==
        add(materialize(accept(e.arguments[i], Append(p, before + i), s[1], c)), s[2])
      object == IF before = 0 THEN GetValue(g, 0, "P") ELSE accept(e.target, Append(p, 1), g, c)
  IN FoldLeft(argument, add(object, <<>>), [i \in DOMAIN e.arguments |-> i])

visit_invocation(e, p, g, c) ==
  LET method == c.info.method[p].path
      t == c.info.type[method]
      call(s) == MemoryNode(s[1], "Call", s[2], [kind |-> "method", path |-> method])
      result(h) == IF t.rank = 0 /\ t.info = "void" THEN [h EXCEPT !.node = 0]
                   ELSE Result(h, mode_of(t))
  IN result(call(Operands(e, p, g, c)))

builtin_new(g, places) ==
  Result(MemoryNode(g, "Call", <<g.node>>, [kind |-> "new", places |-> places]), "P")

negate(g) ==
  LET mux(h, yes) == materialize(Node(h, "Mux", "b", <<g.node, yes, h.node>>, 0))
      false(h) == mux(Node(h, "Const", "b", <<>>, FALSE), h.node)
  IN false(Node(g, "Const", "b", <<>>, TRUE))

visit_unary_expression(e, p, g, c) ==
  LET apply(h) == IF e.type = "minus" THEN Node(h, "Minus", "Is", <<h.node>>, 0)
                  ELSE negate(unmaterialize(h))
  IN apply(accept(e.target, Append(p, 1), g, c))

visit_array_access(e, p, g, c) ==
  LET sel(h, target) == [Node(h, "Sel", "P", <<target, h.node>>, 0) EXCEPT !.var_id = -1]
      element(h) == sel(Read(e.index, Append(p, 2), h, c), h.node)
  IN LoadOrAddress(element(Read(e.target, Append(p, 1), g, c)), mode_of(c.info.type[p]))

visit_object_instantiation(e, g, c) ==
  IF e.class_name \in UsedClasses(c.info)
  THEN builtin_new(Const(g, "Is", 1), LayoutOf(c.info.classes[e.class_name]))
  ELSE [g EXCEPT !.broken = TRUE]

UseConstant(e, p, g, c) ==
  Const(g, mode_of(c.info.type[p]), c.constants[p])

generate(e, p, g, c) ==
  CASE p \in DOMAIN c.constants -> UseConstant(e, p, g, c)
    [] e.node = "binary_expression" /\ p \notin DOMAIN c.constants ->
         (CASE e.type \in Boolean_ -> visit_boolean_expression(e, p, g, c)
            [] e.type \in DOMAIN Arithmetic -> visit_arithmetic_expression(e, p, g, c)
            [] e.type \in {"logical_and", "logical_or"} -> visit_logical_expression(e, p, g, c)
            [] e.type = "assign" -> visit_assignment(e, p, g, c))
    [] e.node = "unary_expression" /\ p \notin DOMAIN c.constants ->
         visit_unary_expression(e, p, g, c)
    [] e.node = "object_instantiation" -> visit_object_instantiation(e, g, c)
    [] e.node = "array_instantiation" -> builtin_new(accept(e.extent, Append(p, 2), g, c), {})
    [] e.node = "array_access" -> visit_array_access(e, p, g, c)
    [] e.node = "variable_access" -> visit_access(e, p, g, c)
    [] e.node = "method_invocation" -> visit_invocation(e, p, g, c)
    [] e.node = "this_ref" -> GetValue(g, 0, "P")
    [] e.node = "null_constant" -> Const(g, "P", 0)

-----------------------------------------------------------------------------
(* Statements.  After a return there is no current block until the         *)
(* statement around it opens the next one.                                 *)

get_expression_node(e, p, g, c) ==
  accept(e, p, [g EXCEPT !.node = 0, !.do_store = FALSE, !.var_id = -1], c)

get_compare_node(e, p, g, c) ==
  LET equal_to(h, value) == Node(h, "Cmp", "b", <<value, h.node>>, "equal")
      compare(h) == IF ModeOf(h, h.node) # "Bs" THEN h ELSE equal_to(Const(h, "Bs", 1), h.node)
  IN compare(get_expression_node(e, p, g, c))

\* Without an else branch the exit is reached from the block that is for it.
else_branch(s, p, g, c, else, exit) ==
  LET jump(h) == AddPred(h, exit, h.node)
  IN IF s.else_statement = nullptr THEN jump(NodeIn(g, else, "Jmp", "X", <<>>, 0))
     ELSE JumpIfOpen(accept(s.else_statement, Append(p, 3), SetBlock(g, else), c), exit)

visit_if(s, p, g, c) ==
  LET then == Len(g.blocks) + 1
      else == then + 1
      exit == then + 2
      cond == get_compare_node(s.condition, Append(p, 1), NewBlock(NewBlock(NewBlock(g))), c)
      join(h, open) == IF h.cur = 0 /\ ~open THEN h ELSE Enter(h, exit)
      second(h, open) ==
        join(else_branch(s, p, Mature(JumpIfOpen(h, exit), else), c, else, exit), open)
      first(h) == second(h, s.else_statement = nullptr \/ h.cur # 0)
  IN first(accept(s.then_statement, Append(p, 2), Enter(Branch(cond, then, else), then), c))

visit_while(s, p, g, c) ==
  LET condition == Len(g.blocks) + 1
      body == condition + 1
      exit == condition + 2
      entered == SetBlock(JumpTo(NewBlock(NewBlock(NewBlock(g))), condition), condition)
      split == Branch(get_compare_node(s.condition, Append(p, 1), entered, c), body, exit)
      done == accept(s.body, Append(p, 2), Enter(split, body), c)
  IN Mature(SetBlock(Mature(JumpIfOpen(done, condition), condition), exit), exit)

Return(g, values) ==
  LET leave(h) == SetBlock(Mature(AddPred(h, EndBlock, h.node), h.cur), 0)
      return(h) == leave(Node(h, "Return", "X", <<h.node>> \o values, 0))
  IN return(GetValue(g, STORE, "M"))

visit_return(s, p, g, c) ==
  LET return(h) == Return(h, <<h.node>>)
  IN IF s.value = nullptr THEN Return(g, <<>>)
     ELSE return(materialize(get_expression_node(s.value, Append(p, 1), g, c)))

visit_local(s, p, g, c) ==
  LET set(h) == SetValue(h, c.ids[Append(p, 1)], h.node)
  IN set(IF s.initial_value # nullptr
         THEN get_expression_node(s.initial_value, Append(p, 2), g, c)
         ELSE Const(g, mode_of(c.info.type[Append(p, 1)]), 0))

execute(s, p, g, c) ==
  CASE s.node = "block" ->
         FoldLeft(LAMBDA h, i : IF h.cur = 0 THEN h ELSE accept(s.body[i], Append(p, i), h, c),
                  g, [i \in DOMAIN s.body |-> i])
    [] s.node = "local_variable_statement" -> visit_local(s, p, g, c)
    [] s.node = "expression_statement" -> get_expression_node(s.inner_expression, Append(p, 1), g, c)
    [] s.node = "if_statement" -> visit_if(s, p, g, c)
    [] s.node = "while_statement" -> visit_while(s, p, g, c)
    [] s.node = "return_statement" -> visit_return(s, p, g, c)
    [] s.node = "empty_statement" -> g

statements == {"block", "local_variable_statement", "expression_statement", "if_statement",
               "while_statement", "return_statement", "empty_statement"}
accept(n, p, g, c) ==
  IF g.broken THEN g
  ELSE IF n.node \in statements THEN execute(n, p, g, c) ELSE generate(n, p, g, c)

-----------------------------------------------------------------------------
(* Methods. *)

Fresh == [do_store |-> FALSE, var_id |-> -1] @@ NewGraph

\* Locals are numbered as the analysis met them, parameters first; in an
\* instance method they follow this.
Numbered(locals, first) ==
  LET place(p) == CHOOSE i \in DOMAIN locals : locals[i].path = p
  IN [p \in {locals[i].path : i \in DOMAIN locals} |-> first + place(p) - 1]

Arguments(g, modes) ==
  FoldLeft(LAMBDA h, i : LET a == Node(h, "Argument", modes[i], <<>>, i - 1)
                         IN SetValue(a, i - 1, a.node),
           g, [i \in DOMAIN modes |-> i])

\* A method without a return statement at its end returns there.
Finished(g) == Mature(IF g.cur = 0 THEN g ELSE Return(g, <<>>), EndBlock)

Modes(info, p, m) ==
  <<"P">> \o [i \in DOMAIN m.parameters |-> mode_of(info.type[Append(p, i + 1)])]

\* g is the graph with its arguments, first the number of the first local.
create_firm_body(info, constants, globals, p, body, place, g, first) ==
  Finished(accept(body, Append(p, place), g,
                  [info |-> info, constants |-> constants, globals |-> globals,
                   ids |-> Numbered(info.locals[p], first)]))

create_firm_method(info, constants, globals, p, m) ==
  LET main == m.node = "main_method"
  IN create_firm_body(info, constants, globals, p, m.body,
                      IF main THEN 1 ELSE Len(m.parameters) + 2,
                      IF main THEN Fresh ELSE Arguments(Fresh, Modes(info, p, m)),
                      IF main THEN 0 ELSE 1)

\* A built-in method passes its arguments, without this, to the runtime.
create_builtin_method(info, p, m) ==
  LET return(h) == Return(h, <<h.node>>)
      result(h) == IF info.type[p].info = "void" THEN Return(h, <<>>)
                   ELSE return(Result(h, mode_of(info.type[p])))
      call(g) ==
        MemoryNode(g, "Call", [i \in DOMAIN m.parameters |-> g.blocks[StartBlock].vars[i]],
                   [kind |-> "runtime", name |-> m.name])
  IN Mature(result(call(Arguments(Fresh, Modes(info, p, m)))), EndBlock)

create_methods(info, constants, globals) ==
  LET member(class, i) == Append(class.path, Len(class.decl.fields) + i)
      paths(name) ==
        LET class == info.classes[name]
            methods == Len(class.decl.instance_methods)
        IN {member(class, i) : i \in IF name \in UsedClasses(info) THEN 1..methods ELSE {}}
             \cup {member(class, methods + i) : i \in DOMAIN class.decl.main_methods}
      graph(name, p) ==
        LET class == info.classes[name]
            i == p[Len(p)] - Len(class.decl.fields)
            methods == class.decl.instance_methods
        IN IF class.builtin THEN create_builtin_method(info, p, methods[i])
           ELSE create_firm_method(info, constants, globals, p,
                  IF i <= Len(methods) THEN methods[i]
                  ELSE class.decl.main_methods[i - Len(methods)])
      class_of(p) == CHOOSE name \in DOMAIN info.classes :
                       info.classes[name].path = SubSeq(p, 1, Len(p) - 1)
  IN [p \in UNION {paths(name) : name \in DOMAIN info.classes} |-> graph(class_of(p), p)]
=============================================================================
