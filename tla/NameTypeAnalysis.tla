-------------------------- MODULE NameTypeAnalysis --------------------------
(***************************************************************************)
(* Names and types (src/src/core/semantic/name_type_analysis.cpp,          *)
(* type_info, attribute).  A node is identified by its path from the root  *)
(* of its tree; an attribute map is a function from paths.  `st' holds the *)
(* visitor's members, the attributes computed so far and the first error,  *)
(* after which nothing more is visited.                                    *)
(***************************************************************************)
EXTENDS AbstractSyntax, SymbolTable

\* sem::type: the name of a class or primitive type, and an array rank.
Type(info, rank) == [info |-> info, rank |-> rank]
int_type == Type("int", 0)
boolean_type == Type("boolean", 0)

is_null(t) == t.info = "null"
is_primitive(info) == info \in primitive_type
is_reference(info) == ~is_primitive(info)
is_user_defined(st, info) == info \in DOMAIN st.classes /\ ~st.classes[info].builtin

\* A declaration in the symbol table and in the attributes.
Declared(p, decl) == [path |-> p, decl |-> decl]

NoClasses == [c \in {} |-> nullptr]
Start_(classes) ==
  [error |-> "", classes |-> classes, scopes |-> <<>>, type |-> [p \in {} |-> int_type],
   locals |-> [p \in {} |-> <<>>], vardecl |-> [p \in {} |-> nullptr],
   method |-> [p \in {} |-> nullptr],
   this |-> "void", cur_method |-> <<>>, poisoned |-> ""]

Throw(st, error) == IF st.error = "" THEN [st EXCEPT !.error = error] ELSE st

\* put refuses a node that has the attribute already (std::out_of_range).
put(st, attribute, p, value) ==
  IF p \in DOMAIN st[attribute] THEN Throw(st, "out_of_range")
  ELSE [st EXCEPT ![attribute] = (p :> value) @@ @]

-----------------------------------------------------------------------------
(* The classes of a tree, in the order of their names. *)

extract_type_info(ast, p, builtin, st) ==
  LET add(s, i) ==
        LET c == ast.classes[i]
        IN IF s.error # "" THEN s
           ELSE IF c.name \in DOMAIN s.classes THEN Throw(s, "class_name_clash")
           ELSE [s EXCEPT !.classes =
                   (c.name :> [builtin |-> builtin, path |-> Append(p, i), decl |-> c]) @@ @]
  IN FoldLeft(add, st, [i \in DOMAIN ast.classes |-> i])

\* The type a declaration names, or the error it is.
get_type(t, classes, voidok) ==
  CASE t.name = "void" /\ t.rank > 0 -> "array_of_void"
    [] t.name = "void" /\ t.rank = 0 /\ ~voidok -> "void_variable"
    [] t.name \notin primitive_type \cup DOMAIN classes -> "unknown_type"
    [] OTHER -> ""

annotate(st, p, t, voidok) ==
  IF st.error # "" THEN st
  ELSE LET error == get_type(t, st.classes, voidok)
       IN IF error # "" THEN Throw(st, error)
          ELSE put(st, "type", p, Type(t.name, t.rank))

\* Paths of a method's parameters, which follow its return type.
Parameter(p, i) == Append(p, i + 1)
annotate_method(st, p, m) ==
  FoldLeft(LAMBDA s, i : annotate(s, Parameter(p, i), m.parameters[i].var_type, FALSE),
           annotate(st, p, m.return_type, TRUE), [i \in DOMAIN m.parameters |-> i])

\* Members of equal names are next to each other because they are sorted.
Duplicate(members, i) == i > 1 /\ members[i].name = members[i - 1].name

FieldPath(p, c, i) == Append(p, i)
MethodPath(p, c, i) == Append(p, Len(c.fields) + i)
MainPath(p, c, i) == Append(p, Len(c.fields) + Len(c.instance_methods) + i)
Void == type("void", 0)

ShallowClass(st, p, c) ==
  LET field(s, i) ==
        IF Duplicate(c.fields, i) THEN Throw(s, "duplicate_field")
        ELSE annotate(s, FieldPath(p, c, i), c.fields[i].var_type, FALSE)
      method(s, i) ==
        IF Duplicate(c.instance_methods, i) THEN Throw(s, "duplicate_method")
        ELSE annotate_method(s, MethodPath(p, c, i), c.instance_methods[i])
      main(s, i) ==
        LET annotated == annotate(s, MainPath(p, c, i), Void, TRUE)
        IN IF c.main_methods[i].name # "main" THEN Throw(annotated, "static_not_main")
           ELSE IF s.mains > 0 THEN Throw(annotated, "duplicate_main")
           ELSE [annotated EXCEPT !.mains = 1]
      all(op(_, _), s, members) == FoldLeft(op, s, [i \in DOMAIN members |-> i])
  IN all(main, all(method, all(field, st, c.fields), c.instance_methods), c.main_methods)

perform_shallow_type_analysis(ast, p, st, expect_main) ==
  LET s == FoldLeft(LAMBDA s, i : ShallowClass(s, Append(p, i), ast.classes[i]),
                    [mains |-> 0] @@ st, [i \in DOMAIN ast.classes |-> i])
  IN IF s.mains = 0 /\ expect_main THEN Throw(s, "no_main")
     ELSE IF s.mains > 0 /\ ~expect_main THEN Throw(s, "unexpected_main") ELSE s

-----------------------------------------------------------------------------
(* Expressions.  Equality and null make two types compatible. *)

is_assignable(target, source) ==
  \/ source = target
  \/ is_null(source) /\ (is_reference(target.info) \/ target.rank > 0)

check_type(st, expected, p) ==
  IF st.error = "" /\ ~is_assignable(expected, st.type[p]) THEN Throw(st, "incompatible_type")
  ELSE st
check_integer(st, p) == check_type(st, int_type, p)
check_boolean(st, p) == check_type(st, boolean_type, p)

\* Annotates a node unless one of its parts was in error.
typed(st, p, t) == IF st.error = "" THEN put(st, "type", p, t) ELSE st

lvalue(st, node, p) ==
  /\ node.node \in {"array_access", "variable_access"}
  /\ LET info == st.type[p].info IN is_user_defined(st, info) \/ is_primitive(info)

\* An object whose members can be accessed.
HasMembers(t) == t.rank = 0 /\ is_reference(t.info) /\ ~is_null(t)

in_main(st) == st.poisoned # ""

\* The member of a class with a name, with its path; nullptr if there is none.
Member(class, members, path(_, _, _), name) ==
  LET found == {i \in DOMAIN members : members[i].name = name}
  IN IF found = {} THEN nullptr
     ELSE LET i == CHOOSE i \in found : TRUE
          IN Declared(path(class.path, class.decl, i), members[i])
get_field(class, name) == Member(class, class.decl.fields, FieldPath, name)
get_instance_method(class, name) == Member(class, class.decl.instance_methods, MethodPath, name)

\* A variable access with its declaration, or an error if there is none.
resolved(st, p, declared, error) ==
  IF declared = nullptr THEN Throw(st, error)
  ELSE typed(put(st, "vardecl", p, declared), p, st.type[declared.path])

BinaryType(st, node, p) ==
  LET lhs == Append(p, 1)
      rhs == Append(p, 2)
      both(check(_, _)) == check(check(st, lhs), rhs)
  IN IF st.error # "" THEN st
     ELSE CASE node.type = "assign" ->
                 IF ~lvalue(st, node.lhs, lhs) THEN Throw(st, "lvalue_expected")
                 ELSE typed(check_type(st, st.type[lhs], rhs), p, st.type[lhs])
            [] node.type \in {"logical_or", "logical_and"} ->
                 typed(both(check_boolean), p, boolean_type)
            [] node.type \in {"equal", "not_equal"} ->
                 IF is_assignable(st.type[lhs], st.type[rhs])
                    \/ is_assignable(st.type[rhs], st.type[lhs])
                 THEN typed(st, p, boolean_type) ELSE Throw(st, "incompatible_type")
            [] node.type \in {"less_than", "less_equal", "greater_than", "greater_equal"} ->
                 typed(both(check_integer), p, boolean_type)
            [] OTHER -> typed(both(check_integer), p, int_type)

RECURSIVE visit(_, _, _)

VisitAccess(node, p, st) ==
  IF node.target = nullptr
  THEN IF node.name = st.poisoned THEN Throw(st, "illegal_access")
       ELSE resolved(st, p, lookup(st.scopes, node.name), "unknown_local_or_field")
  ELSE LET s == visit(node.target, Append(p, 1), st)
           t == s.type[Append(p, 1)]
       IN IF s.error # "" THEN s
          ELSE IF ~HasMembers(t) THEN Throw(s, "invalid_field_access")
          ELSE resolved(s, p, get_field(s.classes[t.info], node.name), "unknown_field")

\* Arguments are visited and checked one after the other.
VisitInvocation(node, p, st) ==
  LET before == IF node.target = nullptr THEN 0 ELSE 1
      s == IF before = 0 THEN IF in_main(st) THEN Throw(st, "method_from_main") ELSE st
           ELSE visit(node.target, Append(p, 1), st)
      t == IF before = 0 THEN Type(st.this, 0) ELSE s.type[Append(p, 1)]
      method == get_instance_method(s.classes[t.info], node.name)
      argument(a, i) ==
        LET ap == Append(p, before + i)
        IN check_type(visit(node.arguments[i], ap, a), a.type[Parameter(method.path, i)], ap)
  IN IF s.error # "" THEN s
     ELSE IF ~HasMembers(t) THEN Throw(s, "invalid_method_access")
     ELSE IF method = nullptr THEN Throw(s, "unknown_method")
     ELSE IF Len(method.decl.parameters) # Len(node.arguments)
     THEN Throw(s, "incorrect_argument_count")
     ELSE LET a == FoldLeft(argument, s, [i \in DOMAIN node.arguments |-> i])
          IN IF a.error # "" THEN a
             ELSE typed(put(a, "method", p, method), p, a.type[method.path])

VisitExpression(node, p, st) ==
  LET child(i) == Append(p, i)
  IN CASE node.node = "binary_expression" ->
            BinaryType(visit(node.rhs, child(2), visit(node.lhs, child(1), st)), node, p)
       [] node.node = "unary_expression" ->
            LET s == visit(node.target, child(1), st)
            IN IF node.type = "minus" THEN typed(check_integer(s, child(1)), p, int_type)
               ELSE typed(check_boolean(s, child(1)), p, boolean_type)
       [] node.node = "object_instantiation" ->
            IF node.class_name \notin DOMAIN st.classes THEN Throw(st, "unknown_type")
            ELSE typed(st, p, Type(node.class_name, 0))
       [] node.node = "array_instantiation" ->
            LET error == get_type(node.array_type, st.classes, FALSE)
            IN IF error # "" THEN Throw(st, error)
               ELSE typed(check_integer(visit(node.extent, child(2), st), child(2)), p,
                          Type(node.array_type.name, node.array_type.rank))
       [] node.node = "array_access" ->
            LET s == visit(node.target, child(1), st)
                t == s.type[child(1)]
            IN IF s.error # "" THEN s
               ELSE IF t.rank = 0 THEN Throw(s, "invalid_subscript")
               ELSE typed(check_integer(visit(node.index, child(2), s), child(2)), p,
                          Type(t.info, t.rank - 1))
       [] node.node = "variable_access" -> VisitAccess(node, p, st)
       [] node.node = "method_invocation" -> VisitInvocation(node, p, st)
       [] node.node = "this_ref" ->
            IF in_main(st) THEN Throw(st, "this_in_main") ELSE typed(st, p, Type(st.this, 0))
       [] node.node = "boolean_constant" -> typed(st, p, boolean_type)
       [] node.node = "integer_constant" -> typed(st, p, int_type)
       [] node.node = "null_constant" -> typed(st, p, Type("null", 0))

-----------------------------------------------------------------------------
(* Statements and declarations. *)

declare(st, declared) ==
  LET name == declared.decl.name
  IN IF st.error # "" THEN st
     ELSE IF get_conflicting_definitions(st.scopes, name) # Unknown
     THEN Throw(st, "conflicting_definition")
     ELSE [st EXCEPT !.scopes = add_def(@, name, declared)]

\* Mutant of VisitVarDecl: the main method's argument is not protected.
ArgumentHidden(decl, p, st) ==
  LET s == declare(st, Declared(p, decl))
  IN IF s.error # "" THEN s
     ELSE annotate(IF st.cur_method = <<>> THEN s
                   ELSE [s EXCEPT !.locals[st.cur_method] = Append(@, Declared(p, decl))],
                   p, decl.var_type, FALSE)

\* A local variable is known to its own initial value.
VisitVarDecl(decl, p, st) ==
  LET annotated(s) == annotate(s, p, decl.var_type, FALSE)
      error == get_type(decl.var_type, st.classes, FALSE)
      local(s) == IF s.error # "" \/ st.cur_method = <<>> THEN s
                  ELSE [s EXCEPT !.locals[st.cur_method] = Append(@, Declared(p, decl))]
  IN IF st.error # "" THEN st
     ELSE IF decl.name = st.poisoned THEN Throw(st, "illegal_shadow")
     ELSE IF error # "" THEN Throw(st, error)
     ELSE annotated(local(declare(st, Declared(p, decl))))

scoped(st, may_shadow, inside(_)) ==
  LET s == inside([st EXCEPT !.scopes = enter_scope(@, may_shadow)])
  IN [s EXCEPT !.scopes = leave_scope(@)]

VisitStatement(node, p, st) ==
  LET child(i) == Append(p, i)
  IN CASE node.node = "local_variable_statement" ->
            LET s == VisitVarDecl(node.declaration, child(1), st)
            IN IF node.initial_value = nullptr \/ s.error # "" THEN s
               ELSE check_type(visit(node.initial_value, child(2), s), s.type[child(1)], child(2))
       [] node.node = "expression_statement" -> visit(node.inner_expression, child(1), st)
       [] node.node = "block" ->
            scoped(st, FALSE, LAMBDA s : FoldLeft(LAMBDA t, i : visit(node.body[i], child(i), t), s,
                                                  [i \in DOMAIN node.body |-> i]))
       [] node.node = "if_statement" ->
            LET s == visit(node.then_statement, child(2),
                           check_boolean(visit(node.condition, child(1), st), child(1)))
            IN IF node.else_statement = nullptr THEN s ELSE visit(node.else_statement, child(3), s)
       [] node.node = "while_statement" ->
            visit(node.body, child(2),
                  check_boolean(visit(node.condition, child(1), st), child(1)))
       [] node.node = "return_statement" ->
            LET t == st.type[st.cur_method]
            IN IF t = Type("void", 0)
               THEN IF node.value = nullptr THEN st ELSE Throw(st, "return_void_expected")
               ELSE IF node.value = nullptr THEN Throw(st, "return_value_expected")
               ELSE check_type(visit(node.value, child(1), st), t, child(1))
       [] node.node = "empty_statement" -> st

Expressions ==
  {"binary_expression", "unary_expression", "object_instantiation", "array_instantiation",
   "array_access", "variable_access", "method_invocation", "this_ref", "boolean_constant",
   "integer_constant", "null_constant"}

visit(node, p, st) ==
  IF st.error # "" THEN st
  ELSE IF node.node \in Expressions THEN VisitExpression(node, p, st)
  ELSE VisitStatement(node, p, st)

\* Parameters live in a scope of their own around that of the body.
visit_method(m, p, parameters, body, st) ==
  LET inside(s) ==
        LET declared(i) == Declared(Parameter(p, i), parameters[i])
            paths == [i \in DOMAIN parameters |-> declared(i)]
            params == FoldLeft(LAMBDA t, i : declare(t, declared(i)), s,
                               [i \in DOMAIN parameters |-> i])
        IN visit(m.body, body, [params EXCEPT !.cur_method = p,
                                              !.locals = (p :> paths) @@ @])
  IN IF st.error # "" THEN st
     ELSE [scoped(st, FALSE, inside) EXCEPT !.cur_method = <<>>]

VisitMain(m, p, st) ==
  [visit_method(m, p, <<>>, Append(p, 1), [st EXCEPT !.poisoned = m.argname]) EXCEPT !.poisoned = ""]
VisitInstanceMethod(m, p, st) ==
  visit_method(m, p, m.parameters, Parameter(p, Len(m.parameters) + 1), st)

\* The main method is visited before the fields are known.
VisitClass(c, p, st) ==
  LET inside(s) ==
        LET each(op(_, _), t, members) == FoldLeft(op, t, [i \in DOMAIN members |-> i])
            mains == each(LAMBDA t, i : VisitMain(c.main_methods[i], MainPath(p, c, i), t), s,
                          c.main_methods)
            fields == each(LAMBDA t, i : declare(t, Declared(FieldPath(p, c, i), c.fields[i])),
                           mains, c.fields)
        IN each(LAMBDA t, i : VisitInstanceMethod(c.instance_methods[i], MethodPath(p, c, i), t),
                fields, c.instance_methods)
  IN IF st.error # "" THEN st
     ELSE scoped([st EXCEPT !.this = c.name], TRUE, inside)

\* globals: the declarations of the globals with their paths.
VisitProgram(ast, p, globals, st) ==
  scoped(st, TRUE, LAMBDA s :
    FoldLeft(LAMBDA t, i : VisitClass(ast.classes[i], Append(p, i), t),
             FoldLeft(LAMBDA t, g : VisitVarDecl(g.decl, g.path, t), s, globals),
             [i \in DOMAIN ast.classes |-> i]))

perform_name_type_analysis(ast, p, expect_main, globals, st) ==
  LET s == perform_shallow_type_analysis(ast, p, st, expect_main)
  IN IF s.error # "" THEN s ELSE VisitProgram(ast, p, globals, s)
=============================================================================
