---------------------------- MODULE PrettyPrinter ----------------------------
(***************************************************************************)
(* The pretty printer (src/src/core/parser/pretty_printer.cpp): a tree to  *)
(* the tokens of its text.  Indentation, spaces and line breaks are left   *)
(* out, and with them the state that only they depend on.                  *)
(***************************************************************************)
EXTENDS Parser

T(t) == <<Token(t)>>
(* A mutant: no parentheses.                                               *)
Unwrapped(parens, tokens) == tokens
Wrapped(parens, tokens) == IF parens THEN T("left_paren") \o tokens \o T("right_paren") ELSE tokens

Times(n, tokens) == FlattenSeq([i \in 1..n |-> tokens])
Brackets_ == T("left_bracket") \o T("right_bracket")
TypeName(name) == IF name \in primitive_type THEN T(name) ELSE <<Identifier(name)>>
PrintType(t) == TypeName(t.name) \o Times(t.rank, Brackets_)

(* for_each_glue: the parts with a comma between any two of them.          *)
Glued(parts) ==
  FlattenSeq([i \in 1..Len(parts) |-> (IF i = 1 THEN <<>> ELSE T("comma")) \o parts[i]])

(* _print_expression_parens is parens: an expression inside another one is *)
(* put in parentheses unless brackets or commas already delimit it.        *)
RECURSIVE PrintExpression(_, _)
PrintExpression(e, parens) ==
  LET inner(x) == PrintExpression(x, TRUE)
      delimited(x) == PrintExpression(x, FALSE)
      target == IF e.target = nullptr THEN <<>> ELSE inner(e.target) \o T("dot")
      arguments == Glued([i \in 1..Len(e.arguments) |-> delimited(e.arguments[i])])
  IN CASE e.node = "binary_expression" ->
            Wrapped(parens, inner(e.lhs) \o T(e.type) \o inner(e.rhs))
       [] e.node = "unary_expression" -> Wrapped(parens, T(e.type) \o inner(e.target))
       [] e.node = "object_instantiation" ->
            Wrapped(parens, T("new") \o <<Identifier(e.class_name)>>
                              \o T("left_paren") \o T("right_paren"))
       [] e.node = "array_instantiation" ->
            Wrapped(parens, T("new") \o TypeName(e.array_type.name)
                              \o T("left_bracket") \o delimited(e.extent) \o T("right_bracket")
                              \o Times(e.array_type.rank - 1, Brackets_))
       [] e.node = "array_access" ->
            Wrapped(parens, inner(e.target)
                              \o T("left_bracket") \o delimited(e.index) \o T("right_bracket"))
       [] e.node = "variable_access" ->
            Wrapped(parens /\ e.target # nullptr, target \o <<Identifier(e.name)>>)
       [] e.node = "method_invocation" ->
            Wrapped(parens, target \o <<Identifier(e.name)>>
                              \o T("left_paren") \o arguments \o T("right_paren"))
       [] e.node = "this_ref" -> T("this")
       [] e.node = "boolean_constant" -> T(IF e.value THEN "true" ELSE "false")
       [] e.node = "integer_constant" ->
            IF e.negative THEN Wrapped(parens, T("minus") \o <<Literal(e.literal)>>)
            ELSE <<Literal(e.literal)>>
       [] e.node = "null_constant" -> T("null")

PrintVarDecl(d) == PrintType(d.var_type) \o <<Identifier(d.name)>>

is_nonempty_block(s) == s.node = "block" /\ \E i \in 1..Len(s.body) : s.body[i] # empty_statement

(* An empty statement is printed only as the body of a loop or a branch    *)
(* (body: one of _start_if, _start_else and _start_loop is set).           *)
RECURSIVE PrintStatement(_, _)
PrintStatement(s, body) ==
  LET top(e) == PrintExpression(e, FALSE)
      optional(t, e) == IF e = nullptr THEN <<>> ELSE t \o top(e)
      condition == T("left_paren") \o top(s.condition) \o T("right_paren")
  IN CASE s.node = "local_variable_statement" ->
            PrintVarDecl(s.declaration) \o optional(T("assign"), s.initial_value)
              \o T("semicolon")
       [] s.node = "expression_statement" -> top(s.inner_expression) \o T("semicolon")
       [] s.node = "block" ->
            T("left_brace")
              \o (IF is_nonempty_block(s)
                  THEN FlattenSeq([i \in 1..Len(s.body) |-> PrintStatement(s.body[i], FALSE)])
                  ELSE <<>>)
              \o T("right_brace")
       [] s.node = "if_statement" ->
            T("if") \o condition \o PrintStatement(s.then_statement, TRUE)
              \o (IF s.else_statement = nullptr THEN <<>>
                  ELSE T("else") \o PrintStatement(s.else_statement, TRUE))
       [] s.node = "while_statement" -> T("while") \o condition \o PrintStatement(s.body, TRUE)
       [] s.node = "return_statement" ->
            T("return") \o optional(<<>>, s.value) \o T("semicolon")
       [] s.node = "empty_statement" -> IF body THEN T("semicolon") ELSE <<>>

PrintField(f) == T("public") \o PrintVarDecl(f) \o T("semicolon")

PrintMethod(m) ==
  T("public")
    \o (IF m.node = "main_method"
        THEN T("static") \o T("void") \o <<Identifier(m.name)>> \o T("left_paren")
               \o <<Identifier("String")>> \o Brackets_ \o <<Identifier(m.argname)>>
        ELSE PrintType(m.return_type) \o <<Identifier(m.name)>> \o T("left_paren")
               \o Glued([i \in 1..Len(m.parameters) |-> PrintVarDecl(m.parameters[i])]))
    \o T("right_paren") \o PrintStatement(m.body, FALSE)

(* The methods by name, then the fields by name.                           *)
PrintClass(c) ==
  LET methods == sort_ptrs_by_symbol_name(c.instance_methods \o c.main_methods)
      fields == sort_ptrs_by_symbol_name(c.fields)
  IN T("class") \o <<Identifier(c.name)>> \o T("left_brace")
       \o FlattenSeq([i \in 1..Len(methods) |-> PrintMethod(methods[i])])
       \o FlattenSeq([i \in 1..Len(fields) |-> PrintField(fields[i])])
       \o T("right_brace")

to_text(p) ==
  LET classes == sort_ptrs_by_symbol_name(p.classes)
  IN FlattenSeq([i \in 1..Len(classes) |-> PrintClass(classes[i])])
=============================================================================
