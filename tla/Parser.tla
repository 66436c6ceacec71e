------------------------------- MODULE Parser -------------------------------
(***************************************************************************)
(* The recursive descent parser (src/src/core/parser/parser.tpp).  A parse *)
(* function maps the state of the parser to its next state:                *)
(*   tokens    the input, current the token at place at; behind the end    *)
(*             it is eof.  A token that is put back is read again.         *)
(*   ok        no syntax_error has been thrown                             *)
(*   expected  the token types the error names                             *)
(*   ast       what the function returned                                  *)
(* An error ends everything: no function changes the state of a parser     *)
(* that has failed.  The grammar module only lends the tokens.             *)
(***************************************************************************)
EXTENDS AbstractSyntax, SyntaxGrammar

Start(tokens) == [tokens |-> tokens, at |-> 1, ok |-> TRUE, expected |-> {}, ast |-> nullptr]

current(s) == IF s.at <= Len(s.tokens) THEN s.tokens[s.at] ELSE Token("eof")
current_is(s, types) == s.ok /\ current(s).type \in types
advance(s) == IF s.ok THEN [s EXCEPT !.at = @ + 1] ELSE s
putback(s, n) == IF s.ok THEN [s EXCEPT !.at = @ - n] ELSE s
throw(s, types) == IF s.ok THEN [s EXCEPT !.ok = FALSE, !.expected = types] ELSE s
expect(s, types) == IF current_is(s, types) THEN s ELSE throw(s, types)
consume(s, types) == advance(expect(s, types))
make(s, tree) == IF s.ok THEN [s EXCEPT !.ast = tree] ELSE s

type_first == {"identifier"} \cup primitive_type
primary_expr_first ==
  {"null", "false", "true", "integer_literal", "identifier", "this", "left_paren", "new"}
prefix_ops_first == {"logical_not", "minus"}
postfix_ops_first == {"dot", "left_bracket"}

-----------------------------------------------------------------------------
(* op_infos: the operators that are enabled.                               *)
op_infos ==
  [t \in {"assign"} |-> [prec |-> 1, left |-> FALSE]]
  @@ [t \in {"logical_or"} |-> [prec |-> 3, left |-> TRUE]]
  @@ [t \in {"logical_and"} |-> [prec |-> 4, left |-> TRUE]]
  @@ [t \in {"equal", "not_equal"} |-> [prec |-> 8, left |-> TRUE]]
  @@ [t \in {"less_than", "less_equal", "greater_than", "greater_equal"} |->
        [prec |-> 9, left |-> TRUE]]
  @@ [t \in {"plus", "minus"} |-> [prec |-> 11, left |-> TRUE]]
  @@ [t \in {"multiply", "divide", "modulo"} |-> [prec |-> 12, left |-> TRUE]]

is_binary_op(t) == t \in DOMAIN op_infos
precedence(t) == op_infos[t].prec
(* A mutant: assignments associate to the left like everything else.       *)
AlwaysLeft(t) == is_binary_op(t)
is_left_assoc(t) == op_infos[t].left

(* The functions that call each other around a circle are one recursive    *)
(* operator, their bodies its alternatives at the end of the module.       *)
RECURSIVE parse(_, _), Arguments(_, _)
parse_expression(s) == parse("expression", s)
parse_arguments(s) == parse("arguments", s)
parse_statement(s) == parse("statement", s)
parse_block(s) == parse("block", s)

(* parse_arguments: the arguments collected so far are args.               *)
Arguments(s, args) ==
  LET more(e, all) == IF ~e.ok THEN e
                      ELSE IF current_is(e, {"comma"}) THEN Arguments(advance(e), all)
                      ELSE make(e, all)
      after(e) == more(e, Append(args, e.ast))
  IN after(parse_expression(s))
ArgumentList(s) ==
  IF current_is(s, {"right_paren"}) THEN make(s, <<>>) ELSE Arguments(s, <<>>)

parse_invocation(s, target, name) ==
  LET called(a) == make(consume(a, {"right_paren"}), method_invocation(target, name, a.ast))
  IN called(parse_arguments(advance(s)))

(* A minus sign directly before a literal becomes part of the literal.     *)
parse_integer_literal(s, preops) ==
  LET negative == preops # <<>> /\ Last(preops) = "minus"
  IN [s |-> make(advance(s), integer_constant(current(s).lexval, negative)),
      preops |-> IF negative THEN Front(preops) ELSE preops]

parse_variable_or_function_call(s) ==
  LET name == current(s).lexval
      t == advance(s)
  IN IF current_is(t, {"left_paren"}) THEN parse_invocation(t, nullptr, name)
     ELSE make(t, variable_access(nullptr, name))

parse_parenthesized_expression(s) ==
  consume(parse_expression(advance(s)), {"right_paren"})

make_type(tok, rank) ==
  type(IF tok.type = "identifier" THEN tok.lexval ELSE tok.type, rank)

RECURSIVE Rank(_, _)
(* new T[extent][][]...: a bracket that is not closed at once is put back, *)
(* it subscripts the new array.                                            *)
Rank(s, rank) ==
  LET t == advance(s)
  IN IF ~current_is(s, {"left_bracket"}) THEN [s |-> s, rank |-> rank]
     ELSE IF current_is(t, {"right_bracket"}) THEN Rank(advance(t), rank + 1)
     ELSE [s |-> putback(t, 1), rank |-> rank]

parse_new_expression(s) ==
  LET tok == current(advance(s))
      array(r, extent) ==
        make(r.s, array_instantiation(make_type(tok, r.rank), extent.ast))
      sized(extent) == IF ~extent.ok THEN extent
                       ELSE array(Rank(consume(extent, {"right_bracket"}), 1), extent)
      named(u) ==
        IF ~current_is(u, {"left_paren"}) THEN sized(parse_expression(advance(u)))
        ELSE IF tok.type # "identifier" THEN throw(u, {})
        ELSE make(consume(advance(u), {"right_paren"}), object_instantiation(tok.lexval))
  IN named(expect(consume(advance(s), type_first), {"left_paren", "left_bracket"}))

parse_primary(s, preops) ==
  LET is(t) == current(s).type = t
      plain(t) == [s |-> t, preops |-> preops]
  IN CASE is("null") -> plain(make(advance(s), null_constant))
       [] is("false") -> plain(make(advance(s), boolean_constant(FALSE)))
       [] is("true") -> plain(make(advance(s), boolean_constant(TRUE)))
       [] is("integer_literal") -> parse_integer_literal(s, preops)
       [] is("this") -> plain(make(advance(s), this_ref))
       [] is("identifier") -> plain(parse_variable_or_function_call(s))
       [] is("left_paren") -> plain(parse_parenthesized_expression(s))
       [] is("new") -> plain(parse_new_expression(s))

parse_postfix_op(s) ==
  LET name == current(advance(s)).lexval
      indexed(index) == make(consume(index, {"right_bracket"}), array_access(s.ast, index.ast))
      member(t) == IF current_is(t, {"left_paren"}) THEN parse_invocation(t, s.ast, name)
                   ELSE make(t, variable_access(s.ast, name))
  IN IF current_is(s, {"left_bracket"}) THEN indexed(parse_expression(advance(s)))
     ELSE member(consume(advance(s), {"identifier"}))

RECURSIVE PrefixOps(_, _), PostfixOps(_), UnaryOps(_, _), Operand(_, _, _), Operators(_, _, _)

PrefixOps(s, preops) ==
  IF current_is(s, prefix_ops_first)
  THEN PrefixOps(advance(s), Append(preops, current(s).type))
  ELSE [s |-> expect(s, primary_expr_first), preops |-> preops]

PostfixOps(s) ==
  IF current_is(s, postfix_ops_first) THEN PostfixOps(parse_postfix_op(s)) ELSE s

UnaryOps(s, preops) ==
  IF preops = <<>> THEN s
  ELSE UnaryOps(make(s, unary_expression(Last(preops), s.ast)), Front(preops))

(* outer_loop of the precedence climbing: one operand with its prefix and  *)
(* postfix operators.  prec_stack holds the operators that wait for their  *)
(* right operand, min_prec is the level the next operator must have.       *)
Operand(s, prec_stack, min_prec) ==
  LET whole(rhs, preops) == IF ~rhs.ok THEN rhs
                            ELSE Operators(UnaryOps(rhs, preops), prec_stack, min_prec)
      primary(q) == whole(PostfixOps(q.s), q.preops)
      prefixed(p) == IF ~p.s.ok THEN p.s ELSE primary(parse_primary(p.s, p.preops))
  IN prefixed(PrefixOps(s, <<>>))

(* inner_loop: go on with the operator that follows, or finish the one     *)
(* that has waited longest.                                                *)
Operators(rhs, prec_stack, min_prec) ==
  LET op == current(rhs).type
      top == Last(prec_stack)
  IN IF is_binary_op(op) /\ precedence(op) >= min_prec
     THEN Operand(advance(rhs),
                  Append(prec_stack, [min |-> min_prec, lhs |-> rhs.ast, op |-> op]),
                  precedence(op) + (IF is_left_assoc(op) THEN 1 ELSE 0))
     ELSE IF prec_stack # <<>>
     THEN Operators(make(rhs, binary_expression(top.op, top.lhs, rhs.ast)),
                    Front(prec_stack), top.min)
     ELSE rhs

-----------------------------------------------------------------------------
RECURSIVE Brackets(_, _)
Brackets(s, rank) ==
  IF current_is(s, {"left_bracket"})
  THEN Brackets(consume(advance(s), {"right_bracket"}), rank + 1)
  ELSE [s |-> s, rank |-> rank]

parse_type(s) ==
  LET ranked(b) == make(b.s, make_type(current(s), b.rank)) IN ranked(Brackets(advance(s), 0))

RECURSIVE BlockStatements(_, _)

parse_local_variable_decl(s) ==
  LET initialized(init, t) ==
        make(consume(init, {"semicolon"}),
             local_variable_statement(var_decl(t.ast, current(t).lexval), init.ast))
      initial(u) == IF current_is(u, {"assign"}) THEN parse_expression(advance(u))
                    ELSE make(u, nullptr)
      typed(t) == initialized(initial(consume(t, {"identifier"})), t)
  IN typed(parse_type(s))

(* A declaration or a statement: up to three tokens are read and put back. *)
(* A mutant: of two tokens read ahead only one is put back.                *)
LookAheadLosesToken(s) ==
  LET second(t) == [s |-> putback(t, 1), declares |-> current_is(t, {"right_bracket"})]
      first(t) == IF current_is(t, {"left_bracket"}) THEN second(advance(t))
                  ELSE [s |-> putback(t, 1), declares |-> current_is(t, {"identifier"})]
  IN IF current_is(s, {"identifier"}) THEN first(advance(s))
     ELSE IF current_is(s, type_first)
     THEN first(expect(advance(s), {"identifier", "left_bracket"}))
     ELSE [s |-> s, declares |-> FALSE]

LookAhead(s) ==
  LET second(t) == [s |-> putback(t, 2), declares |-> current_is(t, {"right_bracket"})]
      first(t) == IF current_is(t, {"left_bracket"}) THEN second(advance(t))
                  ELSE [s |-> putback(t, 1), declares |-> current_is(t, {"identifier"})]
  IN IF current_is(s, {"identifier"}) THEN first(advance(s))
     ELSE IF current_is(s, type_first)
     THEN first(expect(advance(s), {"identifier", "left_bracket"}))
     ELSE [s |-> s, declares |-> FALSE]

parse_block_statement(s) ==
  LET rest(seen) == IF seen.declares THEN parse_local_variable_decl(seen.s)
                    ELSE parse_statement(seen.s)
  IN rest(LookAhead(s))

BlockStatements(s, body) ==
  LET after(b) == BlockStatements(b, Append(body, b.ast))
  IN IF ~s.ok THEN s
     ELSE IF current_is(s, {"right_brace"}) THEN make(advance(s), block(body))
     ELSE after(parse_block_statement(s))

parse_empty_statement(s) == make(advance(s), empty_statement)

parse_condition(s) ==
  consume(parse_expression(consume(advance(s), {"left_paren"})), {"right_paren"})

parse_while(s) ==
  LET whole(body, cond) == make(body, while_statement(cond.ast, body.ast))
      after(cond) == whole(parse_statement(cond), cond)
  IN after(parse_condition(s))

parse_if(s) ==
  LET whole(else, then, cond) == make(else, if_statement(cond.ast, then.ast, else.ast))
      branch(then, cond) ==
        whole(IF current_is(then, {"else"}) THEN parse_statement(advance(then))
              ELSE make(then, nullptr), then, cond)
      after(cond) == branch(parse_statement(cond), cond)
  IN after(parse_condition(s))

parse_expression_statement(s) ==
  LET after(e) == make(consume(e, {"semicolon"}), expression_statement(e.ast))
  IN after(parse_expression(s))

parse_return(s) ==
  LET t == advance(s)
      after(value) == make(consume(value, {"semicolon"}), return_statement(value.ast))
  IN after(IF current_is(t, {"semicolon"}) THEN make(t, nullptr) ELSE parse_expression(t))

Statement(s) ==
  LET is(t) == current(s).type = t
  IN CASE is("left_brace") -> parse_block(s)
       [] is("semicolon") -> parse_empty_statement(s)
       [] is("if") -> parse_if(s)
       [] is("while") -> parse_while(s)
       [] is("return") -> parse_return(s)
       [] OTHER -> parse_expression_statement(s)

-----------------------------------------------------------------------------
RECURSIVE Parameters(_, _), Members(_, _), Classes(_, _)

parse_parameter(s) ==
  LET named(t) == make(consume(t, {"identifier"}), var_decl(t.ast, current(t).lexval))
  IN named(parse_type(s))
Parameters(s, params) ==
  LET more(p, all) ==
        IF current_is(p, {"comma"}) THEN Parameters(expect(advance(p), type_first), all)
        ELSE make(p, all)
      after(p) == more(p, Append(params, p.ast))
  IN IF s.ok THEN after(parse_parameter(s)) ELSE s
parse_parameters(s) == IF current_is(s, type_first) THEN Parameters(s, <<>>) ELSE make(s, <<>>)

consume_throws_spec(s) ==
  IF current_is(s, {"throws"}) THEN consume(advance(s), {"identifier"}) ELSE s

parse_body(s) ==
  parse_block(expect(consume_throws_spec(consume(s, {"right_paren"})), {"left_brace"}))

parse_main_method(s) ==
  LET whole(body, name, arg) == make(body, main_method(name, arg, body.ast))
      argument(t, name) == whole(parse_body(consume(t, {"identifier"})), name, current(t).lexval)
      string(t) == IF current(t).lexval = "String" THEN advance(t) ELSE throw(t, {})
      open(t) == expect(consume(consume(t, {"identifier"}), {"left_paren"}), {"identifier"})
      named(t) == argument(consume(consume(string(open(t)), {"left_bracket"}),
                                   {"right_bracket"}), current(t).lexval)
  IN named(consume(advance(s), {"void"}))

(* A mutant: the message about a member names the closing brace as well.   *)
MemberOrBrace == type_first \cup {"static", "right_brace"}
member_first == type_first \cup {"static"}

(* The members of a class so far are m: its fields, methods and mains.     *)
parse_class_member(s, m) ==
  LET main(t) == make(t, [m EXCEPT !.mains = Append(@, t.ast)])
      field(t, ty) == make(t, [m EXCEPT !.fields = Append(@, var_decl(ty.ast, current(ty).lexval))])
      whole(body, params, ty) ==
        make(body, [m EXCEPT !.methods =
                      Append(@, instance_method(current(ty).lexval, ty.ast, params.ast, body.ast))])
      method(params, ty) == whole(parse_body(params), params, ty)
      named(t, ty) ==
        IF current_is(t, {"semicolon"}) THEN field(advance(t), ty)
        ELSE IF current_is(t, {"left_paren"}) THEN method(parse_parameters(advance(t)), ty)
        ELSE expect(t, {"semicolon", "left_paren"})
      typed(ty) == named(consume(ty, {"identifier"}), ty)
      member(t) == IF current_is(t, {"static"}) THEN main(parse_main_method(t))
                   ELSE IF t.ok THEN typed(parse_type(t))
                   ELSE t
  IN member(expect(advance(expect(s, {"public"})), member_first))

Members(s, m) ==
  LET after(t) == Members(t, t.ast)
  IN IF ~s.ok THEN s
     ELSE IF current_is(s, {"right_brace"}) THEN make(advance(s), m)
     ELSE after(parse_class_member(s, m))

parse_class_declaration(s) ==
  LET t == advance(s)
      whole(m) ==
        make(m, class_declaration(current(t).lexval, m.ast.fields, m.ast.methods, m.ast.mains))
  IN whole(Members(consume(consume(t, {"identifier"}), {"left_brace"}),
                   [fields |-> <<>>, methods |-> <<>>, mains |-> <<>>]))

Classes(s, classes) ==
  LET after(c) == Classes(c, Append(classes, c.ast))
  IN IF ~s.ok THEN s
     ELSE IF current_is(s, {"eof"}) THEN make(s, program(classes))
     ELSE after(parse_class_declaration(expect(s, {"class"})))

parse(what, s) ==
  IF ~s.ok THEN s
  ELSE CASE what = "expression" -> Operand(s, <<>>, 0)
         [] what = "arguments" -> ArgumentList(s)
         [] what = "statement" -> Statement(s)
         [] what = "block" -> BlockStatements(advance(s), <<>>)
         [] what = "program" -> Classes(s, <<>>)

parse_program(tokens) == parse("program", Start(tokens))
=============================================================================
