---------------------------- MODULE SyntaxGrammar ----------------------------
(***************************************************************************)
(* The context-free grammar of MiniJava, as the generator of valid         *)
(* programs in src/src/support/testaux/syntaxgen.tpp writes it down.  A    *)
(* nonterminal maps the set S of places reached in the word w to the set   *)
(* of places it can reach from there.  Place i stands after the first i    *)
(* tokens and Len(w) + 1 for any place behind the end of w, where every    *)
(* terminal matches: there the rest of a sentence can still be chosen.     *)
(***************************************************************************)
EXTENDS Naturals, Sequences

Token(t) == [type |-> t, lexval |-> ""]
Identifier(name) == [type |-> "identifier", lexval |-> name]
Literal(digits) == [type |-> "integer_literal", lexval |-> digits]

After(w, i) == IF i < Len(w) THEN i + 1 ELSE Len(w) + 1
push(w, types, S) ==
  {After(w, i) : i \in {j \in S : j < Len(w) => w[j + 1].type \in types}}
push_id(w, S) == push(w, {"identifier"}, S)
push_String(w, S) ==
  push_id(w, {i \in S : i < Len(w) => w[i + 1].lexval = "String"})

(* A nonterminal has nothing left to do in a word that has ended.          *)
Ended(w, S) == S \subseteq {Len(w) + 1}

(* while (_nest_deeper_eh()) body: any number of repetitions.              *)
Many(w, Body(_, _), S) ==
  LET from[T \in SUBSET (0..Len(w) + 1)] ==
        IF T = {} THEN {} ELSE T \cup from[Body(w, T) \ T]
  IN from[S]

basic_type(w, S) == push(w, {"int", "boolean", "void", "identifier"}, S)
brackets(w, S) == push(w, {"right_bracket"}, push(w, {"left_bracket"}, S))
gen_type(w, S) == Many(w, brackets, basic_type(w, S))

-----------------------------------------------------------------------------
(* The nonterminals that derive each other are one recursive operator.     *)
RECURSIVE gen(_, _, _)
gen_expression(w, S) == gen("expression", w, S)
gen_statement(w, S) == gen("statement", w, S)
gen_block(w, S) == gen("block", w, S)

gen_arguments(w, S) ==
  LET more(v, T) == gen_expression(v, push(v, {"comma"}, T))
  IN S \cup Many(w, more, gen_expression(w, S))

Parenthesized(w, open, Inner(_, _), close, S) ==
  push(w, {close}, Inner(w, push(w, {open}, S)))

gen_call(w, S) ==
  Parenthesized(w, "left_paren", gen_arguments, "right_paren", push_id(w, S))

gen_postfix_op(w, S) ==
  LET dot == push(w, {"dot"}, S)
  IN gen_call(w, dot) \cup push_id(w, dot)
       \cup Parenthesized(w, "left_bracket", gen_expression, "right_bracket", S)

gen_new_obj_expression(w, S) ==
  push(w, {"right_paren"}, push(w, {"left_paren"}, push_id(w, push(w, {"new"}, S))))
gen_new_array_expression(w, S) ==
  Many(w, brackets,
       Parenthesized(w, "left_bracket", gen_expression, "right_bracket",
                     basic_type(w, push(w, {"new"}, S))))

gen_primary_expression(w, S) ==
  push(w, {"null", "false", "true", "integer_literal", "identifier", "this"}, S)
    \cup gen_call(w, S)
    \cup Parenthesized(w, "left_paren", gen_expression, "right_paren", S)
    \cup gen_new_obj_expression(w, S)
    \cup gen_new_array_expression(w, S)

gen_unary_expression(w, S) ==
  LET prefix(v, T) == push(v, {"logical_not", "minus"}, T)
  IN Many(w, gen_postfix_op, gen_primary_expression(w, Many(w, prefix, S)))

(* The levels of binary operators, from the one that binds least.          *)
Levels ==
  << {"assign"}, {"logical_or"}, {"logical_and"}, {"equal", "not_equal"},
     {"less_than", "less_equal", "greater_than", "greater_equal"},
     {"plus", "minus"}, {"multiply", "divide", "modulo"} >>

RECURSIVE gen_binary_expression(_, _, _)
gen_binary_expression(n, w, S) ==
  LET operand(v, T) == gen_binary_expression(n + 1, v, T)
      more(v, T) == operand(v, push(v, Levels[n], T))
  IN IF Ended(w, S) THEN S
     ELSE IF n > Len(Levels) THEN gen_unary_expression(w, S)
     ELSE Many(w, more, operand(w, S))

-----------------------------------------------------------------------------
gen_local_variable_statement(w, S) ==
  LET declared == push_id(w, gen_type(w, S))
  IN push(w, {"semicolon"},
          declared \cup gen_expression(w, push(w, {"assign"}, declared)))

Block(w, S) ==
  LET statement(v, T) == gen_statement(v, T) \cup gen_local_variable_statement(v, T)
  IN push(w, {"right_brace"}, Many(w, statement, push(w, {"left_brace"}, S)))

gen_condition(w, S) ==
  Parenthesized(w, "left_paren", gen_expression, "right_paren", S)
gen_while_statement(w, S) == gen_statement(w, gen_condition(w, push(w, {"while"}, S)))
gen_if_statement(w, S) ==
  LET then == gen_statement(w, gen_condition(w, push(w, {"if"}, S)))
  IN then \cup gen_statement(w, push(w, {"else"}, then))
gen_return_statement(w, S) ==
  LET kw == push(w, {"return"}, S) IN push(w, {"semicolon"}, kw \cup gen_expression(w, kw))

Statement_(w, S) ==
  gen_block(w, S)
    \cup push(w, {"semicolon"}, S)
    \cup gen_if_statement(w, S)
    \cup push(w, {"semicolon"}, gen_expression(w, S))
    \cup gen_while_statement(w, S)
    \cup gen_return_statement(w, S)

-----------------------------------------------------------------------------
gen_throws_spec(w, S) == S \cup push_id(w, push(w, {"throws"}, S))

gen_parameters(w, S) ==
  LET parameter(v, T) == push_id(v, gen_type(v, T))
      more(v, T) == parameter(v, push(v, {"comma"}, T))
  IN S \cup Many(w, more, parameter(w, S))

gen_main_method(w, S) ==
  LET name == push_id(w, push(w, {"void"}, push(w, {"static"}, push(w, {"public"}, S))))
      argument(v, T) == push_id(v, brackets(v, push_String(v, T)))
  IN gen_block(w, gen_throws_spec(w,
       Parenthesized(w, "left_paren", argument, "right_paren", name)))

gen_class_member(w, S) ==
  LET named == push_id(w, gen_type(w, push(w, {"public"}, S)))
  IN push(w, {"semicolon"}, named)
       \cup gen_block(w, gen_throws_spec(w,
              Parenthesized(w, "left_paren", gen_parameters, "right_paren", named)))
       \cup gen_main_method(w, S)

gen_class_decl(w, S) ==
  push(w, {"right_brace"}, Many(w, gen_class_member,
       push(w, {"left_brace"}, push_id(w, push(w, {"class"}, S)))))

gen(what, w, S) ==
  IF Ended(w, S) THEN S
  ELSE CASE what = "expression" -> gen_binary_expression(1, w, S)
         [] what = "statement" -> Statement_(w, S)
         [] what = "block" -> Block(w, S)
         [] what = "program" -> Many(w, gen_class_decl, S)

gen_program(w) == gen("program", w, {0})

(* w is a program, w can be continued to one.                              *)
Sentence(w) == Len(w) \in gen_program(w)
Viable(w) == gen_program(w) \cap {Len(w), Len(w) + 1} # {}
=============================================================================
