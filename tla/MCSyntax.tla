------------------------------ MODULE MCSyntax ------------------------------
(***************************************************************************)
(* The front of the compiler on small inputs.  A behaviour either lexes a  *)
(* text of a few characters, or lets a program grow token by token for as  *)
(* long as the parser only complains about its end.                        *)
(***************************************************************************)
EXTENDS Lexer, PrettyPrinter

CONSTANTS
  Length,   \* characters of a text
  Contexts  \* where a program grows: before, after, tokens and how many

VARIABLES
  context, \* where the program grows
  grown    \* the tokens added

vars == <<text, cursor, scanning, lexed, status, context, grown>>

\* The texts: all characters, then comments, then the longest operators.
Texts ==
  UNION {[1..n -> {"a", "0", "1", " ", "\n", "/", "*", "=", "#"}] : n \in 0..Length}
    \cup [1..Length + 2 -> {"/", "*", "\n"}]
    \cup [1..Length + 1 -> {"<", ">", "=", "&"}]

Word(s) == [i \in 1..Len(s) |-> IF s[i] \in Range(Names) THEN Identifier(s[i])
                                ELSE IF s[i] \in {"0", "5"} THEN Literal(s[i])
                                ELSE Token(s[i])]

InClass == <<"class", "A", "left_brace">>
InMethod ==
  InClass \o <<"public", "int", "f", "left_paren", "right_paren", "left_brace">>
Closed(n) == [i \in 1..n |-> "right_brace"]

Programs ==
  [before |-> <<>>, after |-> Closed(1), limit |-> 6,
   tokens |-> {"class", "A", "left_brace", "right_brace", "semicolon"}]
Members_ ==
  [before |-> InClass \o <<"public">>, after |-> InMethod \o Closed(3), limit |-> 6,
   tokens |-> {"int", "A", "f", "left_paren", "right_paren", "semicolon",
               "left_bracket", "right_bracket", "comma", "throws"}]
Bodies ==
  [before |-> InClass, after |-> Closed(1), limit |-> 6,
   tokens |-> {"public", "static", "void", "f", "semicolon", "left_paren", "right_paren",
               "left_brace", "right_brace"}]
Mains ==
  [before |-> InClass \o <<"public", "static">>, after |-> Closed(2), limit |-> 10,
   tokens |-> {"void", "int", "f", "String", "left_paren", "right_paren", "left_bracket",
               "right_bracket", "left_brace"}]
Declarations ==
  [before |-> InMethod, after |-> <<"semicolon">> \o Closed(2), limit |-> 6,
   tokens |-> {"int", "f", "left_bracket", "right_bracket", "assign", "semicolon"}]
Statements ==
  [before |-> InMethod, after |-> Closed(2), limit |-> 5,
   tokens |-> {"f", "semicolon", "left_brace", "right_brace", "return", "while", "left_paren"}]
Branches ==
  [before |-> InMethod \o <<"if", "left_paren", "f", "right_paren",
                            "if", "left_paren", "f", "right_paren">>,
   after |-> <<"semicolon">> \o Closed(2), limit |-> 5,
   tokens |-> {"else", "f", "semicolon", "left_brace", "right_brace"}]
Operations(operators) ==
  [before |-> InMethod \o <<"f", "assign">>, after |-> <<"semicolon">> \o Closed(2), limit |-> 6,
   tokens |-> {"f", "minus"} \cup operators]
Arrays ==
  [before |-> InMethod, after |-> <<"semicolon">> \o Closed(2), limit |-> 6,
   tokens |-> {"f", "left_bracket", "right_bracket", "dot", "new", "int"}]
Calls ==
  [before |-> InMethod, after |-> <<"semicolon">> \o Closed(2), limit |-> 6,
   tokens |-> {"f", "5", "minus", "left_paren", "right_paren", "comma"}]
Nested_ ==
  [before |-> InMethod \o <<"left_paren", "f", "assign">>, after |-> <<"semicolon">> \o Closed(2), limit |-> 6,
   tokens |-> {"f", "assign", "minus", "multiply", "right_paren"}]
Mixed == Operations({"assign", "logical_or", "logical_and", "equal"})
Arithmetic == Operations({"5", "equal", "less_than", "plus", "multiply"})
MCContexts == {Programs, Members_, Bodies, Mains, Declarations, Statements, Branches,
               Nested_, Mixed, Arithmetic, Arrays, Calls}
MCNames == <<"A", "String", "f">>
MCSpaces == {" ", "\n"}

Before == Word(context.before) \o grown
Program == Before \o Word(context.after)

Init ==
  \/ LexerInit(Texts) /\ context = Programs /\ grown = <<>>
  \/ /\ text = <<>> /\ cursor = Start_ /\ scanning = Nothing /\ lexed = <<>> /\ status = "eof"
     /\ context \in Contexts
     /\ grown = <<>>

(* The place of an error.  A statement that begins with a primitive type   *)
(* and an opening bracket that is not closed at once is read again as an   *)
(* expression, and the error is reported at the type, two tokens early.    *)
ErrorPlace(w, s) ==
  IF s.at < Len(w) /\ w[s.at].type \in primitive_type /\ w[s.at + 1].type = "left_bracket"
       /\ s.expected = primary_expr_first
  THEN s.at + 2 ELSE s.at

(* The parser throws at the end of the input, so the input may go on.      *)
OkOrAtEnd(s) == s.ok \/ ErrorPlace(s.tokens, s) = Len(s.tokens) + 1

Grow ==
  /\ text = <<>> /\ status = "eof"
  /\ Len(grown) < context.limit
  /\ OkOrAtEnd(parse_program(Before))
  /\ \E t \in context.tokens : grown' = Append(grown, Word(<<t>>)[1])
  /\ UNCHANGED <<text, cursor, scanning, lexed, status, context>>

Next == (do_advance /\ UNCHANGED <<context, grown>>) \/ Grow
Spec == Init /\ [][Next]_vars

-----------------------------------------------------------------------------
Judged(w, s) ==
  LET place == ErrorPlace(w, s)
  IN /\ s.ok <=> Sentence(w)
     /\ IF s.ok THEN s.at = Len(w) + 1
        ELSE /\ place \in 1..Len(w) + 1
             /\ \A n \in {place - 1, place} \ {Len(w) + 1} :
                  Viable(SubSeq(w, 1, n)) <=> n < place

(* The parser accepts exactly the sentences of the grammar, and reports an *)
(* error at the first token with which no program continues, however many  *)
(* tokens it has read ahead and put back, but for what ErrorPlace says.    *)
ErrorAtFirstImpossibleToken ==
  \A w \in {Before, Program} : Judged(w, parse_program(w))

(* Every token type that an error message names could have stood there,    *)
(* and the one that stood there is none of them.  Only after new and a     *)
(* primitive type a parenthesis is named that the parser then refuses.     *)
ExpectedTokensPossible ==
  LET named(s, seen) == IF Len(seen) > 1 /\ seen[Len(seen) - 1].type = "new"
                             /\ Last(seen).type \in primitive_type
                        THEN s.expected \ {"left_paren"} ELSE s.expected
      possible(s, seen) ==
        /\ \A t \in named(s, seen) : Viable(Append(seen, [type |-> t, lexval |-> "String"]))
        /\ current(s).type \notin s.expected
      judge(s) == ~s.ok => possible(s, SubSeq(Before, 1, s.at - 1))
  IN judge(parse_program(Before))

-----------------------------------------------------------------------------
(* What printing does to a tree: an empty statement that is no body is     *)
(* lost, a minus sign before a literal becomes part of it.                 *)
RECURSIVE Normal(_)
Normal(n) ==
  CASE n.node = "block" ->
         [n EXCEPT !.body = LET kept == SelectSeq(@, LAMBDA s : s # empty_statement)
                            IN [i \in 1..Len(kept) |-> Normal(kept[i])]]
    [] n.node = "if_statement" ->
         [n EXCEPT !.condition = Normal(@), !.then_statement = Normal(@),
                   !.else_statement = Normal(@)]
    [] n.node = "while_statement" -> [n EXCEPT !.condition = Normal(@), !.body = Normal(@)]
    [] n.node = "expression_statement" -> [n EXCEPT !.inner_expression = Normal(@)]
    [] n.node = "return_statement" -> [n EXCEPT !.value = Normal(@)]
    [] n.node = "local_variable_statement" -> [n EXCEPT !.initial_value = Normal(@)]
    [] n.node = "binary_expression" -> [n EXCEPT !.lhs = Normal(@), !.rhs = Normal(@)]
    [] n.node = "unary_expression" ->
         IF n.type = "minus" /\ n.target.node = "integer_constant" /\ ~n.target.negative
         THEN integer_constant(n.target.literal, TRUE)
         ELSE [n EXCEPT !.target = Normal(@)]
    [] n.node = "array_instantiation" -> [n EXCEPT !.extent = Normal(@)]
    [] n.node = "array_access" -> [n EXCEPT !.target = Normal(@), !.index = Normal(@)]
    [] n.node = "variable_access" -> [n EXCEPT !.target = Normal(@)]
    [] n.node = "method_invocation" ->
         [n EXCEPT !.target = Normal(@),
                   !.arguments = [i \in 1..Len(@) |-> Normal(@[i])]]
    [] n.node \in {"main_method", "instance_method"} -> [n EXCEPT !.body = Normal(@)]
    [] n.node = "class_declaration" ->
         [n EXCEPT !.instance_methods = [i \in 1..Len(@) |-> Normal(@[i])],
                   !.main_methods = [i \in 1..Len(@) |-> Normal(@[i])]]
    [] n.node = "program" -> [n EXCEPT !.classes = [i \in 1..Len(@) |-> Normal(@[i])]]
    [] OTHER -> n

(* The text of a program is a program with the same tree, but for what     *)
(* Normal says, and printing it again gives the same text.                 *)
PrintedTextParses ==
  LET same(t, printed, ast) ==
        t.ok /\ equal(t.ast, Normal(ast)) /\ to_text(t.ast) = printed
      reread(printed, ast) == same(parse_program(printed), printed, ast)
      judge(s) == s.ok => reread(to_text(s.ast), s.ast)
  IN judge(parse_program(Program))

-----------------------------------------------------------------------------
(* The level of the grammar at which an expression is derived without      *)
(* parentheses: 1 to 7 for the binary operators, 8 for the prefix          *)
(* operators, 9 for the rest.                                              *)
Level(e) ==
  CASE e.node = "binary_expression" -> CHOOSE n \in 1..Len(Levels) : e.type \in Levels[n]
    [] e.node = "unary_expression" -> 8
    [] e.node = "integer_constant" -> IF e.negative THEN 8 ELSE 9
    [] OTHER -> 9

RECURSIVE Nested(_)
Nested(e) ==
  CASE e.node = "binary_expression" ->
         LET left == IF e.type = "assign" THEN Level(e) + 1 ELSE Level(e)
             right == IF e.type = "assign" THEN Level(e) ELSE Level(e) + 1
         IN /\ Level(e.lhs) >= left /\ Level(e.rhs) >= right
            /\ Nested(e.lhs) /\ Nested(e.rhs)
    [] e.node = "unary_expression" -> Level(e.target) >= 8 /\ Nested(e.target)
    [] e.node = "array_access" ->
         (Level(e.target) = 9 \/ e.target.node = "integer_constant") /\ Nested(e.target)
    [] OTHER -> TRUE

(* The tokens of an expression in the order of its leaves and operators.   *)
RECURSIVE Yield(_)
Yield(e) ==
  CASE e.node = "binary_expression" -> Yield(e.lhs) \o T(e.type) \o Yield(e.rhs)
    [] e.node = "unary_expression" -> T(e.type) \o Yield(e.target)
    [] e.node = "integer_constant" ->
         (IF e.negative THEN T("minus") ELSE <<>>) \o <<Literal(e.literal)>>
    [] e.node = "variable_access" -> <<Identifier(e.name)>>

(* Precedence climbing nests operators as the levels of the grammar do,    *)
(* from left to right within a level, assignments from right to left.      *)
OperatorsNest ==
  LET nested(e) == Nested(e) /\ Yield(e) = Word(<<"f", "assign">>) \o grown
      judge(s) ==
        s.ok => nested(s.ast.classes[1].instance_methods[1].body.body[1].inner_expression)
  IN context \in {Mixed, Arithmetic} => judge(parse_program(Program))

=============================================================================
