--------------------------- MODULE AbstractSyntax ---------------------------
(***************************************************************************)
(* The abstract syntax tree (src/src/core/parser/ast.hpp): one constructor *)
(* per node class, a field per attribute.  An optional child that is       *)
(* absent is nullptr.  Ids and positions are left out: the node's place in *)
(* the tree stands for them.                                               *)
(***************************************************************************)
EXTENDS Sequences, SequencesExt, TLC

CONSTANT Names \* the symbols that occur, in the order of symbol_comparator

primitive_type == {"int", "boolean", "void"}
nullptr == [node |-> "nullptr"]

type(name, rank) == [node |-> "type", name |-> name, rank |-> rank]
var_decl(t, name) == [node |-> "var_decl", var_type |-> t, name |-> name]

binary_expression(op, lhs, rhs) ==
  [node |-> "binary_expression", type |-> op, lhs |-> lhs, rhs |-> rhs]
unary_expression(op, target) ==
  [node |-> "unary_expression", type |-> op, target |-> target]
object_instantiation(class) == [node |-> "object_instantiation", class_name |-> class]
array_instantiation(t, extent) ==
  [node |-> "array_instantiation", array_type |-> t, extent |-> extent]
array_access(target, index) ==
  [node |-> "array_access", target |-> target, index |-> index]
variable_access(target, name) ==
  [node |-> "variable_access", target |-> target, name |-> name]
method_invocation(target, name, arguments) ==
  [node |-> "method_invocation", target |-> target, name |-> name, arguments |-> arguments]
this_ref == [node |-> "this_ref"]
boolean_constant(value) == [node |-> "boolean_constant", value |-> value]
integer_constant(literal, negative) ==
  [node |-> "integer_constant", literal |-> literal, negative |-> negative]
null_constant == [node |-> "null_constant"]

local_variable_statement(declaration, initial) ==
  [node |-> "local_variable_statement", declaration |-> declaration, initial_value |-> initial]
expression_statement(expr) == [node |-> "expression_statement", inner_expression |-> expr]
block(body) == [node |-> "block", body |-> body]
if_statement(cond, then, else) ==
  [node |-> "if_statement", condition |-> cond, then_statement |-> then, else_statement |-> else]
while_statement(cond, body) == [node |-> "while_statement", condition |-> cond, body |-> body]
return_statement(value) == [node |-> "return_statement", value |-> value]
empty_statement == [node |-> "empty_statement"]

-----------------------------------------------------------------------------
(* Members and classes are kept in the order of their names: the analysis  *)
(* that looks for definitions with equal names relies on it.               *)

sort_ptrs_by_symbol_name(container) ==
  LET rank(n) == CHOOSE i \in 1..Len(Names) : Names[i] = n.name
  IN FlattenSeq([i \in 1..Len(Names) |-> SelectSeq(container, LAMBDA n : rank(n) = i)])

find_in_sorted_vector(name, v) == SelectSeq(v, LAMBDA n : n.name = name)

main_method(name, argname, body) ==
  [node |-> "main_method", name |-> name, argname |-> argname, body |-> body]
instance_method(name, return_type, parameters, body) ==
  [node |-> "instance_method", name |-> name, return_type |-> return_type,
   parameters |-> parameters, body |-> body]
class_declaration(name, fields, instance_methods, main_methods) ==
  [node |-> "class_declaration", name |-> name,
   fields |-> sort_ptrs_by_symbol_name(fields),
   instance_methods |-> sort_ptrs_by_symbol_name(instance_methods),
   main_methods |-> sort_ptrs_by_symbol_name(main_methods)]
program(classes) == [node |-> "program", classes |-> sort_ptrs_by_symbol_name(classes)]

-----------------------------------------------------------------------------
(* The children of a node in the order in which for_each_node visits them. *)
Children(n) ==
  LET present(s) == SelectSeq(s, LAMBDA c : c # nullptr)
  IN CASE n.node = "var_decl" -> <<n.var_type>>
       [] n.node = "binary_expression" -> <<n.lhs, n.rhs>>
       [] n.node = "unary_expression" -> <<n.target>>
       [] n.node = "array_instantiation" -> <<n.array_type, n.extent>>
       [] n.node = "array_access" -> <<n.target, n.index>>
       [] n.node = "variable_access" -> present(<<n.target>>)
       [] n.node = "method_invocation" -> present(<<n.target>>) \o n.arguments
       [] n.node = "local_variable_statement" -> present(<<n.declaration, n.initial_value>>)
       [] n.node = "expression_statement" -> <<n.inner_expression>>
       [] n.node = "block" -> n.body
       [] n.node = "if_statement" ->
            present(<<n.condition, n.then_statement, n.else_statement>>)
       [] n.node = "while_statement" -> <<n.condition, n.body>>
       [] n.node = "return_statement" -> present(<<n.value>>)
       [] n.node = "main_method" -> <<n.body>>
       [] n.node = "instance_method" -> <<n.return_type>> \o n.parameters \o <<n.body>>
       [] n.node = "class_declaration" -> n.fields \o n.instance_methods \o n.main_methods
       [] n.node = "program" -> n.classes
       [] OTHER -> <<>>

RECURSIVE Size(_)
Size(n) == 1 + FoldLeft(LAMBDA sum, c : sum + Size(c), 0, Children(n))

(* Two trees are equal if they print the same XML text, in which members   *)
(* and classes are sorted by their text.                                   *)
equal(lhs, rhs) ==
  LET canonical(c) == [c EXCEPT !.fields = ToBag(@), !.instance_methods = ToBag(@),
                                !.main_methods = ToBag(@)]
      classes(p) == ToBag([i \in DOMAIN p.classes |-> canonical(p.classes[i])])
  IN classes(lhs) = classes(rhs)
=============================================================================
