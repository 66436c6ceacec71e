------------------------ MODULE CompileTimeConstants ------------------------
(***************************************************************************)
(* Expressions whose value the compiler knows                              *)
(* (src/src/core/semantic/constant.cpp).  The values are two's complement  *)
(* integers of IntBits bits, 32 in the code; a boolean is 0 or 1.          *)
(***************************************************************************)
EXTENDS AbstractSyntax, MachineIntegers

\* Mutant of Remainder: a remainder that is never negative.
FloorRemainder(a, b) == a % Magnitude(b)
\* The remainder has the dividend's sign.
Remainder(a, b) == a - b * Truncated(a, b)

Bool(b) == IF b THEN 1 ELSE 0

\* The accumulated digits, none as soon as they exceed the maximum.
LiteralValue(node) ==
  LET maximum == IF node.negative THEN MaxInt + 1 ELSE MaxInt
      step(v, digit) == IF v = -1 \/ 10 * v + digit > maximum THEN -1 ELSE 10 * v + digit
      value == FoldLeft(step, 0, Digits[node.literal])
  IN IF value = -1 THEN <<>> ELSE <<IF node.negative THEN -value ELSE value>>

\* A sequence of at most one value: none if the operation has no result or
\* its operands are no constants.
UnaryConstant(op, v) ==
  IF op = "minus" THEN IF v = MinInt THEN <<>> ELSE <<-v>> ELSE <<Bool(v = 0)>>

BinaryConstant(op, l, r) ==
  CASE op = "assign" -> <<>>
    [] op \in {"divide", "modulo"} /\ r = 0 -> <<>>
    [] op = "logical_or" -> <<Bool(l # 0 \/ r # 0)>>
    [] op = "logical_and" -> <<Bool(l # 0 /\ r # 0)>>
    [] op = "equal" -> <<Bool(l = r)>>
    [] op = "not_equal" -> <<Bool(l # r)>>
    [] op = "less_than" -> <<Bool(l < r)>>
    [] op = "less_equal" -> <<Bool(l <= r)>>
    [] op = "greater_than" -> <<Bool(l > r)>>
    [] op = "greater_equal" -> <<Bool(l >= r)>>
    [] op = "plus" -> <<wrap(l + r)>>
    [] op = "minus" -> <<wrap(l - r)>>
    [] op = "multiply" -> <<wrap(l * r)>>
    [] op = "divide" /\ r # 0 -> <<wrap(Truncated(l, r))>>
    [] op = "modulo" /\ r # 0 -> <<wrap(Remainder(l, r))>>

(* extractor: c holds the constants found so far by path, and the error.   *)
(* Every part of the program is visited, whatever is found.                *)
RECURSIVE extract(_, _, _)
extract(node, p, c) ==
  LET children == Children(node)
      parts == FoldLeft(LAMBDA d, i : extract(children[i], Append(p, i), d), c,
                        [i \in DOMAIN children |-> i])
      known(i) == Append(p, i) \in DOMAIN parts.value
      at(i) == parts.value[Append(p, i)]
      set(values) == IF values = <<>> THEN parts
                     ELSE [parts EXCEPT !.value = (p :> values[1]) @@ @]
  IN IF c.error # "" \/ parts.error # "" THEN parts
     ELSE CASE node.node = "boolean_constant" -> set(<<Bool(node.value)>>)
            [] node.node = "integer_constant" ->
                 LET v == LiteralValue(node)
                 IN IF v = <<>> THEN [parts EXCEPT !.error = "literal_overflow"]
                    ELSE set(v)
            [] node.node = "unary_expression" ->
                 IF known(1) THEN set(UnaryConstant(node.type, at(1))) ELSE parts
            [] node.node = "binary_expression" ->
                 IF known(1) /\ known(2) THEN set(BinaryConstant(node.type, at(1), at(2)))
                 ELSE parts
            [] OTHER -> parts

extract_constants(ast, p) == extract(ast, p, [error |-> "", value |-> [q \in {} |-> 0]])
=============================================================================
