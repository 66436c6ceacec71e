------------------------------ MODULE Folding ------------------------------
(***************************************************************************)
(* Constant folding and constant conditions (src/src/core/opt/folding.cpp, *)
(* conditional.cpp): what they do with one node of the queue.              *)
(***************************************************************************)
EXTENDS FirmNodes

Linked(s, n) == IF n \in DOMAIN s.link THEN s.link[n] ELSE NoTarval
get_tarval(s, node, i) == IF i \in DOMAIN node.in THEN Linked(s, node.in[i]) ELSE NoTarval

\* Mutant of phi_tarval: the first operand's value, whatever the others have.
FirstValue(s, node) ==
  LET tv(i) == Linked(s, node.in[i])
  IN IF \A i \in DOMAIN node.in : tv(i) # NoTarval THEN tv(1) ELSE NoTarval

\* The value all operands of a Phi have.
phi_tarval(s, node) ==
  LET tv(i) == Linked(s, node.in[i])
      differs(i) == tv(i) = BadTarval \/ tv(i) # tv(1)
  IN IF \E i \in DOMAIN node.in : differs(i) /\ \A j \in 1..i : tv(j) # NoTarval THEN BadTarval
     ELSE IF \A i \in DOMAIN node.in : tv(i) # NoTarval THEN tv(1) ELSE NoTarval

fold_binary(node, l, r) ==
  LET value(n) == Tarval(node.mode, wrap(n))
      known == is_tarval_numeric(l) /\ is_tarval_numeric(r)
  IN CASE known /\ node.op = "Add" -> value(l.v + r.v)
       [] known /\ node.op = "Sub" -> value(l.v - r.v)
       [] known /\ node.op = "Mul" -> value(l.v * r.v)
       [] ~known /\ node.op = "Sub" /\ node.in[1] = node.in[2] -> value(0)
       [] ~known /\ node.op = "Mul" /\ (is_tarval_with_num(l, 0) \/ is_tarval_with_num(r, 0)) ->
            value(0)
       [] OTHER -> NoTarval

\* Div and Mod are never folded: their operands are conversions, which have
\* no value and are never the same node.
folding_tarval(s, n) ==
  LET node == s.g.nodes[n]
      minus(tv) == IF is_tarval_numeric(tv) THEN Tarval(node.mode, wrap(-tv.v)) ELSE NoTarval
  IN CASE node.op = "Const" -> get_Const_tarval(node)
       [] node.op \in {"Add", "Sub", "Mul"} ->
            fold_binary(node, get_tarval(s, node, 1), get_tarval(s, node, 2))
       [] node.op = "Minus" -> minus(get_tarval(s, node, 1))
       [] node.op = "Phi" -> phi_tarval(s, node)
       [] OTHER -> NoTarval

\* The node's value is compared with itself: its users are not handled again.
folding_handle(s, n) ==
  LET compare(t, tv) == [t EXCEPT !.again = t.g.nodes[n].op # "Const" /\ tv # BadTarval
                                              /\ t.link[n].v # tv.v]
      set(tv) == IF tv = NoTarval THEN [s EXCEPT !.again = FALSE]
                 ELSE compare([s EXCEPT !.link[n] = tv], tv)
  IN set(folding_tarval(s, n))

folding_cleanup(s, n) ==
  LET node == s.g.nodes[n]
      put(h) == [s EXCEPT !.changed = TRUE,
                          !.g = IF node.op \in {"Div", "Mod"} THEN replace_node(h, n, h.node)
                                ELSE exchange(h, n, h.node)]
  IN IF node.op = "Const" \/ ~is_tarval_numeric(Linked(s, n)) THEN s
     ELSE put(new_r_Const(s.g, Linked(s, n)))

-----------------------------------------------------------------------------
(* Conditions.  Nothing here reports a change. *)

\* A comparison of two constants, or of a node with itself.
compare_tarval(s, node) ==
  LET l == s.g.nodes[node.in[1]]
      r == s.g.nodes[node.in[2]]
  IN IF l.op = "Const" /\ r.op = "Const"
     THEN TarvalB(Compare(node.attr, get_Const_tarval(l).v, get_Const_tarval(r).v))
     ELSE IF node.in[1] # node.in[2] THEN NoTarval
     ELSE IF node.attr \in {"equal", "greater_equal"} THEN TarvalB(TRUE)
     ELSE IF node.attr = "not_equal" THEN TarvalB(FALSE) ELSE NoTarval

mux_tarval(s, node, sel) ==
  LET of(x) == IF s.g.nodes[x].op = "Const" THEN get_Const_tarval(s.g.nodes[x]) ELSE Linked(s, x)
  IN IF sel = TarvalB(TRUE) THEN of(node.in[3])
     ELSE IF sel = TarvalB(FALSE) THEN of(node.in[2]) ELSE NoTarval

conditional_tarval(s, node) ==
  CASE node.op = "Cmp" -> compare_tarval(s, node)
    [] node.op = "Mux" -> mux_tarval(s, node, get_tarval(s, node, 1))
    [] node.op = "Cond" /\ s.g.nodes[node.in[1]].op = "Cmp" -> get_tarval(s, node, 1)
    [] node.op = "Phi" -> phi_tarval(s, node)
    [] OTHER -> NoTarval

conditional_handle(s, n) ==
  LET node == s.g.nodes[n]
  IN [s EXCEPT !.link[n] = conditional_tarval(s, node),
               !.again = node.op = "Mux" /\ get_tarval(s, node, 1) # NoTarval]

\* The edge that is taken becomes a jump where the condition was computed.
conditional_cleanup(s, n) ==
  LET node == s.g.nodes[n]
      cond == s.g.nodes[node.in[1]]
      put(h) == [s EXCEPT !.g = exchange(h, n, h.node)]
      taken(tv) == IF tv = TarvalB(node.attr = "true")
                   THEN NodeIn(s.g, s.g.nodes[cond.in[1]].block, "Jmp", "X", <<>>, 0)
                   ELSE NodeIn(s.g, StartBlock, "Bad", "X", <<>>, 0)
      decided(tv) == IF tv \in {TarvalB(TRUE), TarvalB(FALSE)} THEN put(taken(tv)) ELSE s
  IN CASE node.op = "Mux" /\ Linked(s, n) # NoTarval -> put(new_r_Const(s.g, Linked(s, n)))
       [] node.op = "Proj" /\ node.in # <<>> /\ cond.op = "Cond" -> decided(Linked(s, node.in[1]))
       [] OTHER -> s

-----------------------------------------------------------------------------
handle_value(pass, s, n) == IF pass = "folding" THEN folding_handle(s, n) ELSE conditional_handle(s, n)
cleanup_value(pass, s, n) == IF pass = "folding" THEN folding_cleanup(s, n) ELSE conditional_cleanup(s, n)

-----------------------------------------------------------------------------
(* What both passes rely on and do not check.                              *)

Relations == {"equal", "not_equal", "less_than", "less_equal", "greater_than", "greater_equal"}

\* A record with these fields, and maybe others.
IsRecord(r, fields) == r = [f \in DOMAIN r |-> r[f]] /\ fields \subseteq DOMAIN r

\* Only Cmp, Mux and Const know mode b; a Mux selects from two constants; a
\* condition is computed where control leaves for one of two blocks.
NodeAllowed(g, n) ==
  LET node == g.nodes[n]
      operand(i) == g.nodes[node.in[i]]
      truth(i) == operand(i).mode = "b"
      value(i) == operand(i).mode \notin {"b", "T", "X"}
      arity(k) == Len(node.in) = k
  IN CASE node.op = "Const" ->
            arity(0) /\ node.attr \in (IF node.mode = "b" THEN BOOLEAN ELSE Int)
              /\ node.mode \notin {"none", "bad", "T", "X"}
       [] node.op \in {"Add", "Sub", "Mul"} ->
            arity(2) /\ value(1) /\ value(2) /\ node.mode \notin {"b", "none", "bad", "T", "X"}
       [] node.op = "Minus" -> arity(1) /\ value(1) /\ node.mode \notin {"b", "none", "bad", "T", "X"}
       [] node.op = "Cmp" ->
            arity(2) /\ value(1) /\ value(2) /\ node.mode = "b" /\ node.attr \in Relations
       [] node.op = "Mux" ->
            /\ arity(3) /\ truth(1) /\ \A i \in {2, 3} : operand(i).op = "Const" /\ operand(i).mode = node.mode
            /\ node.mode \notin {"none", "bad", "T", "X"}
       [] node.op = "Phi" ->
            /\ Len(node.in) = Len(g.blocks[node.block].preds) /\ node.in # <<>>
            /\ node.mode \notin {"T", "X"} /\ \A i \in DOMAIN node.in : operand(i).mode = node.mode
       [] node.op = "Cond" ->
            arity(1) /\ truth(1) /\ node.mode = "T" /\ (operand(1).op = "Cmp" => operand(1).block = node.block)
       [] node.op = "Proj" /\ (node.mode = "X" \/ \E i \in DOMAIN node.in : operand(i).op = "Cond") ->
            /\ arity(1) /\ operand(1).op = "Cond" /\ operand(1).block = node.block
            /\ node.mode = "X" /\ node.attr \in {"true", "false"}
       [] OTHER -> node.mode # "b"

WellFormed(g) ==
  /\ IsRecord(g, {"nodes", "blocks", "node", "broken"})
  /\ g.nodes \in Seq(Range(g.nodes)) /\ g.blocks \in Seq(Range(g.blocks))
  /\ \A n \in DOMAIN g.nodes :
       /\ IsRecord(g.nodes[n], {"op", "mode", "block", "in", "attr"})
       /\ g.nodes[n].block \in DOMAIN g.blocks
       /\ g.nodes[n].in \in Seq(DOMAIN g.nodes)
       /\ NodeAllowed(g, n)
  /\ \A b \in DOMAIN g.blocks :
       IsRecord(g.blocks[b], {"preds"}) /\ g.blocks[b].preds \in Seq(DOMAIN g.nodes)
=============================================================================
