------------------------------- MODULE Loops -------------------------------
(***************************************************************************)
(* Passes that make loops and take them apart: tail recursion              *)
(* (src/src/core/opt/tailrec.cpp) and unrolling (unroll.cpp).              *)
(***************************************************************************)
EXTENDS FirmPasses

-----------------------------------------------------------------------------
(* Methods that end with a call of themselves jump to their beginning      *)
(* instead.  Operand 1 of a call is the memory, operand j + 2 parameter j. *)

CallOf(g, ret) == g.nodes[g.nodes[ret].in[1]].in[1]

\* The returns of method p's graph that have memory and value from a call of p
\* in their own block.
find_tail_recursion(g, p) ==
  LET of_call(x) == g.nodes[x].op = "Proj" /\ g.nodes[g.nodes[x].in[1]].op = "Call"
      of_p(ret, call) ==
        /\ g.nodes[call].block = ret.block
        /\ g.nodes[call].attr.kind = "method" /\ g.nodes[call].attr.path = p
        /\ Len(ret.in) = 2 => of_call(ret.in[2]) /\ g.nodes[ret.in[2]].in[1] = call
      tail(ret) == ret.op = "Return" /\ of_call(ret.in[1]) /\ of_p(ret, g.nodes[ret.in[1]].in[1])
  IN SelectSeq(g.blocks[EndBlock].preds, LAMBDA ret : tail(g.nodes[ret]))

\* Only what has its place in the first block stays there: the rest is in block
\* head from now on.
WithStartBlock(g, head) ==
  [g EXCEPT !.blocks = Append(@, NoBlock),
            !.nodes = [i \in DOMAIN @ |->
               IF @[i].block = StartBlock /\ @[i].op \notin start_block_placed
               THEN [@[i] EXCEPT !.block = head] ELSE @[i]]]

\* What the method was called with as operand j.
ParameterNodes(g, j) ==
  {i \in DOMAIN g.nodes : LET n == g.nodes[i] IN
     IF j = 1 THEN n.op = "Variable" /\ n.attr = STORE ELSE n.op = "Argument" /\ n.attr = j - 2}

\* In its place block head chooses between it and what the calls passed.  The
\* node of a parameter that nothing uses is a null pointer.
ParameterPhi(g, head, calls, j) ==
  LET choose(h, x) ==
        NodeIn(h, head, "Phi", h.nodes[x].mode,
               <<x>> \o [k \in DOMAIN calls |-> h.nodes[calls[k]].in[j]], 0)
      phi(x) == choose(Reroute(g, x, Len(g.nodes) + 1), x)
  IN IF ParameterNodes(g, j) = {} THEN [g EXCEPT !.broken = TRUE]
     ELSE phi(CHOOSE x \in ParameterNodes(g, j) : TRUE)

tailrec(g, p) ==
  LET list == find_tail_recursion(g, p)
      calls == [k \in DOMAIN list |-> CallOf(g, list[k])]
      head == Len(g.blocks) + 1
      add(h) == AddPred(h, head, h.node)
      jump(h, b) == add(NodeIn(h, b, "Jmp", "X", <<>>, 0))
      enter(h) == FoldLeft(LAMBDA k, ret : jump(k, k.nodes[ret].block), jump(h, StartBlock), list)
      phis(h) == FoldLeft(LAMBDA k, j : ParameterPhi(k, head, calls, j), h,
                          [j \in DOMAIN g.nodes[calls[1]].in |-> j])
      bad(h) == FoldLeft(LAMBDA k, ret : [k EXCEPT !.nodes[ret].op = "Bad", !.nodes[ret].in = <<>>],
                         h, list)
  IN IF list = <<>> THEN [g |-> g, changed |-> FALSE]
     ELSE [g |-> remove_bads(bad(phis(enter(WithStartBlock(g, head))))), changed |-> TRUE]

-----------------------------------------------------------------------------
(* Loops that count with constants would be unrolled.  No graph has one:   *)
(* the condition of an if or a loop compares what a Mux made of the        *)
(* comparison with 1, and no pass takes the Mux away.  So only the search  *)
(* is modelled; a graph with such a loop would lose its end here and fail  *)
(* every comparison.                                                       *)

BlockOf(g, x) == g.nodes[x].block

\* The blocks of the loop that begins with block head, or {}: those that only
\* head leads to and that lead back to it.
LoopAt(g, head) ==
  LET cut == [g EXCEPT !.blocks[head].preds = <<>>]
      inside == Reachable(g, {StartBlock}) \ Reachable(cut, {StartBlock})
      back == {BlockOf(g, x) : x \in Range(g.blocks[head].preds)} \cap inside
  IN {b \in inside : Reachable(cut, {b}) \cap back # {}}

\* Each loop, without the loops inside it.
find_loops(g) ==
  LET loops == {LoopAt(g, b) : b \in DOMAIN g.blocks} \ {{}}
  IN {{b \in loop : \A other \in loops : b \in other => loop \subseteq other} : loop \in loops}

\* The edges between two sets of blocks: the block entered and the jump.
Edges(g, from, to) ==
  {e \in UNION {{b} \X Range(g.blocks[b].preds) : b \in to} : BlockOf(g, e[2]) \in from}

\* What a loop compares that has one way in and, by a condition, one way out.
get_loop_cmp(g, loop) ==
  LET others == DOMAIN g.blocks \ loop
      conds == {g.nodes[e[2]].in[1] : e \in {t \in Edges(g, loop, others) : g.nodes[t[2]].op = "Proj"}}
  IN IF Cardinality(Edges(g, others, loop)) # 1 \/ Cardinality(Edges(g, loop, others)) # 1 THEN {}
     ELSE {g.nodes[c].in[1] : c \in conds}

\* A constant and a Phi of a constant and of itself plus or minus a constant.
IsConst(g, x) == g.nodes[x].op = "Const"
counts(g, phi, expr) ==
  /\ g.nodes[expr].op \in {"Add", "Sub"}
  /\ \E i \in 1..2 : /\ IsConst(g, g.nodes[expr].in[i])
                     /\ g.nodes[expr].in[3 - i] = phi
is_const_loop(g, loop) ==
  \E cmp \in get_loop_cmp(g, loop) : \E i \in 1..2 :
    LET phi == g.nodes[cmp].in[3 - i] IN
    /\ IsConst(g, g.nodes[cmp].in[i])
    /\ g.nodes[phi].op = "Phi" /\ Len(g.nodes[phi].in) = 2
    /\ \E j \in 1..2 : /\ IsConst(g, g.nodes[phi].in[j])
                       /\ counts(g, phi, g.nodes[phi].in[3 - j])

unroll(g) ==
  LET counted == \E loop \in find_loops(g) : is_const_loop(g, loop)
  IN [changed |-> counted,
      g |-> IF counted THEN [g EXCEPT !.blocks[EndBlock].preds = <<>>] ELSE remove_bads(g)]
=============================================================================
