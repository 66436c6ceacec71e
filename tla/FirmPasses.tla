----------------------------- MODULE FirmPasses -----------------------------
(***************************************************************************)
(* libfirm as the optimizations use it: a graph is walked through, and     *)
(* what the end cannot be reached from any more disappears.                *)
(***************************************************************************)
EXTENDS FirmGraph

-----------------------------------------------------------------------------
(* irg_walk_topological: operands before the nodes that use them, except   *)
(* around loops, which are entered at blocks and Phis.  A block b is -b.   *)

RECURSIVE Visit(_, _, _)
Visit(g, w, xs) ==
  LET left == SelectSeq(xs, LAMBDA y : y \notin w.seen)
      x == Head(left)
      mark == [w EXCEPT !.seen = @ \cup {x}]
      finish(v) == IF x \in v.seen /\ g.nodes[x].op # "Phi" THEN v
                   ELSE [seen |-> v.seen \cup {x}, order |-> Append(v.order, x)]
      node(n) == finish(Visit(g, IF n.op = "Phi" THEN mark ELSE w, <<-n.block>> \o n.in))
  IN IF left = <<>> THEN w
     ELSE Visit(g, IF x < 0 THEN Visit(g, mark, g.blocks[-x].preds) ELSE node(g.nodes[x]), Tail(left))
Walked(g) == Visit(g, [seen |-> {}, order |-> <<>>], <<-EndBlock>>)
irg_walk_topological(g) == Walked(g).order

\* What is left of a graph: its nodes, in this order.
Compacted(g) ==
  LET renumber(walked, number) ==
        [g EXCEPT
          !.nodes = [i \in DOMAIN walked.order |->
             [g.nodes[walked.order[i]] EXCEPT !.in = [k \in DOMAIN @ |-> number[@[k]]]]],
          !.blocks = [b \in DOMAIN @ |->
             [NoBlock EXCEPT !.preds = IF -b \notin walked.seen THEN <<>>
                                       ELSE [k \in DOMAIN g.blocks[b].preds |->
                                               number[g.blocks[b].preds[k]]]]]]
      numbered(walked) ==
        renumber(walked, [x \in Range(walked.order) |-> SelectInSeq(walked.order, LAMBDA y : y = x)])
  IN numbered(Walked(g))

-----------------------------------------------------------------------------
(* remove_unreachable_code and remove_bads. *)

RECURSIVE Reachable(_, _)
Reachable(g, known) ==
  LET more == {b \in DOMAIN g.blocks : \E i \in DOMAIN g.blocks[b].preds :
                 LET x == g.nodes[g.blocks[b].preds[i]] IN x.op # "Bad" /\ x.block \in known}
      next(all) == IF all = known THEN known ELSE Reachable(g, all)
  IN next(known \cup more)

\* A block loses the edges that cannot be taken, and a Phi their operands; a
\* Phi that is left with one of them is that operand.
remove_bads(g) ==
  LET kept(b, live) ==
        SelectSeq([i \in DOMAIN g.blocks[b].preds |-> i],
                  LAMBDA i : LET x == g.nodes[g.blocks[b].preds[i]]
                             IN x.op # "Bad" /\ x.block \in live)
      only(in, places) == [i \in DOMAIN places |-> in[places[i]]]
      phis(places) == {p \in DOMAIN g.nodes :
                         /\ g.nodes[p].op = "Phi"
                         /\ Len(places[g.nodes[p].block]) < Len(g.nodes[p].in)}
      single(h, p) == IF h.nodes[p].in \in {<<p>>, <<>>} THEN h ELSE exchange(h, p, h.nodes[p].in[1])
      shorten(places, affected) ==
        FoldSet(LAMBDA p, h : IF Len(h.nodes[p].in) > 1 THEN h ELSE single(h, p),
                 [g EXCEPT
                   !.blocks = [b \in DOMAIN @ |-> [@[b] EXCEPT !.preds = only(@, places[b])]],
                   !.nodes = [i \in DOMAIN @ |-> IF i \notin affected THEN @[i]
                                ELSE [@[i] EXCEPT !.in = only(@, places[g.nodes[i].block])]]],
                 affected)
      fixed(places) == shorten(places, phis(places))
      reached(live) == fixed([b \in DOMAIN g.blocks |-> kept(b, live)])
  IN Compacted(reached(Reachable(g, {StartBlock})))

-----------------------------------------------------------------------------
(* The end of a graph's construction.  A variable's value in a block with  *)
(* several predecessors becomes a Phi, unless there is only one value it   *)
(* can have.  Constants and global addresses are in the first block.       *)

RECURSIVE Filled(_), Minimal(_, _)
Filled(g) ==
  LET open == {x \in DOMAIN g.nodes : g.nodes[x].op = "Variable" /\ g.nodes[x].block # StartBlock}
      operand(n, s, x) ==
        LET h == ValueIn(s[1], s[1].nodes[x].block, n.attr, n.mode)
        IN <<h, Append(s[2], h.node)>>
      phi(i, s) == [s[1] EXCEPT !.nodes[i].op = "Phi", !.nodes[i].in = s[2]]
      fill(i) == phi(i, FoldLeft(LAMBDA s, x : operand(g.nodes[i], s, x),
                                 <<g, <<>>>>, g.blocks[g.nodes[i].block].preds))
  IN IF open = {} THEN g ELSE Filled(fill(Min(open)))

\* vars are the Phis that stand for variables.
Minimal(g, vars) ==
  LET values(p) == Range(g.nodes[p].in) \ {p}
      trivial == {p \in vars : g.nodes[p].op = "Phi" /\ Cardinality(values(p)) = 1}
      remove(p) == Minimal(exchange(g, p, CHOOSE x \in values(p) : TRUE), vars)
  IN IF trivial = {} THEN g ELSE remove(CHOOSE p \in trivial : TRUE)

Constructed(g) ==
  LET placed(h) ==
        [h EXCEPT !.nodes = [i \in DOMAIN @ |-> IF @[i].op \in {"Const", "Address"}
                                                THEN [@[i] EXCEPT !.block = StartBlock] ELSE @[i]]]
      minimal(h) == Minimal(h, {i \in DOMAIN h.nodes :
                                  h.nodes[i].op = "Phi" /\ (i > Len(g.nodes) \/ g.nodes[i].op = "Variable")})
  IN remove_bads(minimal(placed(Filled(g))))

=============================================================================
