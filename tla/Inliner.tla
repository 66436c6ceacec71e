------------------------------ MODULE Inliner ------------------------------
(***************************************************************************)
(* Calls become copies of the methods they call                            *)
(* (src/src/core/opt/inline.cpp).  What a call is worth is left out: a     *)
(* method of fewer than 30 nodes is always worth it, and a larger one that *)
(* is not inlined stays as it was.  So are the limits of 1024 nodes and of *)
(* 100 calls for each method.                                              *)
(***************************************************************************)
EXTENDS FirmPasses

CONSTANT MaxDepth \* how deep a call in a copy may be inlined: 20 in the code

IsMethodCall(n) == n.op = "Call" /\ n.attr.kind = "method"

\* _call_to_ignore is a set of nodes: a copy of one of them is not in it.
Ignored(n) == "ignored" \in DOMAIN n.attr
Ignore(g, call) == [g EXCEPT !.nodes[call].attr = [ignored |-> TRUE] @@ @]
Unmarked(n) == IF IsMethodCall(n) THEN [n EXCEPT !.attr = [kind |-> @.kind, path |-> @.path]] ELSE n

-----------------------------------------------------------------------------
(* One call. *)

\* What the nodes known are computed from in their block; its Phis stay anyway.
RECURSIVE move(_, _, _)
move(g, b, known) ==
  LET ins == UNION {Range(g.nodes[x].in) : x \in {y \in known : g.nodes[y].op # "Phi"}}
      more == {x \in ins : g.nodes[x].block = b} \ known
  IN IF more = {} THEN known ELSE move(g, b, known \cup more)

\* What the call does not need goes to a new block.  The upper half keeps the
\* number, so that the first block stays the first.
split_block(g, call) ==
  LET b == g.nodes[call].block
      upper == move(g, b, {x \in Range(g.nodes[call].in) : g.nodes[x].block = b})
      stays(i, n) == \/ i \in upper \/ n.op \in start_block_placed \cup {"Phi"}
                     \/ n.op = "Proj" /\ n.in[1] \in upper
  IN [g EXCEPT !.blocks = Append(@, NoBlock),
               !.nodes = [i \in DOMAIN @ |-> IF @[i].block # b \/ stays(i, @[i]) THEN @[i]
                                             ELSE [@[i] EXCEPT !.block = Len(g.blocks) + 1]]]

\* Graph g with the nodes of graph h, whose first block is the one of the call:
\* node i of h has number Len(g.nodes) + i, and the call's operands take the place
\* of its parameters.
WithCopy(g, h, call) ==
  LET n == g.nodes[call]
      node(i) == CASE h.nodes[i].op = "Argument" -> n.in[h.nodes[i].attr + 2]
                   [] h.nodes[i].op = "Variable" -> n.in[1]
                   [] OTHER -> Len(g.nodes) + i
      mapped(in) == [k \in DOMAIN in |-> node(in[k])]
      place(m) == IF m.op \in start_block_placed THEN StartBlock
                  ELSE IF m.block = StartBlock THEN n.block ELSE Len(g.blocks) + 1 + m.block
      copy(m) == [Unmarked(m) EXCEPT !.in = mapped(@), !.block = place(m)]
      preds(b) == IF b = EndBlock THEN <<>> ELSE mapped(h.blocks[b].preds)
  IN [split_block(g, call) EXCEPT
        !.nodes = @ \o [i \in DOMAIN h.nodes |-> copy(h.nodes[i])],
        !.blocks = @ \o [b \in DOMAIN h.blocks |-> [NoBlock EXCEPT !.preds = preds(b)]]]

\* The returns become jumps to the lower half, which chooses between their memory
\* and between their values.
inline_method(g, h, call) ==
  LET post == Len(g.blocks) + 1
      returns == [k \in DOMAIN h.blocks[EndBlock].preds |-> Len(g.nodes) + h.blocks[EndBlock].preds[k]]
      add(k) == AddPred(k, post, k.node)
      jump(k, r) == add(NodeIn(k, k.nodes[r].block, "Jmp", "X", <<>>, 0))
      returned(k, j) == [r \in DOMAIN returns |-> k.nodes[returns[r]].in[j]]
      phi(k, u, in) == IF Len(in) = 1 THEN exchange(k, u, in[1])
                       ELSE exchange(NodeIn(k, post, "Phi", k.nodes[u].mode, in, 0), u, Len(k.nodes) + 1)
      use(u, k) == phi(k, u, returned(k, IF k.nodes[u].mode = "M" THEN 1 ELSE 2))
  IN FoldSet(use, FoldLeft(jump, WithCopy(g, h, call), returns), Users(g, call))

-----------------------------------------------------------------------------
(* All calls.  s.graphs are the graphs, s.calls the calls known of each,   *)
(* s.recursive the methods that called themselves before the pass.         *)

collect_irg_calls(g) == {n \in DOMAIN g.nodes : IsMethodCall(g.nodes[n])}

\* Callers first.
RECURSIVE callgraph_walk(_, _, _)
callgraph_walk(graphs, seen, ps) ==
  LET p == Head(ps)
      callees == {graphs[p].nodes[n].attr.path : n \in collect_irg_calls(graphs[p])}
  IN IF ps = <<>> THEN seen
     ELSE callgraph_walk(graphs, IF p \in Range(seen) THEN seen
                                 ELSE callgraph_walk(graphs, Append(seen, p), SetToSeq(callees)), Tail(ps))

\* Queue holds calls in the graph of p and how deep they are.  A call that came with
\* a copy is not looked at again unless it is inlined now.
RECURSIVE inline_calls(_, _, _)
inline_calls(s, p, queue) ==
  LET call == Head(queue).call
      depth == Head(queue).depth + 1
      g == s.graphs[p]
      callee == g.nodes[call].attr.path
      path(n) == s.graphs[callee].nodes[n].attr.path
      come == {n \in s.calls[callee] : path(n) # p}
      again == {n \in come : depth <= MaxDepth /\ path(n) \notin s.recursive}
      new(n) == [call |-> Len(g.nodes) + n, depth |-> depth]
      inlined(h) == FoldSet(LAMBDA n, k : Ignore(k, new(n).call), h, come \ again)
      done(h) == [s EXCEPT !.graphs[p] = h, !.calls[p] = @ \ {call}, !.changed = TRUE]
  IN IF queue = <<>> THEN s
     ELSE IF callee = p THEN inline_calls(s, p, Tail(queue))
     ELSE inline_calls(done(inlined(inline_method(g, s.graphs[callee], call))), p,
                       Tail(queue) \o [i \in 1..Cardinality(again) |-> new(SetToSeq(again)[i])])

inline_into(s, p) ==
  LET wanted == {n \in s.calls[p] : ~Ignored(s.graphs[p].nodes[n])}
  IN inline_calls(s, p, [i \in 1..Cardinality(wanted) |-> [call |-> SetToSeq(wanted)[i], depth |-> 0]])

inliner(graphs, main) ==
  LET calls == [p \in DOMAIN graphs |-> collect_irg_calls(graphs[p])]
      start == [graphs |-> graphs, calls |-> calls, changed |-> FALSE,
                recursive |-> {p \in DOMAIN graphs :
                                 \E n \in calls[p] : graphs[p].nodes[n].attr.path = p}]
      irgs == callgraph_walk(graphs, <<>>, <<main>> \o SetToSeq(DOMAIN graphs))
      clean(s) == [changed |-> s.changed,
                   graphs |-> [p \in DOMAIN graphs |-> remove_bads(s.graphs[p])]]
  IN clean(FoldLeft(inline_into, start, irgs))
=============================================================================
