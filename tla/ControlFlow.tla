---------------------------- MODULE ControlFlow ----------------------------
(***************************************************************************)
(* Blocks without work of their own are merged with their neighbours       *)
(* (src/src/core/opt/control_flow.cpp), and what the back end wants of the *)
(* result (ssa_helper.cpp).  The pass is a record: the graph g, the blocks *)
(* that hold only jumps and Phis (removable), those visited, whether a     *)
(* change was reported, and what optimize_block returned.                  *)
(***************************************************************************)
EXTENDS FirmPasses

is_block_removable(c, b) == b \in c.removable
get_block_phis(g, b) == {p \in DOMAIN g.nodes : g.nodes[p].op = "Phi" /\ g.nodes[p].block = b}
get_block_preds(g, b) ==
  SelectSeq([i \in DOMAIN g.blocks[b].preds |-> i],
            LAMBDA i : g.nodes[g.blocks[b].preds[i]].op # "Bad")
PredBlock(g, b, i) == g.nodes[g.blocks[b].preds[i]].block

\* The predecessor with this number is an empty block that b can do without.
EmptyPred(c, b, i) == PredBlock(c.g, b, i) # b /\ is_block_removable(c, PredBlock(c.g, b, i))

\* The predecessors b will have: <<i, 0>> is its own number i, <<i, j>> number j of
\* the empty block that is its number i.
NewPreds(c, b) ==
  LET of(i) == IF ~EmptyPred(c, b, i) THEN <<<<i, 0>>>>
               ELSE [k \in DOMAIN get_block_preds(c.g, PredBlock(c.g, b, i)) |->
                       <<i, get_block_preds(c.g, PredBlock(c.g, b, i))[k]>>]
      preds == get_block_preds(c.g, b)
  IN FlattenSeq([k \in DOMAIN preds |-> of(preds[k])])

\* A Phi with one operand left is that operand.
SetPhi(g, phi, in) ==
  IF Len(in) = 1 THEN exchange(g, phi, in[1]) ELSE [g EXCEPT !.nodes[phi].in = in]

\* Mutant of fix_phi_nodes: b's Phis stay as they were.
KeepsPhis(c, b, new) == c

\* b's Phis choose from what those of an empty predecessor chose from.
fix_phi_nodes(c, b, new) ==
  LET operand(g, x, e) ==
        IF e[2] = 0 \/ g.nodes[x].block # PredBlock(g, b, e[1]) THEN x ELSE g.nodes[x].in[e[2]]
      fix(phi, g) ==
        SetPhi(g, phi, [k \in DOMAIN new |-> operand(g, g.nodes[phi].in[new[k][1]], new[k])])
  IN [c EXCEPT !.g = FoldSet(fix, @, get_block_phis(@, b))]

\* The Phis of the empty predecessors move to b; from elsewhere they are unchanged.
fix_phi_nodes_pred(c, b, new) ==
  LET move(g, phi, i) ==
        SetPhi([g EXCEPT !.nodes[phi].block = b], phi,
               [k \in DOMAIN new |-> IF new[k][1] = i /\ new[k][2] # 0
                                     THEN g.nodes[phi].in[new[k][2]] ELSE phi])
      from(g, i) == FoldSet(LAMBDA phi, h : move(h, phi, i), g,
                            get_block_phis(g, PredBlock(g, b, i)))
  IN [c EXCEPT !.g = FoldLeft(LAMBDA g, i : IF EmptyPred(c, b, i) THEN from(g, i) ELSE g,
                              @, get_block_preds(@, b))]

\* Reports no change.
merge_empty_preds(c, b) ==
  LET new == NewPreds(c, b)
      pred(g, e) == IF e[2] = 0 THEN g.blocks[b].preds[e[1]]
                    ELSE g.blocks[PredBlock(g, b, e[1])].preds[e[2]]
      empty == {PredBlock(c.g, b, i) : i \in {j \in DOMAIN c.g.blocks[b].preds : EmptyPred(c, b, j)}}
      join(g) == FoldSet(LAMBDA old, h : exchange_block(h, old, b),
                         [g EXCEPT !.blocks[b].preds = [k \in DOMAIN new |-> pred(g, new[k])]],
                         empty)
      fixed == fix_phi_nodes_pred(fix_phi_nodes(c, b, new), b, new)
  IN IF empty = {} THEN c ELSE [fixed EXCEPT !.g = join(@)]

\* Two edges of one condition that lead to b with the same values.
TrivialConds(g, b) ==
  LET preds == g.blocks[b].preds
      proj(i) == g.nodes[preds[i]].op = "Proj" /\ g.nodes[g.nodes[preds[i]].in[1]].op = "Cond"
  IN {<<i, j>> \in (DOMAIN preds) \X (DOMAIN preds) :
        /\ i < j /\ proj(i) /\ proj(j)
        /\ g.nodes[preds[i]].in = g.nodes[preds[j]].in
        /\ \A phi \in get_block_phis(g, b) : g.nodes[phi].in[i] = g.nodes[phi].in[j]}

\* The first of them becomes a jump, the second is dropped.
remove_trivial_cond(c, b) ==
  LET conds == TrivialConds(c.g, b)
      jump(g, pair) == [g EXCEPT !.blocks[b].preds[pair[1]] = g.node]
      jumps == FoldSet(LAMBDA pair, g :
                         jump(NodeIn(g, PredBlock(g, b, pair[1]), "Jmp", "X", <<>>, 0), pair),
                       c.g, conds)
      left == SelectSeq([i \in DOMAIN c.g.blocks[b].preds |-> i],
                        LAMBDA i : \A pair \in conds : i # pair[2])
      only(xs) == [k \in DOMAIN left |-> xs[left[k]]]
      shorten(g) == [g EXCEPT !.blocks[b].preds = only(@),
                              !.nodes = [n \in DOMAIN @ |-> IF n \in get_block_phis(g, b)
                                           THEN [@[n] EXCEPT !.in = only(@)] ELSE @[n]]]
  IN [c EXCEPT !.g = shorten(jumps), !.changed = TRUE, !.result = TRUE]

\* b becomes part of the only block that jumps to it.
try_merge(c, b) ==
  LET pred == PredBlock(c.g, b, 1)
      values(g) == FoldSet(LAMBDA phi, h : exchange(h, phi, h.nodes[phi].in[1]), g,
                           get_block_phis(g, b))
  IN [c EXCEPT !.g = exchange_block(values(@), b, pred), !.changed = TRUE, !.result = TRUE,
               !.removable = IF is_block_removable(c, b) THEN @ ELSE @ \ {pred}]

\* The predecessors first; once one of them has changed, b is left for the next time.
RECURSIVE optimize_block(_, _)
optimize_block(c, b) ==
  LET pred(d, i) == IF d.result THEN d ELSE optimize_block(d, PredBlock(d.g, b, i))
      preds == c.g.blocks[b].preds
      own(d) == IF Len(preds) = 1 /\ d.g.nodes[d.g.blocks[b].preds[1]].op = "Jmp"
                THEN try_merge(d, b)
                ELSE IF TrivialConds(d.g, b) # {} THEN remove_trivial_cond(d, b)
                ELSE merge_empty_preds(d, b)
      then(d) == IF d.result THEN [d EXCEPT !.result = FALSE] ELSE own(d)
  IN IF b \in c.visited THEN c
     ELSE then(FoldLeft(pred, [c EXCEPT !.visited = @ \cup {b}], [i \in DOMAIN preds |-> i]))

\* The start block holds the start, the end block the end.
Removable(g) ==
  DOMAIN g.blocks \ ({StartBlock, EndBlock} \cup
                       {g.nodes[n].block : n \in {m \in DOMAIN g.nodes : g.nodes[m].op \notin {"Phi", "Jmp"}}})

control_flow(g) ==
  LET done(c) == [g |-> remove_bads(c.g), changed |-> c.changed]
  IN done(optimize_block([g |-> g, removable |-> Removable(g), visited |-> {},
                          changed |-> FALSE, result |-> FALSE], EndBlock))

-----------------------------------------------------------------------------
(* Of two edges of one condition to the same block, the later one gets a   *)
(* block of its own.  It leaves by the false edge, whichever is the later. *)
ssa_helper(g) ==
  LET preds(b) == g.blocks[b].preds
      pairs == {e \in UNION {{b} \X (DOMAIN preds(b)) \X (DOMAIN preds(b)) : b \in DOMAIN g.blocks} :
                  /\ e[2] < e[3]
                  /\ g.nodes[preds(e[1])[e[2]]].op = "Proj"
                  /\ g.nodes[preds(e[1])[e[3]]].op = "Proj"
                  /\ g.nodes[preds(e[1])[e[2]]].in = g.nodes[preds(e[1])[e[3]]].in}
      false(e) == IF g.nodes[preds(e[1])[e[2]]].attr = "false" THEN preds(e[1])[e[2]]
                  ELSE preds(e[1])[e[3]]
      jump(h, e) == [h EXCEPT !.blocks[e[1]].preds[e[3]] = h.node]
      insert(e, h) ==
        jump(NodeIn([h EXCEPT !.blocks = Append(@, [NoBlock EXCEPT !.preds = <<false(e)>>])],
                    Len(h.blocks) + 1, "Jmp", "X", <<>>, 0), e)
  IN FoldSet(insert, g, pairs)
=============================================================================
