----------------------------- MODULE FirmNodes -----------------------------
(***************************************************************************)
(* Nodes of libfirm's graphs: how they are made and rewired, what those    *)
(* without effects compute, and values known at compile time.  The helpers *)
(* of src/src/core/opt/opt.hpp and a pass with a worklist are here too.    *)
(***************************************************************************)
EXTENDS MachineIntegers, Sequences, SequencesExt, FiniteSets, TLC

StartBlock == 1

\* A node in block b; without a block or an operand libfirm reads a null pointer.
NodeIn(g, b, op, mode, in, attr) ==
  [g EXCEPT !.nodes = Append(@, [op |-> op, mode |-> mode, block |-> b, in |-> in, attr |-> attr]),
            !.node = Len(g.nodes) + 1,
            !.broken = @ \/ b = 0 \/ \E i \in DOMAIN in : in[i] = 0]

Compare(relation, l, r) ==
  \/ relation = "equal" /\ l = r
  \/ relation = "not_equal" /\ l # r
  \/ relation = "less_than" /\ l < r
  \/ relation = "less_equal" /\ l <= r
  \/ relation = "greater_than" /\ l > r
  \/ relation = "greater_equal" /\ l >= r

\* The value of a node without effects, from the values of its operands.
Pure == {"Mux", "Cmp", "Minus", "Add", "Sub", "Mul"}
Computed(n, v) ==
  CASE n.op = "Mux" -> IF v[1] THEN v[3] ELSE v[2]
    [] n.op = "Cmp" -> Compare(n.attr, v[1], v[2])
    [] n.op = "Minus" -> wrap(-v[1])
    [] n.op = "Add" -> wrap(v[1] + v[2])
    [] n.op = "Sub" -> wrap(v[1] - v[2])
    [] n.op = "Mul" -> wrap(v[1] * v[2])

-----------------------------------------------------------------------------
(* Values known at compile time, by mode; truth values are 0 and 1. *)

Tarval(mode, v) == [mode |-> mode, v |-> v]
NoTarval == Tarval("none", 0)
BadTarval == Tarval("bad", 0)
TarvalB(truth) == Tarval("b", IF truth THEN 1 ELSE 0)

is_tarval_numeric(val) == val.mode \notin {"none", "bad", "b"}
is_tarval_with_num(val, num) == is_tarval_numeric(val) /\ val.v = num
get_Const_tarval(n) == IF n.mode = "b" THEN TarvalB(n.attr) ELSE Tarval(n.mode, n.attr)

new_r_Const(g, val) ==
  NodeIn(g, StartBlock, "Const", val.mode, <<>>, IF val.mode = "b" THEN val.v = 1 ELSE val.v)

-----------------------------------------------------------------------------
(* Rewiring. *)

\* The uses of node n, by dead nodes too: the user and the operand's number.
get_out_edges_safe(g, n) ==
  {e \in UNION {{u} \X DOMAIN g.nodes[u].in : u \in DOMAIN g.nodes} : g.nodes[e[1]].in[e[2]] = n}
Users(g, n) == {e[1] : e \in get_out_edges_safe(g, n)}

\* Mutant of Reroute: a block that is entered by way of the old node still is.
RerouteNodes(g, old, new) ==
  LET moved(in) == [i \in DOMAIN in |-> IF in[i] = old THEN new ELSE in[i]]
  IN [g EXCEPT !.nodes = [i \in DOMAIN @ |-> [@[i] EXCEPT !.in = moved(g.nodes[i].in)]]]

Reroute(g, old, new) ==
  LET moved(in) == [i \in DOMAIN in |-> IF in[i] = old THEN new ELSE in[i]]
      nodes == [i \in DOMAIN g.nodes |-> [g.nodes[i] EXCEPT !.in = moved(@)]]
      blocks == [b \in DOMAIN g.blocks |-> [g.blocks[b] EXCEPT !.preds = moved(@)]]
  IN [g EXCEPT !.nodes = nodes, !.blocks = blocks]

\* Constants, parameters and the initial memory have their place in the first block.
start_block_placed == {"Const", "Address", "Argument", "Variable"}

exchange(g, old, new) ==
  [Reroute(g, old, new) EXCEPT !.nodes[old].op = "Deleted", !.nodes[old].in = <<>>]

\* What used the memory node n leaves behind uses the memory n was given; its
\* result is replaced, unless replace is 0.
replace_node(g, n, replace) ==
  LET use(u, h) == IF h.nodes[u].mode = "M" THEN Reroute(h, u, h.nodes[n].in[1])
                   ELSE IF replace = 0 THEN h ELSE exchange(h, u, replace)
  IN FoldSet(use, g, Users(g, n))

\* The nodes of block old are in block new from now on.
exchange_block(g, old, new) ==
  [g EXCEPT !.nodes = [i \in DOMAIN @ |-> IF @[i].block = old THEN [@[i] EXCEPT !.block = new]
                                          ELSE @[i]]]

-----------------------------------------------------------------------------
(* A pass with a worklist is a record: the graph g, the value linked to    *)
(* each node, the queue of nodes to handle, whether the node just handled  *)
(* asks for its users to be handled again, and whether the pass has        *)
(* reported a change.                                                      *)

NewWorklist(g) ==
  [g |-> g, link |-> [n \in DOMAIN g.nodes |-> NoTarval],
   queue |-> <<>>, again |-> FALSE, changed |-> FALSE]

InOrder(g, ns) == SelectSeq([n \in DOMAIN g.nodes |-> n], LAMBDA n : n \in ns)

\* The users of a node whose handling asks for it join the end of the queue.
Requeued(s, n) ==
  IF s.again THEN [s EXCEPT !.queue = @ \o InOrder(s.g, Users(s.g, n))] ELSE s
=============================================================================
