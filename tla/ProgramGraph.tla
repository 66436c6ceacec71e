---------------------------- MODULE ProgramGraph ----------------------------
(***************************************************************************)
(* The part of a lowered libfirm graph that                                *)
(* src/src/core/asm/generator.cpp reads: basic blocks, and the nodes that  *)
(* compute values in them.  A graph g is a record:                         *)
(*                                                                         *)
(*   entry   the start block                                               *)
(*   kind    node -> "const", "param", "op", "conv", "cmp", "phi", "flags" *)
(*   block   node -> the block it belongs to                               *)
(*   in      op, conv or cmp -> the sequence of its operands               *)
(*   from    phi or flags -> (edge -> the operand for that edge)           *)
(*   exit    block -> <<"jmp">>, <<"cond", selector>>, <<"ret", operand>>  *)
(*   succ    edge -> block                                                 *)
(*                                                                         *)
(* An edge is <<block, taken>>, taken being TRUE for the branch a          *)
(* conditional jump takes.  "flags" is a phi of mode b: each of its        *)
(* operands is a comparison or a constant.                                 *)
(***************************************************************************)
Nodes(g) == DOMAIN g.kind
Blocks(g) == DOMAIN g.exit
Edges(g) == DOMAIN g.succ

OfKind(g, kinds) == {n \in Nodes(g) : g.kind[n] \in kinds}
Phis(g) == OfKind(g, {"phi", "flags"})
Computed(g) == OfKind(g, {"op", "conv"})

\* Nodes whose value is kept: a constant is its own value, a comparison is
\* made where it is used.
Stored(g) == OfKind(g, {"param", "op", "conv", "phi", "flags"})

PhisOf(g, b) == {p \in Phis(g) : g.block[p] = b}
Into(g, b) == {e \in Edges(g) : g.succ[e] = b}
Operands(g, n) == {g.in[n][i] : i \in DOMAIN g.in[n]}
Uses(g, n) ==
  IF n \in Phis(g) THEN {g.from[n][e] : e \in DOMAIN g.from[n]}
  ELSE IF g.kind[n] \in {"op", "conv", "cmp"} THEN Operands(g, n)
  ELSE {}

\* What the generator asserts or relies on of a graph.
WellFormed(g) ==
  /\ g.entry \in Blocks(g)
  /\ Nodes(g) \cap Blocks(g) = {}
  /\ \A n \in Nodes(g) : g.kind[n] \in {"const", "param", "op", "conv", "cmp", "phi", "flags"}
  /\ \A n \in Nodes(g) : g.block[n] \in Blocks(g) /\ Uses(g, n) \subseteq Nodes(g)
  /\ \A e \in Edges(g) : e \in Blocks(g) \X BOOLEAN /\ g.succ[e] \in Blocks(g)
  /\ \A p \in Phis(g) : DOMAIN g.from[p] = Into(g, g.block[p])
  /\ \A p \in OfKind(g, {"flags"}) : \A e \in DOMAIN g.from[p] :
       g.kind[g.from[p][e]] \in {"cmp", "const"}
  /\ \A b \in Blocks(g) : g.exit[b][1] # "jmp" =>
       /\ g.exit[b][2] \in Nodes(g)
       /\ g.exit[b][1] = "cond" <=> g.kind[g.exit[b][2]] \in {"cmp", "flags"}
  /\ \A n \in OfKind(g, {"cmp"}) : DOMAIN g.in[n] = {1, 2}
  /\ \A n \in OfKind(g, {"conv"}) : DOMAIN g.in[n] = {1}
  /\ \A n \in Nodes(g) \ OfKind(g, {"flags"}) :
       \A m \in Uses(g, n) : g.kind[m] \notin {"cmp", "flags"}

\* What the move of phi p on edge e reads.
MoveReads(g, p, e) ==
  LET m == g.from[p][e]
  IN  IF g.kind[m] = "cmp" THEN Operands(g, m) ELSE {m}

\* No phi takes the value of another phi of its block, and no comparison with
\* a constant on the left is kept in a phi.
Uncrossed(g) ==
  \A p \in Phis(g) : \A e \in DOMAIN g.from[p] :
    LET m == g.from[p][e]
    IN  /\ MoveReads(g, p, e) \cap PhisOf(g, g.block[p]) \subseteq {p}
        /\ g.kind[m] = "cmp" => g.kind[g.in[m][1]] # "const"

\* The blocks with a conversion of constant k, or with a conditional jump on
\* a comparison that has k on its left.
LoadedAt(g, k) ==
  {g.block[n] : n \in {c \in OfKind(g, {"conv"}) : g.in[c][1] = k}}
    \cup {b \in Blocks(g) : /\ g.exit[b][1] # "jmp"
                            /\ g.kind[g.exit[b][2]] = "cmp"
                            /\ g.in[g.exit[b][2]][1] = k}

\* No constant is needed in a register in two blocks.
LoadsOnce(g) == \A k \in OfKind(g, {"const"}) : \A b, c \in LoadedAt(g, k) : b = c

\* Block b cannot be reached without passing through d: some set of blocks
\* that only edges to d lead out of has the entry, unless that is d, but not b.
Dominates(g, d, b) ==
  \E S \in SUBSET Blocks(g) :
    /\ g.entry = d \/ g.entry \in S
    /\ \A e \in Edges(g) : e[1] \in S => g.succ[e] = d \/ g.succ[e] \in S
    /\ b \notin S

\* What has to be computed or moved before it can be read.
Defined(g) == OfKind(g, {"op", "conv", "cmp", "phi", "flags"})

\* Every use is dominated by its definition; that of a phi is where the edge
\* comes from.
Strict(g) ==
  /\ PhisOf(g, g.entry) = {}
  /\ \A n \in OfKind(g, {"op", "conv", "cmp"}) : \A m \in Operands(g, n) \cap Defined(g) :
       Dominates(g, g.block[m], g.block[n])
  /\ \A p \in Phis(g) : \A e \in DOMAIN g.from[p] :
       g.from[p][e] \in Defined(g) => Dominates(g, g.block[g.from[p][e]], e[1])
  /\ \A b \in Blocks(g) : g.exit[b][1] # "jmp" /\ g.exit[b][2] \in Defined(g) =>
       Dominates(g, g.block[g.exit[b][2]], b)
=============================================================================
