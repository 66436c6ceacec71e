----------------------------- MODULE FirmGraph -----------------------------
(***************************************************************************)
(* libfirm as the construction of graphs uses it, and the meaning of a     *)
(* finished graph.  A graph is a sequence of nodes, each in a block; the   *)
(* variables' values are kept per block, number STORE being the memory.    *)
(* Memory is a value like any other: what is not linked to the memory a    *)
(* method returns with has no effect.                                      *)
(***************************************************************************)
EXTENDS FirmNodes

STORE == -1
EndBlock == 2

-----------------------------------------------------------------------------
(* Construction.  g.node is the node made last; 0 is no node or no block.  *)

NoBlock == [preds |-> <<>>, mature |-> FALSE, vars |-> [v \in {} |-> 0]]
NewGraph ==
  [nodes |-> <<>>, blocks |-> <<[NoBlock EXCEPT !.mature = TRUE], NoBlock>>,
   cur |-> StartBlock, node |-> 0, broken |-> FALSE]
NewBlock(g) == [g EXCEPT !.blocks = Append(@, NoBlock)]

Node(g, op, mode, in, attr) == NodeIn(g, g.cur, op, mode, in, attr)
Const(g, mode, value) == Node(g, "Const", mode, <<>>, value)
ModeOf(g, node) == IF node = 0 THEN "none" ELSE g.nodes[node].mode

AddPred(g, b, node) == [g EXCEPT !.blocks[b].preds = Append(@, node)]
Mature(g, b) == [g EXCEPT !.blocks[b].mature = TRUE]
SetBlock(g, b) == [g EXCEPT !.cur = b]

SetValue(g, var, node) ==
  IF g.cur = 0 THEN [g EXCEPT !.broken = TRUE]
  ELSE [g EXCEPT !.blocks[g.cur].vars = (var :> node) @@ @]

\* The value set in the block; else that of the only predecessor; else a
\* node that stands for the value the predecessors end with.
RECURSIVE ValueIn(_, _, _, _)
ValueIn(g, b, var, mode) ==
  LET bl == g.blocks[b]
      set(h) == [h EXCEPT !.blocks[b].vars = (var :> h.node) @@ @]
  IN IF var \in DOMAIN bl.vars THEN [g EXCEPT !.node = bl.vars[var]]
     ELSE IF bl.mature /\ Len(bl.preds) = 1
     THEN ValueIn(g, g.nodes[bl.preds[1]].block, var, mode)
     ELSE set(NodeIn(g, b, "Variable", mode, <<>>, var))
GetValue(g, var, mode) ==
  IF g.cur = 0 THEN [g EXCEPT !.broken = TRUE] ELSE ValueIn(g, g.cur, var, mode)

\* A node that consumes the memory and leaves a new one behind.
MemoryNode(g, op, in, attr) ==
  LET set(h, node) == [SetValue(h, STORE, h.node) EXCEPT !.node = node]
      memory(h) == set(Node(h, "Proj", "M", <<h.node>>, "M"), h.node)
      access(h) == memory(Node(h, op, "T", <<h.node>> \o in, attr))
  IN access(GetValue(g, STORE, "M"))
Result(g, mode) == Node(g, "Proj", mode, <<g.node>>, "res")

-----------------------------------------------------------------------------
(* Execution.  Memory holds the objects, the output, the input not yet     *)
(* read, the steps still allowed and why the program was stopped, if it    *)
(* was.  Object 0 is null; an address is an object and a place in it.      *)

Stop(mem, reason) == IF mem.stop = "" THEN [mem EXCEPT !.stop = reason] ELSE mem
Done(mem, value) == [M |-> mem, res |-> value]
Allocated(mem, places) ==
  Done([mem EXCEPT !.heap = Append(@, [p \in places |-> 0])], Len(mem.heap) + 1)

\* mj_runtime.c: what is called outside of the compiled program.
Runtime(name, arguments, mem) ==
  CASE name = "println" -> Done([mem EXCEPT !.out = Append(@, arguments[1])], 0)
    [] name = "write" -> Done([mem EXCEPT !.out = Append(@, arguments[1] % 256)], 0)
    [] name = "flush" -> Done(mem, 0)
    [] name = "id" -> Done(mem, arguments[1])
    [] name = "exit" -> Done(Stop(mem, "exit"), 0)
    [] name = "read" -> IF mem.input = <<>> THEN Done(mem, -1)
                        ELSE Done([mem EXCEPT !.input = Tail(@)], Head(mem.input))

RuntimeNew(count, places, mem) ==
  IF count < 0 THEN Done(Stop(mem, "negative_size"), 0)
  ELSE Allocated(mem, IF places = {} THEN 0..count - 1 ELSE places)

MemoryOps == {"Div", "Mod", "Load", "Store", "Call"}

RECURSIVE RunMethod(_, _, _, _), RunBlock(_, _, _, _, _, _, _)

\* The new memory and the result of a memory node; v are its operands.
Access(graphs, n, v) ==
  LET mem == v[1]
      valid == v[2].obj \in DOMAIN mem.heap /\ v[2].place \in DOMAIN mem.heap[v[2].obj]
  IN IF mem.stop # "" THEN Done(mem, 0)
     ELSE CASE n.op \in {"Div", "Mod"} ->
                 IF v[3] = 0 THEN Done(Stop(mem, "fault"), 0)
                 ELSE Done(mem, IF n.op = "Div" THEN Truncated(v[2], v[3])
                                ELSE v[2] - v[3] * Truncated(v[2], v[3]))
            [] n.op = "Load" -> IF ~valid THEN Done(Stop(mem, "fault"), 0)
                                ELSE Done(mem, mem.heap[v[2].obj][v[2].place])
            [] n.op = "Store" -> IF ~valid THEN Done(Stop(mem, "fault"), 0)
                                 ELSE Done([mem EXCEPT !.heap[v[2].obj][v[2].place] = v[3]], 0)
            [] n.op = "Call" ->
                 CASE n.attr.kind = "new" -> RuntimeNew(v[2], n.attr.places, mem)
                   [] n.attr.kind = "runtime" -> Runtime(n.attr.name, Tail(v), mem)
                   [] n.attr.kind = "method" -> RunMethod(graphs, n.attr.path, Tail(v), mem)

Value(graphs, n, v, incoming, arguments) ==
  CASE n.op = "Const" -> n.attr
    [] n.op = "Argument" -> arguments[n.attr + 1]
    [] n.op = "Variable" -> IF n.attr \in DOMAIN incoming THEN incoming[n.attr] ELSE 0
    [] n.op = "Phi" -> v[1]
    [] n.op \in Pure -> Computed(n, v)
    [] n.op = "Conv" -> IF n.mode = "Is" THEN wrap(v[1]) ELSE v[1]
    [] n.op = "Sel" -> [obj |-> v[1], place |-> v[2]]
    [] n.op = "Member" -> [obj |-> v[1], place |-> n.attr]
    [] n.op = "Address" -> [obj |-> 1, place |-> n.attr]
    [] n.op = "Proj" /\ n.attr \in {"M", "res"} -> v[1][n.attr]
    [] n.op \in MemoryOps -> Access(graphs, n, v)
    [] OTHER -> TRUE

\* The block's Phis first, then the rest in the order it was made.  vals[0] is present
\* once a node was used that had not been computed on this path.
BlockValues(graphs, g, b, from, vals, incoming, arguments) ==
  LET compute(known, i, n, in, before) ==
        IF Range(in) \subseteq DOMAIN before
        THEN (i :> Value(graphs, n, [k \in DOMAIN in |-> before[in[k]]], incoming, arguments))
               @@ known
        ELSE (0 :> TRUE) @@ known
      step(known, i) ==
        LET n == g.nodes[i]
        IN IF n.op = "Phi" THEN compute(known, i, n, <<n.in[from]>>, vals)
           ELSE compute(known, i, n, n.in, known)
      nodes(phis) == SelectSeq([i \in DOMAIN g.nodes |-> i],
                               LAMBDA i : g.nodes[i].block = b /\ (g.nodes[i].op = "Phi") = phis)
  IN FoldLeft(step, vals, nodes(TRUE) \o nodes(FALSE))

\* The edge control leaves block b by: a block and the number of its predecessor.
Taken(g, b, vals) ==
  {e \in UNION {{c} \X DOMAIN g.blocks[c].preds : c \in DOMAIN g.blocks} :
     LET x == g.nodes[g.blocks[e[1]].preds[e[2]]]
     IN x.block = b /\ (x.op = "Proj" =>
          x.attr = IF vals[g.nodes[x.in[1]].in[1]] THEN "true" ELSE "false")}

\* Control has reached the end of a block that left these values behind.
Leave(graphs, g, known, leaving, edges, arguments) ==
  LET mem == leaving[STORE]
      return(r) == Done(known[r.in[1]], IF Len(r.in) = 2 THEN known[r.in[2]] ELSE 0)
      next(e) == IF e[1] = EndBlock THEN return(g.nodes[g.blocks[EndBlock].preds[e[2]]])
                 ELSE RunBlock(graphs, g, e[1], e[2], known,
                               [leaving EXCEPT ![STORE].steps = @ - 1], arguments)
  IN IF mem.stop # "" THEN Done(mem, 0)
     ELSE IF mem.steps = 0 THEN Done(Stop(mem, "unfinished"), 0)
     ELSE IF Cardinality(edges) # 1 THEN Done(Stop(mem, "malformed"), 0)
     ELSE next(CHOOSE e \in edges : TRUE)

RunBlock(graphs, g, b, from, vals, incoming, arguments) ==
  LET vars == g.blocks[b].vars
      leaving(known) == [v \in DOMAIN vars \cup DOMAIN incoming |->
                           IF v \in DOMAIN vars THEN known[vars[v]] ELSE incoming[v]]
      finish(known) ==
        IF 0 \in DOMAIN known THEN Done(Stop(incoming[STORE], "malformed"), 0)
        ELSE Leave(graphs, g, known, leaving(known), Taken(g, b, known), arguments)
  IN finish(BlockValues(graphs, g, b, from, vals, incoming, arguments))

RunMethod(graphs, method, arguments, mem) ==
  IF method \notin DOMAIN graphs \/ mem.steps = 0 THEN Done(Stop(mem, "unfinished"), 0)
  ELSE RunBlock(graphs, graphs[method], StartBlock, 1, [i \in {} |-> 0],
                STORE :> [mem EXCEPT !.steps = @ - 1], arguments)

\* The program's behaviour as seen from outside.
Behaviour(done) == [out |-> done.M.out, stop |-> done.M.stop]
=============================================================================
