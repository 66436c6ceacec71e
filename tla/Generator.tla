------------------------------ MODULE Generator ------------------------------
(***************************************************************************)
(* The code generator (class generator and assemble_function in            *)
(* src/src/core/asm/generator.cpp) and the virtual assembly it produces,   *)
(* running.                                                                *)
(*                                                                         *)
(* First the generator walks the graph: a first pass gives every phi a     *)
(* register, a second pass visits every node, its operands before it       *)
(* except where a loop is closed through a phi, and appends instructions   *)
(* to lists kept per block: the body, and the moves on each edge out of    *)
(* it.  Then the listing get() puts together from these lists is run one   *)
(* instruction at a time.  A register is named after the node it was       *)
(* allocated for.                                                          *)
(***************************************************************************)
EXTENDS ProgramGraph, Naturals, FiniteSets, SequencesExt

CONSTANTS Graphs, Fresh, Junk

ASSUME GraphsAssumption ==
  /\ \A g \in Graphs : WellFormed(g) /\ IsFiniteSet(Nodes(g)) /\ Junk \notin Nodes(g)
  /\ Junk \notin Fresh

VARIABLES
  graph,
  phase,     \* "first", "second", "body", "edge", "returned"
  registers, \* nodes with a register (_registers)
  visited,
  body,      \* block -> instructions (bb_meta::body)
  jump,      \* block -> operands its final jump or return reads
  moves,     \* edge -> instructions (phis_on_cond_branch, phis_on_fall_through)
  at, way,   \* block being run, edge being taken
  pos,       \* next instruction of the list being run
  regs,      \* what the registers hold
  pending,   \* values the phis must have after the edge (history)
  event

walking == <<registers, visited, body, jump, moves>>
running == <<at, way, pos, regs, pending, event>>
vars == <<graph, phase, walking, running>>

-----------------------------------------------------------------------------
(* Operands and instructions. *)

Instruction(dst, in) == [dst |-> dst, in |-> in]

\* _get_irn_as_operand: an immediate, or the register of a data node.
AsOperand(n) == IF graph.kind[n] = "const" THEN <<"imm", n>> ELSE <<"reg", n>>
HasOperand(n) == graph.kind[n] = "const" \/ n \in registers

\* _get_irn_as_register_operand: a constant is moved to a register of its own
\* the first time one is needed, in the body of the current block.
AsRegister(n) == <<"reg", n>>
Unloaded(ns) == {n \in ns : graph.kind[n] = "const" /\ n \notin registers}
LoadsNothing(ns) == <<>>
Loads(ns) == SetToSeq({Instruction(n, <<<<"imm", n>>>>) : n \in Unloaded(ns)})

Read(o) == IF o[1] = "imm" THEN o[2] ELSE regs[o[2]]
\* One operand is moved; two are compared, and the flags set kept.
Result(in) == IF Len(in) = 1 THEN Read(in[1]) ELSE <<Read(in[1]), Read(in[2])>>

\* The operands of a comparison as cmp reads them.
CompareOperands(n) == <<AsRegister(graph.in[n][1]), AsOperand(graph.in[n][2])>>

\* The operands of the instruction that gives phi p its value on edge e.
MoveOperands(p, e) ==
  LET m == graph.from[p][e]
  IN  IF graph.kind[m] = "cmp" THEN CompareOperands(m) ELSE <<AsOperand(m)>>

\* The nodes whose registers are looked up when n is visited.
Needs(n) ==
  IF graph.kind[n] = "flags"
  THEN UNION {Operands(graph, m) : m \in {u \in Uses(graph, n) : graph.kind[u] = "cmp"}}
  ELSE IF graph.kind[n] = "cmp" THEN {} ELSE Uses(graph, n)

\* irg_walk_topological: what the walk has to have visited before n.
Before(n) == {m \in Uses(graph, n) : graph.kind[m] \in {"op", "conv", "cmp"}}
Ready(n) == n \notin visited /\ Before(n) \subseteq visited

-----------------------------------------------------------------------------
Init ==
  /\ graph \in Graphs
  /\ phase = "first"
  /\ registers = {}
  /\ visited = {}
  /\ body = [b \in Blocks(graph) |-> <<>>]
  /\ jump = [b \in Blocks(graph) |-> <<>>]
  /\ moves = [e \in Edges(graph) |-> <<>>]
  /\ at = graph.entry
  /\ way = <<graph.entry, FALSE>>
  /\ pos = 1
  /\ regs = [n \in Nodes(graph) |-> IF graph.kind[n] = "param" THEN n ELSE Junk]
  /\ pending = <<>>
  /\ event = <<"start">>

FirstPassWithoutPhis ==
  /\ phase = "first"
  /\ registers' = OfKind(graph, {"param"})
  /\ phase' = "second"
  /\ UNCHANGED <<graph, visited, body, jump, moves, running>>

\* Phis are used before they are visited, so they get registers now; then
\* handle_parameters gives the used parameters theirs.
FirstPass ==
  /\ phase = "first"
  /\ registers' = Phis(graph) \cup OfKind(graph, {"param"})
  /\ phase' = "second"
  /\ UNCHANGED <<graph, visited, body, jump, moves, running>>

\* A node of the second pass, with the registers it gets or makes others get.
Visit(n, new) ==
  /\ phase = "second"
  /\ Ready(n)
  /\ \A m \in Needs(n) : HasOperand(m)
  /\ visited' = visited \cup {n}
  /\ registers' = registers \cup new
  /\ UNCHANGED <<graph, phase, running>>

\* _visit_binop and the other nodes that take operands as they are.
VisitOperation(n) ==
  /\ graph.kind[n] = "op"
  /\ Visit(n, {n})
  /\ body' = [body EXCEPT ![graph.block[n]] =
                Append(@, Instruction(n, [i \in DOMAIN graph.in[n] |-> AsOperand(graph.in[n][i])]))]
  /\ UNCHANGED <<jump, moves>>

\* _visit_conv, _visit_load: the operand has to be in a register.
VisitConversion(n) ==
  LET src == graph.in[n][1]
  IN  /\ graph.kind[n] = "conv"
      /\ Visit(n, {n, src})
      /\ body' = [body EXCEPT ![graph.block[n]] =
                    @ \o Loads({src}) \o <<Instruction(n, <<AsRegister(src)>>)>>]
      /\ UNCHANGED <<jump, moves>>

\* _visit_cmp only notes that the result will be in the flags.
VisitCompare(n) ==
  /\ graph.kind[n] = "cmp"
  /\ Visit(n, {n})
  /\ UNCHANGED <<body, jump, moves>>

VisitDataPhiFallingThrough(p) ==
  /\ graph.kind[p] = "phi"
  /\ Visit(p, {})
  /\ moves' = [e \in DOMAIN moves |->
                 IF ~e[2] /\ graph.succ[e] = graph.block[p]
                 THEN Append(moves[e], Instruction(p, <<AsOperand(graph.from[p][e])>>))
                 ELSE moves[e]]
  /\ UNCHANGED <<body, jump>>

\* What is appended to the edges into p's block (_visit_phi_generic).
MovesOn(p) ==
  [e \in DOMAIN moves |->
     IF graph.succ[e] = graph.block[p]
     THEN Append(moves[e], Instruction(p, MoveOperands(p, e)))
     ELSE moves[e]]

\* _visit_data_phi: a move at the end of the list of every incoming edge.
VisitDataPhi(p) ==
  /\ graph.kind[p] = "phi"
  /\ Visit(p, {})
  /\ moves' = MovesOn(p)
  /\ UNCHANGED <<body, jump>>

\* _visit_flags_phi: the comparison is made again on the edge; a constant on
\* its left side is loaded in the current block, which is the phi's.
VisitFlagsPhi(p) ==
  LET lefts == {graph.in[m][1] : m \in {u \in Uses(graph, p) : graph.kind[u] = "cmp"}}
  IN  /\ graph.kind[p] = "flags"
      /\ Visit(p, lefts)
      /\ body' = [body EXCEPT ![graph.block[p]] = @ \o Loads(lefts)]
      /\ moves' = MovesOn(p)
      /\ UNCHANGED jump

\* The data nodes that need nothing emitted: constants and parameters.
VisitOther(n) ==
  /\ graph.kind[n] \in {"const", "param"}
  /\ Visit(n, {})
  /\ UNCHANGED <<body, jump, moves>>

\* _visit_cond, _visit_return and _visit_jmp; a block's exit is named by the
\* block.  The comparison is made in front of the conditional jump.
Selects(b) == graph.exit[b][1] # "jmp"
Compares(b) == Selects(b) /\ graph.kind[graph.exit[b][2]] = "cmp"
ExitNeeds(b) ==
  IF ~Selects(b) THEN {}
  ELSE IF Compares(b) THEN Operands(graph, graph.exit[b][2]) ELSE {graph.exit[b][2]}
ExitReady(b) ==
  /\ b \notin visited
  /\ Selects(b) /\ graph.kind[graph.exit[b][2]] \in {"op", "conv", "cmp"}
       => graph.exit[b][2] \in visited

VisitExit(b) ==
  LET left == IF Compares(b) THEN {graph.in[graph.exit[b][2]][1]} ELSE {}
  IN  /\ phase = "second"
      /\ ExitReady(b)
      /\ \A n \in ExitNeeds(b) : HasOperand(n)
      /\ visited' = visited \cup {b}
      /\ registers' = registers \cup left
      /\ body' = [body EXCEPT ![b] = @ \o Loads(left)]
      /\ jump' = [jump EXCEPT ![b] = IF Compares(b) THEN CompareOperands(graph.exit[b][2])
                                     ELSE IF Selects(b) THEN <<AsOperand(graph.exit[b][2])>>
                                     ELSE <<>>]
      /\ UNCHANGED <<graph, phase, moves, running>>

-----------------------------------------------------------------------------
(* get() lays out, for each block: its body; the conditional jump; the     *)
(* moves and the jump of the edge that falls through; the moves and the    *)
(* jump of the edge that is taken.  The listing starts at the start block. *)

Get ==
  /\ phase = "second"
  /\ Nodes(graph) \cup Blocks(graph) \subseteq visited
  /\ phase' = "body"
  /\ UNCHANGED <<graph, walking, running>>

Execute ==
  /\ phase = "body"
  /\ pos \in DOMAIN body[at]
  /\ LET i == body[at][pos]
     IN  \/ /\ graph.kind[i.dst] = "const"
            /\ regs' = [regs EXCEPT ![i.dst] = Read(i.in[1])]
            /\ UNCHANGED event
         \/ /\ graph.kind[i.dst] # "const"
            /\ \E r \in Fresh : regs' = [regs EXCEPT ![i.dst] = r]
            /\ event' = <<"compute", i.dst, [j \in DOMAIN i.in |-> Read(i.in[j])]>>
  /\ pos' = pos + 1
  /\ UNCHANGED <<graph, phase, walking, at, way, pending>>

\* The value a phi is to have: its operand's when the edge is entered.
Incoming(p, e) ==
  LET m == graph.from[p][e]
  IN  IF graph.kind[m] = "cmp"
      THEN <<Read(AsOperand(graph.in[m][1])), Read(AsOperand(graph.in[m][2]))>>
      ELSE Read(AsOperand(m))

Leave(taken) ==
  LET e == <<at, taken>>
  IN  /\ phase = "body"
      /\ pos = Len(body[at]) + 1
      /\ e \in Edges(graph)
      /\ phase' = "edge"
      /\ way' = e
      /\ pos' = 1
      /\ pending' = [p \in PhisOf(graph, graph.succ[e]) |-> Incoming(p, e)]
      /\ event' = IF graph.exit[at][1] = "cond"
                  THEN <<"branch", Result(jump[at]), taken>>
                  ELSE <<"jump">>
      /\ UNCHANGED <<graph, walking, at, regs>>

MovePhi ==
  /\ phase = "edge"
  /\ pos \in DOMAIN moves[way]
  /\ regs' = [regs EXCEPT ![moves[way][pos].dst] = Result(moves[way][pos].in)]
  /\ pos' = pos + 1
  /\ UNCHANGED <<graph, phase, walking, at, way, pending, event>>

EnterAfterMoves ==
  /\ phase = "edge"
  /\ pos = Len(moves[way]) + 1
  /\ phase' = "body"
  /\ at' = graph.succ[way]
  /\ pending' = <<>>
  /\ UNCHANGED <<graph, walking, way, pos, regs, event>>

Enter ==
  /\ phase = "edge"
  /\ pos = Len(moves[way]) + 1
  /\ phase' = "body"
  /\ at' = graph.succ[way]
  /\ pos' = 1
  /\ pending' = <<>>
  /\ UNCHANGED <<graph, walking, way, regs, event>>

Return ==
  /\ phase = "body"
  /\ pos = Len(body[at]) + 1
  /\ graph.exit[at][1] = "ret"
  /\ phase' = "returned"
  /\ event' = <<"return", Read(jump[at][1])>>
  /\ UNCHANGED <<graph, walking, at, way, pos, regs, pending>>

SecondPass ==
  \/ \E n \in Nodes(graph) :
       \/ VisitOperation(n) \/ VisitConversion(n) \/ VisitCompare(n)
       \/ VisitDataPhi(n) \/ VisitFlagsPhi(n) \/ VisitOther(n)
  \/ \E b \in Blocks(graph) : VisitExit(b)

Next ==
  \/ FirstPass \/ SecondPass \/ Get
  \/ Execute \/ MovePhi \/ Enter \/ Return
  \/ \E taken \in BOOLEAN : Leave(taken)

Spec == Init /\ [][Next]_vars
-----------------------------------------------------------------------------
(* Properties. *)

TypeOK ==
  /\ graph \in Graphs
  /\ phase \in {"first", "second", "body", "edge", "returned"}
  /\ registers \subseteq Nodes(graph)
  /\ visited \subseteq Nodes(graph) \cup Blocks(graph)
  /\ DOMAIN body = Blocks(graph) /\ DOMAIN jump = Blocks(graph)
  /\ DOMAIN moves = Edges(graph)
  /\ at \in Blocks(graph)
  /\ phase = "body" => pos \in 1..(Len(body[at]) + 1)
  /\ phase = "edge" => way \in Edges(graph) /\ pos \in 1..(Len(moves[way]) + 1)
  /\ DOMAIN regs = Nodes(graph)

\* "assert(reg != virtual_register::dummy)": whatever order the walk takes,
\* every node looked up in a visit has a register by then, also across the
\* back edges of loops.
NoDummyRegister ==
  phase = "second" =>
    /\ \A n \in Nodes(graph) : Ready(n) => \A m \in Needs(n) : HasOperand(m)
    /\ \A b \in Blocks(graph) : ExitReady(b) => \A m \in ExitNeeds(b) : HasOperand(m)

\* On every edge into a block there is one instruction for each phi of the
\* block visited so far, and it takes the operand the phi has for that edge:
\* none is appended twice, to another edge, or left out.
MovesOf(e) == {Instruction(p, MoveOperands(p, e)) : p \in PhisOf(graph, graph.succ[e])}
MovedOnceOn(e) ==
  /\ moves[e] \in Seq(MovesOf(e))
  /\ \A i, j \in DOMAIN moves[e] : moves[e][i].dst = moves[e][j].dst => i = j
  /\ {moves[e][i].dst : i \in DOMAIN moves[e]} = visited \cap PhisOf(graph, graph.succ[e])
MovedOnce == \A e \in Edges(graph) : MovedOnceOn(e)

\* Once the moves of an edge are done, every phi of the block it leads to has
\* the value its operand had when the edge was taken: the moves, made one
\* after the other, are a parallel assignment.
EdgeMovesParallel ==
  (phase = "edge" /\ pos = Len(moves[way]) + 1) =>
    \A p \in DOMAIN pending : regs[p] = pending[p]

\* No instruction reads a register nothing was written to: on every path
\* to a use there is a definition.
Sees(in) == \A i \in DOMAIN in : Read(in[i]) # Junk
DefinedBeforeUse ==
  /\ (phase = "body" /\ pos \in DOMAIN body[at]) => Sees(body[at][pos].in)
  /\ (phase = "body" /\ pos = Len(body[at]) + 1) => Sees(jump[at])
  /\ (phase = "edge" /\ pos \in DOMAIN moves[way]) => Sees(moves[way][pos].in)

-----------------------------------------------------------------------------
\* The listing computes and branches on the values the graph says.
Emitted ==
  IF phase \in {"body", "returned"}
  THEN {body[at][i].dst : i \in 1..(pos - 1)} \cap Computed(graph)
  ELSE {}
Current ==
  [n \in Stored(graph) |->
     IF phase = "edge" /\ n \in DOMAIN pending THEN pending[n] ELSE regs[n]]

SSA == INSTANCE StaticSingleAssignment WITH
         at <- IF phase = "edge" THEN graph.succ[way] ELSE at,
         done <- Emitted,
         val <- Current,
         running <- phase # "returned"
Implements == SSA!Spec
=============================================================================
