-------------------------- MODULE GeneratorProofs --------------------------
(***************************************************************************)
(* Facts about the code generator, for every set of well-formed graphs and *)
(* every order of the walk: no register is looked up before it was         *)
(* allocated; the moves on an edge are a parallel assignment whenever no   *)
(* phi is moved into another phi of its block; where moreover no constant  *)
(* is loaded in two blocks, the listing does what the graph means; and     *)
(* where definitions dominate their uses, no register is read before it is *)
(* written.                                                                *)
(***************************************************************************)
EXTENDS Generator, FiniteSetTheorems, TLAPS

LEMMA KnownGraph ==
  ASSUME graph \in Graphs
  PROVE  WellFormed(graph)
  BY GraphsAssumption

\* Nothing that runs after the two passes changes what they built.
LEMMA ListingFixed ==
  ASSUME Execute \/ MovePhi \/ Enter \/ Return \/ (\E taken \in BOOLEAN : Leave(taken))
  PROVE  UNCHANGED <<graph, walking>> /\ phase \in {"body", "edge"}
         /\ phase' \in {"body", "edge", "returned"}
  BY DEF Execute, MovePhi, Enter, Return, Leave

LEMMA WalkFixed ==
  ASSUME FirstPass \/ SecondPass
  PROVE  UNCHANGED <<graph, running>> /\ phase \in {"first", "second"} /\ phase' = "second"
  BY DEF FirstPass, SecondPass, VisitOperation, VisitConversion, VisitCompare,
         VisitDataPhi, VisitFlagsPhi, VisitOther, VisitExit, Visit

-----------------------------------------------------------------------------
(* Registers are there when they are looked up. *)

RegistersKnown ==
  /\ graph \in Graphs
  /\ phase = "first" => visited = {}
  /\ phase # "first" => OfKind(graph, {"phi", "flags", "param"}) \subseteq registers
  /\ visited \cap OfKind(graph, {"op", "conv"}) \subseteq registers
  /\ \A n \in visited \cap Nodes(graph) : Before(n) \subseteq visited

\* A visited node of the graph: what it uses was visited, too.
LEMMA VisitKeepsRegistersKnown ==
  ASSUME RegistersKnown, NEW n \in Nodes(graph), NEW new, Visit(n, new),
         graph.kind[n] \in {"op", "conv"} => n \in new
  PROVE  RegistersKnown'
<1>1. /\ graph' = graph /\ phase' = phase /\ phase = "second"
      /\ registers' = registers \cup new
      /\ visited' = visited \cup {n}
      /\ Before(n) \subseteq visited
  BY DEF Visit, Ready
<1>2. \A m \in Nodes(graph) : Before(m)' = Before(m)
  BY <1>1 DEF Before, Uses, Phis, OfKind, Nodes, Operands
<1>3. OfKind(graph, {"phi", "flags", "param"})' \subseteq registers'
  BY <1>1 DEF RegistersKnown, OfKind, Nodes
<1>4. (visited \cap OfKind(graph, {"op", "conv"}))' \subseteq registers'
  BY <1>1 DEF RegistersKnown, OfKind, Nodes
<1>5. \A m \in (visited \cap Nodes(graph))' : Before(m)' \subseteq visited'
  BY <1>1, <1>2 DEF RegistersKnown, Nodes
<1> QED  BY <1>1, <1>3, <1>4, <1>5 DEF RegistersKnown

LEMMA RegistersKnownInductive ==
  /\ Init => RegistersKnown
  /\ RegistersKnown /\ [Next]_vars => RegistersKnown'
<1>1. Init => RegistersKnown
  BY DEF Init, RegistersKnown
<1>2. ASSUME RegistersKnown, [Next]_vars
      PROVE  RegistersKnown'
  <2>1. CASE FirstPass
    <3>1. graph' = graph /\ visited' = visited
      BY <2>1 DEF FirstPass
    <3>2. OfKind(graph, {"phi", "flags", "param"})' \subseteq registers'
      BY <2>1, <3>1 DEF FirstPass, Phis, OfKind, Nodes
    <3>3. visited' = {} /\ phase' = "second"
      BY <1>2, <2>1, <3>1 DEF FirstPass, RegistersKnown
    <3> QED  BY <1>2, <3>1, <3>2, <3>3 DEF RegistersKnown
  <2>2. CASE \E n \in Nodes(graph) :
               \/ VisitOperation(n) \/ VisitConversion(n) \/ VisitCompare(n)
               \/ VisitDataPhi(n) \/ VisitFlagsPhi(n) \/ VisitOther(n)
    <3> PICK n \in Nodes(graph) :
               \/ VisitOperation(n) \/ VisitConversion(n) \/ VisitCompare(n)
               \/ VisitDataPhi(n) \/ VisitFlagsPhi(n) \/ VisitOther(n)
      BY <2>2
    <3>1. \E new : Visit(n, new) /\ (graph.kind[n] \in {"op", "conv"} => n \in new)
      <4>1. CASE VisitOperation(n)
        BY <4>1 DEF VisitOperation
      <4>2. CASE VisitConversion(n)
        BY <4>2 DEF VisitConversion
      <4>3. CASE VisitCompare(n)
        BY <4>3 DEF VisitCompare
      <4>4. CASE VisitDataPhi(n)
        BY <4>4 DEF VisitDataPhi
      <4>5. CASE VisitFlagsPhi(n)
        BY <4>5 DEF VisitFlagsPhi
      <4>6. CASE VisitOther(n)
        BY <4>6 DEF VisitOther
      <4> QED  BY <4>1, <4>2, <4>3, <4>4, <4>5, <4>6
    <3> QED  BY <1>2, <3>1, VisitKeepsRegistersKnown
  <2>3. CASE \E b \in Blocks(graph) : VisitExit(b)
    <3> PICK b \in Blocks(graph) : VisitExit(b)
      BY <2>3
    <3>1. /\ graph' = graph /\ phase' = phase /\ phase = "second"
          /\ registers \subseteq registers'
          /\ visited' = visited \cup {b}
      BY DEF VisitExit
    <3>2. b \notin Nodes(graph)
      BY <1>2, KnownGraph DEF RegistersKnown, WellFormed
    <3>3. \A m \in Nodes(graph) : Before(m)' = Before(m)
      BY <3>1 DEF Before, Uses, Phis, OfKind, Nodes, Operands
    <3>4. OfKind(graph, {"phi", "flags", "param"})' \subseteq registers'
      BY <1>2, <3>1 DEF RegistersKnown, OfKind, Nodes
    <3>5. (visited \cap OfKind(graph, {"op", "conv"}))' \subseteq registers'
      BY <1>2, <3>1, <3>2 DEF RegistersKnown, OfKind, Nodes
    <3>6. \A m \in (visited \cap Nodes(graph))' : Before(m)' \subseteq visited'
      BY <1>2, <3>1, <3>2, <3>3 DEF RegistersKnown, Nodes
    <3> QED  BY <1>2, <3>1, <3>4, <3>5, <3>6 DEF RegistersKnown
  <2>4. CASE UNCHANGED <<graph, walking>> /\ (phase' = "first" <=> phase = "first")
    BY <1>2, <2>4 DEF RegistersKnown, walking, OfKind, Nodes, Before, Uses, Phis, Operands
  <2>5. CASE Get
    BY <2>4, <2>5 DEF Get
  <2>6. CASE Execute \/ MovePhi \/ Enter \/ Return \/ (\E taken \in BOOLEAN : Leave(taken))
    BY <2>4, <2>6, ListingFixed
  <2>7. CASE UNCHANGED vars
    BY <2>4, <2>7 DEF vars
  <2> QED  BY <1>2, <2>1, <2>2, <2>3, <2>5, <2>6, <2>7 DEF Next, SecondPass
<1> QED  BY <1>1, <1>2

LEMMA KnownEnough ==
  ASSUME RegistersKnown
  PROVE  NoDummyRegister
<1> SUFFICES ASSUME phase = "second"
             PROVE  /\ \A n \in Nodes(graph) : Ready(n) => \A m \in Needs(n) : HasOperand(m)
                    /\ \A b \in Blocks(graph) : ExitReady(b) => \A n \in ExitNeeds(b) : HasOperand(n)
  BY DEF NoDummyRegister
<1> USE DEF Nodes, OfKind
<1>0. WellFormed(graph)
  BY KnownGraph DEF RegistersKnown
<1>1. ASSUME NEW m \in Nodes(graph), graph.kind[m] \notin {"cmp"},
             graph.kind[m] \in {"op", "conv"} => m \in visited
      PROVE  HasOperand(m)
  BY <1>0, <1>1 DEF HasOperand, RegistersKnown, WellFormed
<1>2. ASSUME NEW m \in Nodes(graph) \cap visited, graph.kind[m] = "cmp",
             NEW l \in Operands(graph, m)
      PROVE  HasOperand(l)
  <2>1. l \in Uses(graph, m) /\ l \in Nodes(graph)
    BY <1>0, <1>2 DEF Uses, Phis, WellFormed
  <2>2. graph.kind[l] \notin {"cmp", "flags"}
    BY <1>0, <1>2, <2>1 DEF WellFormed
  <2>3. Before(m) \subseteq visited
    BY <1>2 DEF RegistersKnown
  <2> QED  BY <1>1, <2>1, <2>2, <2>3 DEF Before
<1>3. ASSUME NEW n \in Nodes(graph), Ready(n), NEW m \in Needs(n)
      PROVE  HasOperand(m)
  <2>1. Before(n) \subseteq visited
    BY <1>3 DEF Ready
  <2>2. CASE graph.kind[n] = "flags"
    <3>1. PICK u \in Uses(graph, n) : graph.kind[u] = "cmp" /\ m \in Operands(graph, u)
      BY <1>3, <2>2 DEF Needs
    <3>2. u \in Nodes(graph) /\ u \in visited
      BY <1>0, <2>1, <3>1 DEF Before, WellFormed
    <3> QED  BY <1>2, <3>1, <3>2
  <2>3. CASE graph.kind[n] \notin {"flags", "cmp"}
    <3>1. m \in Uses(graph, n)
      BY <1>3, <2>3 DEF Needs
    <3>2. m \in Nodes(graph) /\ graph.kind[m] \notin {"cmp", "flags"}
      BY <1>0, <2>3, <3>1 DEF WellFormed
    <3> QED  BY <1>1, <2>1, <3>1, <3>2 DEF Before
  <2> QED  BY <1>3, <2>2, <2>3 DEF Needs
<1>4. ASSUME NEW b \in Blocks(graph), ExitReady(b), NEW m \in ExitNeeds(b)
      PROVE  HasOperand(m)
  <2> DEFINE selector == graph.exit[b][2]
  <2>1. Selects(b)
    BY <1>4 DEF ExitNeeds
  <2>2. selector \in Nodes(graph)
    BY <1>0, <2>1 DEF WellFormed, Selects
  <2>3. graph.kind[selector] \in {"op", "conv", "cmp"} => selector \in visited
    BY <1>4, <2>1 DEF ExitReady
  <2>4. CASE graph.kind[selector] = "cmp"
    BY <1>2, <1>4, <2>1, <2>2, <2>3, <2>4 DEF ExitNeeds, Compares
  <2>5. CASE graph.kind[selector] # "cmp"
    BY <1>1, <1>4, <2>1, <2>2, <2>3, <2>5 DEF ExitNeeds, Compares
  <2> QED  BY <2>4, <2>5
<1> QED  BY <1>3, <1>4

\* "assert(reg != virtual_register::dummy)" in generator::_get_data_register
\* holds on every lookup.
THEOREM RegistersAllocated == Spec => []NoDummyRegister
  BY RegistersKnownInductive, KnownEnough, PTL DEF Spec
-----------------------------------------------------------------------------
(* Every edge gets one move for each phi of the block it leads to. *)

LEMMA Appended ==
  ASSUME NEW S, NEW s \in Seq(S), NEW x \in S
  PROVE  /\ DOMAIN s = 1..Len(s) /\ Len(s) \in Nat
         /\ Append(s, x) \in Seq(S)
         /\ DOMAIN Append(s, x) = 1..(Len(s) + 1)
         /\ \A i \in DOMAIN s : Append(s, x)[i] = s[i]
         /\ Append(s, x)[Len(s) + 1] = x
  OBVIOUS

MovesKnown ==
  /\ graph \in Graphs
  /\ phase = "first" => visited = {}
  /\ DOMAIN moves = Edges(graph)
  /\ MovedOnce

LEMMA MovesOfFixed ==
  ASSUME graph' = graph
  PROVE  \A e : MovesOf(e)' = MovesOf(e)
  BY DEF MovesOf, MoveOperands, CompareOperands, AsRegister, AsOperand, Instruction,
         PhisOf, Phis, OfKind, Nodes

LEMMA PhiMovedOnce ==
  ASSUME MovesKnown, NEW p \in Phis(graph), NEW new, Visit(p, new), moves' = MovesOn(p),
         NEW e \in Edges(graph)
  PROVE  MovedOnceOn(e)'
<1> DEFINE target == graph.succ[e]
           move == Instruction(p, MoveOperands(p, e))
<1>1. /\ graph' = graph
      /\ p \notin visited
      /\ visited' = visited \cup {p}
  BY DEF Visit, Ready
<1>2. MovesOf(e)' = MovesOf(e) /\ PhisOf(graph, target)' = PhisOf(graph, target)
  BY <1>1, MovesOfFixed DEF PhisOf, Phis, OfKind, Nodes
<1>3. MovedOnceOn(e) /\ e \in DOMAIN moves
  BY DEF MovesKnown, MovedOnce
<1>4. CASE target = graph.block[p]
  <2>1. moves'[e] = Append(moves[e], move)
    BY <1>3, <1>4 DEF MovesOn
  <2>2. p \in PhisOf(graph, target) /\ move \in MovesOf(e) /\ move.dst = p
    BY <1>4 DEF PhisOf, MovesOf, Instruction
  <2>3. /\ moves'[e] \in Seq(MovesOf(e))
        /\ DOMAIN moves[e] = 1..Len(moves[e]) /\ Len(moves[e]) \in Nat
        /\ DOMAIN moves'[e] = 1..(Len(moves[e]) + 1)
        /\ \A i \in DOMAIN moves[e] : moves'[e][i] = moves[e][i]
        /\ moves'[e][Len(moves[e]) + 1] = move
    BY <1>3, <2>1, <2>2, Appended DEF MovedOnceOn
  <2>4. \A i \in DOMAIN moves[e] : moves[e][i].dst # p
    BY <1>1, <1>3 DEF MovedOnceOn
  <2>5. \A i, j \in DOMAIN moves'[e] : moves'[e][i].dst = moves'[e][j].dst => i = j
    <3> TAKE i, j \in DOMAIN moves'[e]
    <3> HAVE moves'[e][i].dst = moves'[e][j].dst
    <3> DEFINE last == Len(moves[e]) + 1
    <3>1. \A k \in DOMAIN moves'[e] : k \in DOMAIN moves[e] \/ k = last
      BY <2>3
    <3>2. CASE i = last /\ j = last
      BY <3>2
    <3>3. CASE i = last /\ j \in DOMAIN moves[e]
      BY <2>2, <2>3, <2>4, <3>3
    <3>4. CASE i \in DOMAIN moves[e] /\ j = last
      BY <2>2, <2>3, <2>4, <3>4
    <3>5. CASE i \in DOMAIN moves[e] /\ j \in DOMAIN moves[e]
      BY <1>3, <2>3, <3>5 DEF MovedOnceOn
    <3> QED  BY <3>1, <3>2, <3>3, <3>4, <3>5
  <2>6. {moves'[e][i].dst : i \in DOMAIN moves'[e]} = visited' \cap PhisOf(graph, target)
    <3>1. {moves'[e][i].dst : i \in DOMAIN moves'[e]}
            = {moves[e][i].dst : i \in DOMAIN moves[e]} \cup {p}
      BY <2>2, <2>3
    <3> QED  BY <1>1, <1>3, <2>2, <3>1 DEF MovedOnceOn
  <2> QED  BY <1>1, <1>2, <2>3, <2>5, <2>6 DEF MovedOnceOn
<1>5. CASE target # graph.block[p]
  <2>1. moves'[e] = moves[e]
    BY <1>3, <1>5 DEF MovesOn
  <2>2. p \notin PhisOf(graph, target)
    BY <1>5 DEF PhisOf
  <2> QED  BY <1>1, <1>2, <1>3, <2>1, <2>2 DEF MovedOnceOn
<1> QED  BY <1>4, <1>5

\* Visiting anything but a phi moves nothing.
LEMMA OthersMoveNothing ==
  ASSUME MovesKnown, graph' = graph, moves' = moves,
         visited' \cap Phis(graph) = visited \cap Phis(graph)
  PROVE  MovedOnce'
<1>1. SUFFICES ASSUME NEW e \in Edges(graph)
               PROVE  MovedOnceOn(e)'
  BY DEF MovedOnce, Edges
<1>2. MovesOf(e)' = MovesOf(e)
      /\ PhisOf(graph, graph.succ[e])' = PhisOf(graph, graph.succ[e])
  BY MovesOfFixed DEF PhisOf, Phis, OfKind, Nodes
<1>3. MovedOnceOn(e)
  BY DEF MovesKnown, MovedOnce
<1>4. (visited \cap PhisOf(graph, graph.succ[e]))' = visited \cap PhisOf(graph, graph.succ[e])
  BY <1>2 DEF PhisOf
<1> QED  BY <1>2, <1>3, <1>4 DEF MovedOnceOn

LEMMA MovesKnownInductive ==
  /\ Init => MovesKnown
  /\ MovesKnown /\ [Next]_vars => MovesKnown'
<1>1. ASSUME Init PROVE MovesKnown
  <2>1. visited = {} /\ moves = [e \in Edges(graph) |-> <<>>] /\ graph \in Graphs
    BY <1>1 DEF Init
  <2>2. \A e \in Edges(graph) : MovedOnceOn(e)
    BY <2>1 DEF MovedOnceOn
  <2> QED  BY <2>1, <2>2 DEF MovesKnown, MovedOnce
<1>2. ASSUME MovesKnown, [Next]_vars
      PROVE  MovesKnown'
  <2>1. CASE \E n \in Nodes(graph) : VisitDataPhi(n) \/ VisitFlagsPhi(n)
    <3>1. PICK n \in Nodes(graph) : VisitDataPhi(n) \/ VisitFlagsPhi(n)
      BY <2>1
    <3>2. PICK new : Visit(n, new) /\ moves' = MovesOn(n) /\ n \in Phis(graph)
      BY <3>1 DEF VisitDataPhi, VisitFlagsPhi, Phis, OfKind
    <3>3. graph' = graph /\ phase' = "second"
      BY <3>2 DEF Visit
    <3>4. MovedOnce'
      BY <1>2, <3>2, <3>3, PhiMovedOnce DEF MovedOnce, Edges
    <3> QED  BY <1>2, <3>2, <3>3, <3>4 DEF MovesKnown, MovesOn, Edges
  <2>2. CASE \E n \in Nodes(graph) : VisitOperation(n) \/ VisitConversion(n)
                                      \/ VisitCompare(n) \/ VisitOther(n)
    <3>1. PICK n \in Nodes(graph) : VisitOperation(n) \/ VisitConversion(n)
                                      \/ VisitCompare(n) \/ VisitOther(n)
      BY <2>2
    <3>2. n \notin Phis(graph) /\ moves' = moves /\ \E new : Visit(n, new)
      BY <3>1 DEF VisitOperation, VisitConversion, VisitCompare, VisitOther, Phis, OfKind
    <3>3. graph' = graph /\ phase' = "second" /\ visited' = visited \cup {n}
      BY <3>2 DEF Visit
    <3>4. MovedOnce'
      BY <1>2, <3>2, <3>3, OthersMoveNothing
    <3> QED  BY <1>2, <3>2, <3>3, <3>4 DEF MovesKnown, Edges
  <2>3. CASE \E b \in Blocks(graph) : VisitExit(b)
    <3>1. PICK b \in Blocks(graph) : VisitExit(b)
      BY <2>3
    <3>2. graph' = graph /\ phase' = "second" /\ visited' = visited \cup {b} /\ moves' = moves
      BY <3>1 DEF VisitExit
    <3>3. b \notin Phis(graph)
      BY <1>2, <3>1, KnownGraph DEF MovesKnown, WellFormed, Phis, OfKind
    <3>4. MovedOnce'
      BY <1>2, <3>2, <3>3, OthersMoveNothing
    <3> QED  BY <1>2, <3>2, <3>4 DEF MovesKnown, Edges
  <2>4. CASE graph' = graph /\ visited' = visited /\ moves' = moves
             /\ (phase' = "first" => phase = "first")
    <3>1. MovedOnce'
      BY <1>2, <2>4, OthersMoveNothing
    <3> QED  BY <1>2, <2>4, <3>1 DEF MovesKnown, Edges
  <2>5. CASE FirstPass
    BY <2>4, <2>5 DEF FirstPass
  <2>6. CASE Get
    BY <2>4, <2>6 DEF Get, walking
  <2>7. CASE Execute \/ MovePhi \/ Enter \/ Return \/ (\E taken \in BOOLEAN : Leave(taken))
    BY <2>4, <2>7, ListingFixed DEF walking
  <2>8. CASE UNCHANGED vars
    BY <2>4, <2>8 DEF vars, walking
  <2> QED  BY <1>2, <2>1, <2>2, <2>3, <2>5, <2>6, <2>7, <2>8 DEF Next, SecondPass
<1> QED  BY <1>1, <1>2

\* No move is duplicated, lost or put on another block's edge.
THEOREM EveryPhiMovedOnce == Spec => []MovedOnce
<1>1. MovesKnown => MovedOnce
  BY DEF MovesKnown
<1> QED  BY <1>1, MovesKnownInductive, PTL DEF Spec
-----------------------------------------------------------------------------
(* Where no phi is moved into another one of its block, the moves on an    *)
(* edge are made as if at the same time.                                   *)

\* The moves made so far have arrived, the others have not been overtaken.
Underway ==
  /\ way \in Edges(graph)
  /\ DOMAIN pending = PhisOf(graph, graph.succ[way])
  /\ \A i \in DOMAIN moves[way] :
       LET move == moves[way][i]
       IN  IF i < pos THEN regs[move.dst] = pending[move.dst]
                      ELSE Result(move.in) = pending[move.dst]

InParallel ==
  /\ MovesKnown
  /\ phase \in {"first", "second", "body", "edge", "returned"}
  /\ phase \in {"body", "edge", "returned"} => Nodes(graph) \subseteq visited
  /\ DOMAIN regs = Nodes(graph)
  /\ phase = "edge" => Underway

\* A move reads what MoveReads names.
LEMMA ResultDepends ==
  ASSUME graph \in Graphs, graph' = graph, NEW p \in Phis(graph), NEW e \in DOMAIN graph.from[p],
         \A r \in MoveReads(graph, p, e) : regs'[r] = regs[r]
  PROVE  Result(MoveOperands(p, e))' = Result(MoveOperands(p, e))
<1> DEFINE m == graph.from[p][e]
<1>1. WellFormed(graph)
  BY KnownGraph
<1>2. CASE graph.kind[m] = "cmp"
  <2>1. m \in Nodes(graph)
    BY <1>1 DEF WellFormed, Uses, Phis, OfKind
  <2>2. DOMAIN graph.in[m] = {1, 2}
    BY <1>1, <1>2, <2>1 DEF WellFormed, OfKind
  <2>3. regs'[graph.in[m][1]] = regs[graph.in[m][1]] /\ regs'[graph.in[m][2]] = regs[graph.in[m][2]]
    BY <1>2, <2>2 DEF MoveReads, Operands
  <2> DEFINE in == MoveOperands(p, e)
  <2>4. in' = in
    BY DEF MoveOperands, CompareOperands, AsRegister, AsOperand
  <2>5. Len(in) = 2 /\ in[1] = <<"reg", graph.in[m][1]>> /\ in[2] = AsOperand(graph.in[m][2])
    BY <1>2 DEF MoveOperands, CompareOperands, AsRegister
  <2>6. in[2] = <<"imm", graph.in[m][2]>> \/ in[2] = <<"reg", graph.in[m][2]>>
    BY <2>5 DEF AsOperand
  <2>7. PICK l, r, x, y : /\ l = graph.in[m][1] /\ r = graph.in[m][2]
                          /\ x = in[1] /\ y = in[2]
    OBVIOUS
  <2>8. regs'[x[2]] = regs[x[2]] /\ regs'[y[2]] = regs[y[2]]
    <3>1. x = <<"reg", l>> /\ (y = <<"imm", r>> \/ y = <<"reg", r>>)
      BY <2>5, <2>6, <2>7
    <3>2. x[2] = l /\ y[2] = r
      BY <3>1
    <3>3. regs'[l] = regs[l] /\ regs'[r] = regs[r]
      BY <2>3, <2>7
    <3> QED  BY <3>2, <3>3
  <2>9. Read(x)' = Read(x) /\ Read(y)' = Read(y)
    BY <2>8 DEF Read
  <2>10. in = <<x, y>> /\ in' = <<x, y>>
    BY <1>2, <2>4, <2>7 DEF MoveOperands, CompareOperands
  <2> HIDE DEF in
  <2>11. Result(in) = <<Read(x), Read(y)>>
    BY <2>10 DEF Result
  <2>12. Result(in)' = <<Read(x)', Read(y)'>>
    BY <2>10 DEF Result, Read
  <2> QED  BY <2>9, <2>11, <2>12 DEF in
<1>3. CASE graph.kind[m] # "cmp"
  <2>1. MoveOperands(p, e) = <<AsOperand(m)>> /\ MoveReads(graph, p, e) = {m}
    BY <1>3 DEF MoveOperands, MoveReads
  <2> QED  BY <1>3, <2>1 DEF MoveOperands, AsOperand, Result, Read
<1> QED  BY <1>2, <1>3

LEMMA MoveReadsNodes ==
  ASSUME graph \in Graphs, NEW p \in Phis(graph), NEW e \in DOMAIN graph.from[p]
  PROVE  MoveReads(graph, p, e) \subseteq Nodes(graph)
<1>1. WellFormed(graph)
  BY KnownGraph
<1>2. \A n \in Nodes(graph) : Uses(graph, n) \subseteq Nodes(graph)
  BY <1>1 DEF WellFormed
<1>3. graph.from[p][e] \in Nodes(graph)
  BY <1>2 DEF Uses, Phis, OfKind
<1>4. graph.kind[graph.from[p][e]] = "cmp"
        => Operands(graph, graph.from[p][e]) = Uses(graph, graph.from[p][e])
  BY <1>3 DEF Uses, Phis, OfKind
<1> QED  BY <1>2, <1>3, <1>4 DEF MoveReads

\* Before any move, a move's operands have the values the phi is to get.
LEMMA MoveTakesIncoming ==
  ASSUME graph \in Graphs, Uncrossed(graph), NEW p \in Phis(graph), NEW e \in DOMAIN graph.from[p]
  PROVE  Result(MoveOperands(p, e)) = Incoming(p, e)
<1> DEFINE m == graph.from[p][e]
<1>1. CASE graph.kind[m] = "cmp"
  <2>1. graph.kind[graph.in[m][1]] # "const"
    BY <1>1 DEF Uncrossed
  <2>2. AsRegister(graph.in[m][1]) = AsOperand(graph.in[m][1])
    BY <2>1 DEF AsRegister, AsOperand
  <2>3. MoveOperands(p, e) = <<AsOperand(graph.in[m][1]), AsOperand(graph.in[m][2])>>
    BY <1>1, <2>2 DEF MoveOperands, CompareOperands
  <2> QED  BY <1>1, <2>3 DEF Result, Incoming
<1>2. CASE graph.kind[m] # "cmp"
  BY <1>2 DEF MoveOperands, Result, Incoming
<1> QED  BY <1>1, <1>2

\* A move in the list of an edge is the move of a phi of the block it leads to.
LEMMA MoveOfPhi ==
  ASSUME MovesKnown, NEW e \in Edges(graph), NEW i \in DOMAIN moves[e]
  PROVE  /\ moves[e][i].dst \in PhisOf(graph, graph.succ[e])
         /\ moves[e][i].dst \in Phis(graph)
         /\ e \in DOMAIN graph.from[moves[e][i].dst]
         /\ moves[e][i].in = MoveOperands(moves[e][i].dst, e)
         /\ DOMAIN moves[e] = 1..Len(moves[e]) /\ Len(moves[e]) \in Nat
<1>1. moves[e] \in Seq(MovesOf(e))
  BY DEF MovesKnown, MovedOnce, MovedOnceOn
<1>2. moves[e][i] \in MovesOf(e)
  BY <1>1
<1>3. PICK p \in PhisOf(graph, graph.succ[e]) : moves[e][i] = Instruction(p, MoveOperands(p, e))
  BY <1>2 DEF MovesOf
<1>4. e \in DOMAIN graph.from[p] /\ p \in Phis(graph)
  BY <1>3, KnownGraph DEF MovesKnown, WellFormed, PhisOf, Into
<1> QED  BY <1>1, <1>3, <1>4 DEF Instruction

LEMMA LeaveStartsMoves ==
  ASSUME InParallel, \A g \in Graphs : Uncrossed(g), NEW taken \in BOOLEAN, Leave(taken)
  PROVE  InParallel'
<1> DEFINE e == <<at, taken>>
<1>1. /\ graph' = graph /\ moves' = moves /\ visited' = visited /\ regs' = regs
      /\ phase = "body" /\ phase' = "edge"
      /\ e \in Edges(graph) /\ way' = e /\ pos' = 1
      /\ pending' = [p \in PhisOf(graph, graph.succ[e]) |-> Incoming(p, e)]
  BY DEF Leave, walking
<1>2. MovesKnown'
  BY <1>1, MovesKnownInductive DEF InParallel, Next, vars
<1>3. ASSUME NEW i \in DOMAIN moves[e]
      PROVE  ~(i < 1) /\ Result(moves[e][i].in) = pending'[moves[e][i].dst]
  <2>1. /\ moves[e][i].dst \in PhisOf(graph, graph.succ[e])
        /\ Result(moves[e][i].in) = Incoming(moves[e][i].dst, e)
    BY <1>1, MoveOfPhi, MoveTakesIncoming DEF InParallel, MovesKnown
  <2> QED  BY <1>1, <2>1, MoveOfPhi DEF InParallel
<1>4. \A in : Result(in)' = Result(in)
  BY <1>1 DEF Result, Read
<1>5. Underway'
  BY <1>1, <1>3, <1>4 DEF Underway, Edges, PhisOf, Phis, OfKind, Nodes
<1> QED  BY <1>1, <1>2, <1>5 DEF InParallel, Nodes

LEMMA MoveKeepsOthers ==
  ASSUME InParallel, \A g \in Graphs : Uncrossed(g), MovePhi
  PROVE  InParallel'
<1> DEFINE list == moves[way]
           dst == list[pos].dst
<1>1. /\ graph' = graph /\ moves' = moves /\ visited' = visited
      /\ phase = "edge" /\ phase' = "edge" /\ way' = way /\ pending' = pending
      /\ pos \in DOMAIN list /\ pos' = pos + 1
      /\ regs' = [regs EXCEPT ![dst] = Result(list[pos].in)]
  BY DEF MovePhi, walking
<1>2. MovesKnown'
  BY <1>1, MovesKnownInductive DEF InParallel, Next, vars
<1>3. Underway /\ MovesKnown /\ way \in Edges(graph)
  BY <1>1 DEF InParallel, Underway
<1>4. DOMAIN list = 1..Len(list) /\ Len(list) \in Nat /\ dst \in Nodes(graph)
  BY <1>1, <1>3, MoveOfPhi DEF Phis, OfKind
<1>5. regs'[dst] = pending[dst] /\ \A r \in Nodes(graph) \ {dst} : regs'[r] = regs[r]
  BY <1>1, <1>3, <1>4 DEF Underway, InParallel
<1>6. ASSUME NEW i \in DOMAIN list
      PROVE  IF i < pos + 1 THEN regs'[list[i].dst] = pending[list[i].dst]
                            ELSE \E in : in = list[i].in /\ Result(in)' = pending[list[i].dst]
  <2> PICK p, w, in : p = list[i].dst /\ w = way /\ in = list[i].in
    OBVIOUS
  <2>1. /\ p \in PhisOf(graph, graph.succ[w]) /\ p \in Phis(graph) /\ p \in Nodes(graph)
        /\ w \in DOMAIN graph.from[p]
        /\ in = MoveOperands(p, w)
    BY <1>3, <1>6, MoveOfPhi DEF Phis, OfKind
  <2>2. i # pos => p # dst
    BY <1>1, <1>3, <1>6 DEF MovesKnown, MovedOnce, MovedOnceOn
  <2>3. CASE i = pos
    BY <1>4, <1>5, <2>3
  <2>4. CASE i < pos
    BY <1>1, <1>3, <1>4, <1>5, <1>6, <2>1, <2>2, <2>4 DEF Underway
  <2>5. CASE i > pos
    <3>1. dst \in PhisOf(graph, graph.succ[w])
      BY <1>1, <1>3, MoveOfPhi
    <3>2. MoveReads(graph, p, w) \cap PhisOf(graph, graph.block[p]) \subseteq {p}
      BY <1>3, <2>1 DEF Uncrossed, MovesKnown
    <3>3. dst \notin MoveReads(graph, p, w)
      BY <1>1, <1>4, <1>6, <2>1, <2>2, <2>5, <3>1, <3>2 DEF PhisOf
    <3>4. MoveReads(graph, p, w) \subseteq Nodes(graph)
      BY <1>3, <2>1, MoveReadsNodes DEF MovesKnown
    <3>5. \A r \in MoveReads(graph, p, w) : regs'[r] = regs[r]
      BY <1>5, <3>3, <3>4
    <3>6. Result(MoveOperands(p, w))' = Result(MoveOperands(p, w))
      BY <1>1, <1>3, <2>1, <3>5, ResultDepends DEF MovesKnown
    <3>7. MoveOperands(p, w)' = MoveOperands(p, w)
      BY <1>1 DEF MoveOperands, CompareOperands, AsRegister, AsOperand
    <3>8. Result(in)' = Result(in)
      BY <2>1, <3>6, <3>7 DEF Result, Read
    <3> QED  BY <1>1, <1>3, <1>4, <1>6, <2>5, <3>8 DEF Underway
  <2> QED  BY <1>1, <1>4, <1>6, <2>3, <2>4, <2>5
<1>7. way' \in Edges(graph)' /\ DOMAIN pending' = PhisOf(graph, graph.succ[way])'
  BY <1>1, <1>3 DEF Underway, Edges, PhisOf, Phis, OfKind, Nodes
<1>8. ASSUME NEW i \in DOMAIN list, ~(i < pos + 1)
      PROVE  Result(list[i].in)' = pending[list[i].dst]
  <2>1. PICK in : in = list[i].in /\ Result(in)' = pending[list[i].dst]
    BY <1>6, <1>8
  <2>2. list[i].in' = in
    BY <1>1, <2>1
  <2> QED  BY <2>1, <2>2 DEF Result, Read
<1>9. Underway'
  BY <1>1, <1>6, <1>7, <1>8 DEF Underway
<1> QED  BY <1>1, <1>2, <1>9 DEF InParallel, Nodes

LEMMA InParallelInductive ==
  ASSUME \A g \in Graphs : Uncrossed(g)
  PROVE  /\ Init => InParallel
         /\ InParallel /\ [Next]_vars => InParallel'
<1>1. Init => InParallel
  BY MovesKnownInductive DEF Init, InParallel
<1>2. ASSUME InParallel, [Next]_vars
      PROVE  InParallel'
  <2>1. MovesKnown'
    BY <1>2, MovesKnownInductive DEF InParallel
  <2>2. CASE FirstPass \/ SecondPass
    <3>1. graph' = graph /\ regs' = regs /\ phase' = "second"
      BY <2>2, WalkFixed DEF running
    <3> QED  BY <1>2, <2>1, <3>1 DEF InParallel, Nodes
  <2>8. CASE Get
    BY <1>2, <2>1, <2>8 DEF Get, InParallel, Nodes, running, walking
  <2>3. CASE Execute
    <3>1. graph' = graph /\ visited' = visited /\ phase' = "body" /\ phase = "body"
          /\ DOMAIN regs' = DOMAIN regs
      BY <2>3 DEF Execute, walking
    <3> QED  BY <1>2, <2>1, <3>1 DEF InParallel, Nodes
  <2>4. CASE \E taken \in BOOLEAN : Leave(taken)
    BY <1>2, <2>4, LeaveStartsMoves
  <2>5. CASE MovePhi
    BY <1>2, <2>5, MoveKeepsOthers
  <2>6. CASE Enter \/ Return
    <3>1. graph' = graph /\ visited' = visited /\ regs' = regs
          /\ phase \in {"body", "edge"} /\ phase' \in {"body", "returned"}
      BY <2>6 DEF Enter, Return, walking
    <3> QED  BY <1>2, <2>1, <3>1 DEF InParallel, Nodes
  <2>7. CASE UNCHANGED vars
    <3>1. UNCHANGED <<graph, phase, visited, moves, way, pos, regs, pending>>
      BY <2>7 DEF vars, walking, running
    <3>2. phase = "edge" => Underway'
      BY <1>2, <3>1 DEF InParallel, Underway, Result, Read, Edges, PhisOf, Phis, OfKind, Nodes
    <3> QED  BY <1>2, <2>1, <3>1, <3>2 DEF InParallel, Nodes
  <2> QED  BY <1>2, <2>2, <2>3, <2>4, <2>5, <2>6, <2>7, <2>8 DEF Next
<1> QED  BY <1>1, <1>2

\* When all moves of an edge are made, each phi has what it was to get.
LEMMA UnderwayDone ==
  ASSUME InParallel
  PROVE  EdgeMovesParallel
<1> SUFFICES ASSUME phase = "edge", pos = Len(moves[way]) + 1, NEW p \in DOMAIN pending
             PROVE  regs[p] = pending[p]
  BY DEF EdgeMovesParallel
<1>1. Underway /\ MovesKnown /\ way \in Edges(graph) /\ MovedOnceOn(way)
  BY DEF InParallel, Underway, MovesKnown, MovedOnce
<1>2. p \in visited \cap PhisOf(graph, graph.succ[way])
  BY <1>1 DEF Underway, InParallel, PhisOf, Phis, OfKind
<1>3. PICK i \in DOMAIN moves[way] : moves[way][i].dst = p
  BY <1>1, <1>2 DEF MovedOnceOn
<1>4. i < pos
  BY <1>1, <1>3, MoveOfPhi
<1> QED  BY <1>1, <1>3, <1>4 DEF Underway

\* Where no phi feeds another one of its block (and no comparison kept in a
\* phi has a constant on its left), the moves _visit_data_phi and
\* _visit_flags_phi append to an edge are a parallel assignment, whatever the
\* order the walk appended them in.
THEOREM MovesAreParallel ==
  ASSUME \A g \in Graphs : Uncrossed(g)
  PROVE  Spec => []EdgeMovesParallel
BY InParallelInductive, UnderwayDone, PTL DEF Spec

-----------------------------------------------------------------------------
(* The listing does what the graph means: each step of it is a step of    *)
(* StaticSingleAssignment or leaves its values alone.                      *)

Plain(g) == Uncrossed(g) /\ LoadsOnce(g)

-----------------------------------------------------------------------------
(* The instructions of a block, in an order in which they can be run. *)

Consts == OfKind(graph, {"const"})
Emittable == OfKind(graph, {"const", "op", "conv"})

\* What is emitted in a block for a constant or a node that is computed.
InstructionOf(n) ==
  Instruction(n,
    IF graph.kind[n] = "const" THEN <<<<"imm", n>>>>
    ELSE IF graph.kind[n] = "conv" THEN <<AsRegister(graph.in[n][1])>>
    ELSE [i \in DOMAIN graph.in[n] |-> AsOperand(graph.in[n][i])])

\* What has to stand in the list of block b before n: the operands computed
\* in the same block, and the constant a conversion needs in a register.
Prior(n, b) ==
  {m \in Operands(graph, n) : \/ m \in Computed(graph) /\ graph.block[m] = b
                              \/ m \in Consts /\ graph.kind[n] = "conv"}

Dsts(list) == {list[i].dst : i \in DOMAIN list}

Ordered(list, b) ==
  /\ list \in Seq({InstructionOf(n) : n \in Emittable})
  /\ \A i, j \in DOMAIN list : list[i].dst = list[j].dst => i = j
  /\ \A i \in DOMAIN list : graph.kind[list[i].dst] # "const" =>
       Prior(list[i].dst, b) \subseteq {list[j].dst : j \in 1..(i - 1)}

Left(b) == graph.in[graph.exit[b][2]][1]

\* The list of block b has what was visited of b and the constants that
\* loads were appended for.
Listed(b) ==
  /\ Ordered(body[b], b)
  /\ Dsts(body[b]) \cap Computed(graph) = {n \in visited \cap Computed(graph) : graph.block[n] = b}
  /\ \A k \in Dsts(body[b]) \cap Consts : k \in registers /\ b \in LoadedAt(graph, k)

\* The exit of b reads what it is to read, from registers that were loaded.
ExitListed(b) ==
  b \in visited =>
    /\ Compares(b) => /\ jump[b] = CompareOperands(graph.exit[b][2])
                      /\ Left(b) \in Consts => Left(b) \in Dsts(body[b])
    /\ Selects(b) /\ ~Compares(b) => jump[b] = <<AsOperand(graph.exit[b][2])>>
    /\ ~Selects(b) => jump[b] = <<>>

ListingKnown ==
  /\ RegistersKnown
  /\ DOMAIN body = Blocks(graph) /\ DOMAIN jump = Blocks(graph)
  /\ phase = "first" => registers = {}
  /\ \A b \in Blocks(graph) : Listed(b) /\ ExitListed(b)
  /\ \A k \in Consts \cap registers : \E b \in Blocks(graph) : k \in Dsts(body[b])

\* SetToSeq lists the elements of a finite set.
LEMMA ListOfFinite ==
  ASSUME NEW S, IsFiniteSet(S)
  PROVE  /\ SetToSeq(S) \in [1..Cardinality(S) -> S]
         /\ Cardinality(S) \in Nat
         /\ SetToSeq(S) \in Seq(S)
<1>1. Cardinality(S) \in Nat /\ ExistsBijection(1..Cardinality(S), S)
  BY FS_CardinalityType
<1>2. \E f \in [1..Cardinality(S) -> S] : IsInjective(f)
  BY <1>1 DEF ExistsBijection, Bijection, Injection
<1>3. SetToSeq(S) \in [1..Cardinality(S) -> S]
  BY <1>2 DEF SetToSeq
<1> QED  BY <1>1, <1>3

\* Listing no node or one.
LEMMA ListOfOne ==
  /\ SetToSeq({}) = <<>>
  /\ \A x : SetToSeq({x}) = <<x>>
<1>1. SetToSeq({}) \in [1..0 -> {}]
  BY ListOfFinite, FS_EmptySet
<1>3. SetToSeq({}) = <<>>
  <2> PICK s : s = SetToSeq({})
    OBVIOUS
  <2>1. s \in Seq({}) /\ Len(s) = 0
    BY <1>1
  <2> QED  BY <2>1
<1>2. ASSUME NEW x PROVE SetToSeq({x}) = <<x>>
  <2>1. SetToSeq({x}) \in [1..1 -> {x}]
    BY ListOfFinite, FS_Singleton
  <2> PICK s : s = SetToSeq({x})
    OBVIOUS
  <2> QED  BY <2>1
<1> QED  BY <1>2, <1>3

\* A constant is loaded unless it is in a register already.
LEMMA LoadsOfOne ==
  ASSUME NEW k
  PROVE  /\ Loads({}) = <<>>
         /\ graph.kind[k] = "const" /\ k \notin registers => Loads({k}) = <<InstructionOf(k)>>
         /\ graph.kind[k] # "const" \/ k \in registers => Loads({k}) = <<>>
<1>1. Unloaded({}) = {} /\ Unloaded({k}) = IF graph.kind[k] = "const" /\ k \notin registers
                                            THEN {k} ELSE {}
  BY DEF Unloaded
<1>2. ASSUME NEW ns PROVE Loads(ns) = SetToSeq({Instruction(n, <<<<"imm", n>>>>) : n \in Unloaded(ns)})
  BY DEF Loads
<1>3. {Instruction(n, <<<<"imm", n>>>>) : n \in {}} = {}
  OBVIOUS
<1>4. {Instruction(n, <<<<"imm", n>>>>) : n \in {k}} = {Instruction(k, <<<<"imm", k>>>>)}
  OBVIOUS
<1>5. graph.kind[k] = "const" => InstructionOf(k) = Instruction(k, <<<<"imm", k>>>>)
  BY DEF InstructionOf
<1> QED  BY <1>1, <1>2, <1>3, <1>4, <1>5, ListOfOne

\* The definitions of this module read only the graph.
LEMMA GraphFixed ==
  ASSUME graph' = graph
  PROVE  /\ Consts' = Consts /\ Emittable' = Emittable
         /\ \A n : InstructionOf(n)' = InstructionOf(n)
         /\ \A n, b : Prior(n, b)' = Prior(n, b)
         /\ \A list, b : Ordered(list, b)' <=> Ordered(list, b)
<1>1. Consts' = Consts /\ Emittable' = Emittable
  BY DEF Consts, Emittable, OfKind, Nodes
<1>2. \A n : InstructionOf(n)' = InstructionOf(n)
  BY DEF InstructionOf, Instruction, AsRegister, AsOperand
<1>3. \A n, b : Prior(n, b)' = Prior(n, b)
  BY <1>1 DEF Prior, Operands, Computed, OfKind, Nodes
<1>4. ASSUME NEW list, NEW b PROVE Ordered(list, b)' <=> Ordered(list, b)
  BY <1>1, <1>2, <1>3 DEF Ordered
<1> QED  BY <1>1, <1>2, <1>3, <1>4

\* An instruction more in a list is a register more that the list writes.
LEMMA OneMore ==
  ASSUME NEW S, NEW list \in Seq(S), NEW x \in S
  PROVE  Dsts(Append(list, x)) = Dsts(list) \cup {x.dst}
BY Appended DEF Dsts

\* An instruction may be appended once what it needs is in the list.
LEMMA OrderedAppend ==
  ASSUME NEW list, NEW b, Ordered(list, b), NEW n \in Emittable, n \notin Dsts(list),
         graph.kind[n] # "const" => Prior(n, b) \subseteq Dsts(list)
  PROVE  /\ Ordered(Append(list, InstructionOf(n)), b)
         /\ Dsts(Append(list, InstructionOf(n))) = Dsts(list) \cup {n}
<1> DEFINE S == {InstructionOf(m) : m \in Emittable}
           new == Append(list, InstructionOf(n))
           last == Len(list) + 1
<1>1. /\ list \in Seq(S) /\ InstructionOf(n) \in S /\ InstructionOf(n).dst = n
      /\ DOMAIN list = 1..Len(list) /\ Len(list) \in Nat
  BY DEF Ordered, InstructionOf, Instruction
<1>2. /\ new \in Seq(S)
      /\ DOMAIN new = 1..last
      /\ \A i \in DOMAIN list : new[i] = list[i]
      /\ new[last] = InstructionOf(n)
  BY <1>1, Appended
<1>3. Dsts(new) = Dsts(list) \cup {n}
  BY <1>1, OneMore
<1> HIDE DEF new, S
<1>4. \A i \in DOMAIN new : i \in DOMAIN list \/ i = last
  BY <1>1, <1>2
<1>5. \A i, j \in DOMAIN new : new[i].dst = new[j].dst => i = j
  <2>1. \A i \in DOMAIN list : list[i].dst # n
    BY DEF Dsts
  <2>2. \A i, j \in DOMAIN list : list[i].dst = list[j].dst => i = j
    BY DEF Ordered
  <2> QED  BY <1>1, <1>2, <1>4, <2>1, <2>2
<1>6. ASSUME NEW i \in DOMAIN new, graph.kind[new[i].dst] # "const"
      PROVE  Prior(new[i].dst, b) \subseteq {new[j].dst : j \in 1..(i - 1)}
  <2>1. \A j \in 1..(i - 1) : j \in DOMAIN list
    BY <1>1, <1>2
  <2>2. {new[j].dst : j \in 1..(i - 1)} = {list[j].dst : j \in 1..(i - 1)}
    BY <1>2, <2>1
  <2>3. CASE i \in DOMAIN list
    BY <1>2, <1>6, <2>2, <2>3 DEF Ordered
  <2>4. CASE i = last
    <3>1. 1..(i - 1) = DOMAIN list
      BY <1>1, <2>4
    <3> QED  BY <1>1, <1>2, <1>6, <2>2, <2>4, <3>1 DEF Dsts
  <2> QED  BY <1>4, <2>3, <2>4
<1> QED  BY <1>2, <1>3, <1>5, <1>6 DEF Ordered, new, S

\* At most one instruction after a list.
LEMMA Concatenated ==
  ASSUME NEW S, NEW s \in Seq(S)
  PROVE  s \o <<>> = s /\ \A x \in S : s \o <<x>> = Append(s, x)
  OBVIOUS

\* Loading a constant for the list that is to have it.
LEMMA Loaded ==
  ASSUME NEW k \in Nodes(graph), NEW list, NEW b, Ordered(list, b),
         k \in Consts => (k \in registers <=> k \in Dsts(list))
  PROVE  /\ Ordered(list \o Loads({k}), b)
         /\ Dsts(list \o Loads({k})) = Dsts(list) \cup ({k} \cap Consts)
<1>1. list \in Seq({InstructionOf(n) : n \in Emittable})
  BY DEF Ordered
<1>2. CASE k \in Consts /\ k \notin registers
  <2>1. Loads({k}) = <<InstructionOf(k)>> /\ k \in Emittable /\ graph.kind[k] = "const"
    BY <1>2, LoadsOfOne DEF Consts, Emittable, OfKind
  <2>2. InstructionOf(k) \in {InstructionOf(n) : n \in Emittable}
    BY <2>1
  <2>3. list \o Loads({k}) = Append(list, InstructionOf(k))
    BY <1>1, <2>1, <2>2, Concatenated
  <2>4. k \notin Dsts(list) /\ {k} \cap Consts = {k}
    BY <1>2
  <2>5. /\ Ordered(Append(list, InstructionOf(k)), b)
        /\ Dsts(Append(list, InstructionOf(k))) = Dsts(list) \cup {k}
    BY <2>1, <2>4, OrderedAppend
  <2> QED  BY <2>3, <2>4, <2>5
<1>3. CASE ~(k \in Consts /\ k \notin registers)
  <2>1. graph.kind[k] # "const" \/ k \in registers
    BY <1>3 DEF Consts, OfKind
  <2>2. Loads({k}) = <<>>
    BY <2>1, LoadsOfOne
  <2>3. list \o Loads({k}) = list
    BY <1>1, <2>2, Concatenated
  <2> QED  BY <1>3, <2>3
<1> QED  BY <1>2, <1>3

\* Where one block needs a constant in a register, it has one exactly if it
\* is loaded there.
LEMMA LoadedHere ==
  ASSUME ListingKnown, LoadsOnce(graph), NEW k \in Consts, NEW b \in Blocks(graph),
         b \in LoadedAt(graph, k)
  PROVE  k \in registers <=> k \in Dsts(body[b])
<1>1. k \in Dsts(body[b]) => k \in registers
  BY DEF ListingKnown, Listed
<1>2. ASSUME k \in registers PROVE k \in Dsts(body[b])
  <2>1. PICK c \in Blocks(graph) : k \in Dsts(body[c])
    BY <1>2 DEF ListingKnown
  <2>2. c \in LoadedAt(graph, k)
    BY <2>1 DEF ListingKnown, Listed
  <2> QED  BY <2>1, <2>2 DEF LoadsOnce, Consts
<1> QED  BY <1>1, <1>2

\* A step that appends to the list of block b loads of some constants and
\* some computed nodes of b.
GrowsBy(b, list, loaded, computed) ==
  /\ graph' = graph /\ phase' = "second"
  /\ Ordered(list, b)
  /\ loaded \subseteq Consts /\ \A k \in loaded : b \in LoadedAt(graph, k)
  /\ computed \subseteq Computed(graph) /\ \A n \in computed : graph.block[n] = b
  /\ Dsts(list) = Dsts(body[b]) \cup loaded \cup computed
  /\ DOMAIN body' = DOMAIN body /\ body'[b] = list
  /\ \A c \in Blocks(graph) \ {b} : body'[c] = body[c]
  /\ visited' \cap Computed(graph) = (visited \cap Computed(graph)) \cup computed
  /\ registers' \cap Consts = (registers \cap Consts) \cup loaded

\* What is known of the listing survives instructions added to one block.
LEMMA ListingGrows ==
  ASSUME ListingKnown, RegistersKnown', NEW b \in Blocks(graph),
         NEW list, NEW loaded, NEW computed, GrowsBy(b, list, loaded, computed),
         DOMAIN jump' = Blocks(graph),
         \A c \in Blocks(graph) : ExitListed(c)'
  PROVE  ListingKnown'
<1> USE DEF GrowsBy
<1>1. /\ Blocks(graph)' = Blocks(graph) /\ Computed(graph)' = Computed(graph) /\ Consts' = Consts
      /\ \A k : LoadedAt(graph, k)' = LoadedAt(graph, k)
      /\ \A l, c : Ordered(l, c)' <=> Ordered(l, c)
  BY GraphFixed DEF Blocks, Computed, OfKind, Nodes, LoadedAt
<1>2. Consts \cap Computed(graph) = {}
  BY DEF Consts, Computed, OfKind
<1>3. \A c \in Blocks(graph) : Dsts(body[c]) \subseteq Dsts(body'[c])
  <2> TAKE c \in Blocks(graph)
  <2> QED  BY Zenon
<1>4. ASSUME NEW c \in Blocks(graph)
      PROVE  Listed(c)'
  <2>1. Listed(c)
    BY DEF ListingKnown
  <2>2. PICK l : l = body'[c]
    OBVIOUS
  <2>3. Ordered(l, c)
    BY <2>1, <2>2 DEF Listed
  <2>4. Dsts(l) \cap Computed(graph) = {n \in visited' \cap Computed(graph) : graph.block[n] = c}
    <3>1. CASE c = b
      BY <1>2, <2>1, <2>2, <3>1 DEF Listed
    <3>2. CASE c # b
      BY <2>1, <2>2, <3>2 DEF Listed
    <3> QED  BY <3>1, <3>2
  <2>5. \A k \in Dsts(l) \cap Consts : k \in registers' /\ c \in LoadedAt(graph, k)
    <3>1. CASE c = b
      BY <1>2, <2>1, <2>2, <3>1 DEF Listed
    <3>2. CASE c # b
      BY <2>1, <2>2, <3>2 DEF Listed
    <3> QED  BY <3>1, <3>2
  <2> QED  BY <1>1, <2>2, <2>3, <2>4, <2>5 DEF Listed, Dsts
<1>5. \A k \in Consts \cap registers' : \E c \in Blocks(graph) : k \in Dsts(body'[c])
  <2> TAKE k \in Consts \cap registers'
  <2>1. CASE k \in loaded
    BY <2>1
  <2>2. CASE k \in registers
    BY <1>3, <2>2 DEF ListingKnown
  <2> QED  BY <2>1, <2>2
<1>6. \A c : Dsts(body[c])' = Dsts(body'[c])
  BY DEF Dsts
<1> QED  BY <1>1, <1>4, <1>5, <1>6 DEF ListingKnown

\* What an exit does is said of the graph alone.
LEMMA ExitFixed ==
  ASSUME graph' = graph
  PROVE  \A c : /\ Selects(c)' = Selects(c) /\ Compares(c)' = Compares(c) /\ Left(c)' = Left(c)
                /\ CompareOperands(graph.exit[c][2])' = CompareOperands(graph.exit[c][2])
                /\ AsOperand(graph.exit[c][2])' = AsOperand(graph.exit[c][2])
BY DEF Selects, Compares, Left, CompareOperands, AsRegister, AsOperand

\* An exit is undisturbed while its block's list grows.
LEMMA ExitStays ==
  ASSUME ListingKnown, graph' = graph, NEW c \in Blocks(graph),
         jump'[c] = jump[c], c \in visited' <=> c \in visited,
         Dsts(body[c]) \subseteq Dsts(body'[c])
  PROVE  ExitListed(c)'
<1>1. ExitListed(c)
  BY DEF ListingKnown
<1>2. Consts' = Consts /\ Dsts(body[c])' = Dsts(body'[c])
  BY GraphFixed DEF Dsts
<1> QED  BY <1>1, <1>2, ExitFixed DEF ExitListed

\* A visit of a node that appends it to its block, behind loads, or appends
\* nothing.
Appends(n, list, loaded) ==
  /\ Ordered(list, graph.block[n])
  /\ loaded \subseteq Consts /\ \A k \in loaded : graph.block[n] \in LoadedAt(graph, k)
  /\ Dsts(list) = Dsts(body[graph.block[n]]) \cup loaded \cup ({n} \cap Computed(graph))
  /\ DOMAIN body' = DOMAIN body /\ body'[graph.block[n]] = list
  /\ \A c \in Blocks(graph) \ {graph.block[n]} : body'[c] = body[c]
  /\ jump' = jump

\* A visit appends loads of constants and then at most the node itself.
LEMMA NodeVisited ==
  ASSUME ListingKnown, RegistersKnown', NEW n \in Nodes(graph), NEW new, Visit(n, new),
         NEW list, NEW loaded, Appends(n, list, loaded),
         new \cap Consts \subseteq registers \cup loaded, loaded \subseteq new
  PROVE  ListingKnown'
<1> USE DEF Appends
<1> DEFINE b == graph.block[n]
           computed == {n} \cap Computed(graph)
<1>1. /\ graph' = graph /\ phase' = "second"
      /\ visited' = visited \cup {n} /\ registers' = registers \cup new
  BY DEF Visit
<1>2. WellFormed(graph)
  BY KnownGraph DEF ListingKnown, RegistersKnown
<1>3. b \in Blocks(graph) /\ Nodes(graph) \cap Blocks(graph) = {}
  BY <1>2 DEF WellFormed
<1>4. \A c \in Blocks(graph) : Dsts(body[c]) \subseteq Dsts(body'[c])
  <2> TAKE c \in Blocks(graph)
  <2>1. CASE c = b
    BY <2>1
  <2>2. CASE c # b
    BY <2>2
  <2> QED  BY <2>1, <2>2
<1>5. \A c \in Blocks(graph) : ExitListed(c)'
  <2> TAKE c \in Blocks(graph)
  <2>1. c \in visited' <=> c \in visited
    BY <1>1, <1>3
  <2> QED  BY <1>1, <1>4, <2>1, ExitStays
<1>6. DOMAIN jump' = Blocks(graph)
  BY DEF ListingKnown
<1>7. visited' \cap Computed(graph) = (visited \cap Computed(graph)) \cup computed
  BY <1>1
<1>8. registers' \cap Consts = (registers \cap Consts) \cup loaded
  BY <1>1
<1>9. computed \in SUBSET Computed(graph) /\ \A m \in computed : graph.block[m] = b
  OBVIOUS
<1>10. Dsts(list) = Dsts(body[b]) \cup loaded \cup computed
  OBVIOUS
<1> HIDE DEF computed
<1>11. GrowsBy(b, list, loaded, computed)
  BY <1>1, <1>7, <1>8, <1>9, <1>10 DEF GrowsBy
<1> QED  BY <1>3, <1>5, <1>6, <1>11, ListingGrows

\* What is to stand before a node in its block was visited before it.
LEMMA PriorListed ==
  ASSUME ListingKnown, NEW n \in Computed(graph), Ready(n),
         NEW m \in Prior(n, graph.block[n]), m \notin Consts
  PROVE  m \in Dsts(body[graph.block[n]])
<1>1. WellFormed(graph)
  BY KnownGraph DEF ListingKnown, RegistersKnown
<1>2. /\ n \in Nodes(graph) /\ m \in Uses(graph, n)
      /\ m \in Computed(graph) /\ graph.block[m] = graph.block[n]
  BY DEF Prior, Uses, Computed, Phis, OfKind
<1>3. m \in visited
  BY <1>2 DEF Ready, Before, Computed, OfKind
<1>4. graph.block[n] \in Blocks(graph)
  BY <1>1, <1>2 DEF WellFormed
<1> QED  BY <1>2, <1>3, <1>4 DEF ListingKnown, Listed

\* A node that was not visited is in no list.
LEMMA NotYetListed ==
  ASSUME ListingKnown, NEW n \in Computed(graph), n \notin visited
  PROVE  /\ graph.block[n] \in Blocks(graph)
         /\ n \notin Dsts(body[graph.block[n]])
         /\ Ordered(body[graph.block[n]], graph.block[n])
<1>1. graph.block[n] \in Blocks(graph)
  BY KnownGraph DEF ListingKnown, RegistersKnown, WellFormed, Computed, OfKind
<1> QED  BY <1>1 DEF ListingKnown, Listed

LEMMA OperationListed ==
  ASSUME ListingKnown, NEW n \in Nodes(graph), VisitOperation(n), RegistersKnown'
  PROVE  ListingKnown'
<1> DEFINE b == graph.block[n]
           list == Append(body[b], InstructionOf(n))
<1>1. /\ graph.kind[n] = "op" /\ Visit(n, {n}) /\ jump' = jump
      /\ InstructionOf(n) = Instruction(n, [i \in DOMAIN graph.in[n] |-> AsOperand(graph.in[n][i])])
      /\ body' = [body EXCEPT ![b] = list]
  BY DEF VisitOperation, InstructionOf
<1>2. n \in Computed(graph) /\ n \in Emittable /\ n \notin Consts /\ Ready(n) /\ n \notin visited
  BY <1>1 DEF Computed, Emittable, Consts, OfKind, Visit, Ready
<1>3. b \in Blocks(graph) /\ n \notin Dsts(body[b]) /\ Ordered(body[b], b)
  BY <1>2, NotYetListed
<1>4. Prior(n, b) \subseteq Dsts(body[b])
  <2> SUFFICES ASSUME NEW m \in Prior(n, b) PROVE m \in Dsts(body[b])
    OBVIOUS
  <2>1. m \notin Consts
    BY <1>1 DEF Prior, Consts, Computed, OfKind
  <2> QED  BY <1>2, <2>1, PriorListed
<1>5. Ordered(list, b) /\ Dsts(list) = Dsts(body[b]) \cup {n}
  BY <1>2, <1>3, <1>4, OrderedAppend
<1>6. DOMAIN body' = DOMAIN body /\ body'[b] = list /\ \A c \in Blocks(graph) \ {b} : body'[c] = body[c]
  BY <1>1, <1>3 DEF ListingKnown
<1> HIDE DEF list
<1>7. Dsts(list) = Dsts(body[b]) \cup {} \cup ({n} \cap Computed(graph))
  BY <1>2, <1>5
<1>8. Appends(n, list, {})
  BY <1>1, <1>5, <1>6, <1>7 DEF Appends
<1>9. {n} \cap Consts \subseteq registers \cup {} /\ {} \subseteq {n}
  BY <1>2
<1> QED  BY <1>1, <1>8, <1>9, NodeVisited

LEMMA ConversionListed ==
  ASSUME ListingKnown, LoadsOnce(graph), NEW n \in Nodes(graph), VisitConversion(n), RegistersKnown'
  PROVE  ListingKnown'
<1> DEFINE b == graph.block[n]
           src == graph.in[n][1]
           loads == body[b] \o Loads({src})
           list == Append(loads, InstructionOf(n))
           loaded == {src} \cap Consts
<1>0. WellFormed(graph)
  BY KnownGraph DEF ListingKnown, RegistersKnown
<1>1. /\ graph.kind[n] = "conv" /\ Visit(n, {n, src}) /\ jump' = jump
      /\ InstructionOf(n) = Instruction(n, <<AsRegister(src)>>)
      /\ body' = [body EXCEPT ![b] = loads \o <<InstructionOf(n)>>]
  BY DEF VisitConversion, InstructionOf
<1>2. n \in Computed(graph) /\ n \in Emittable /\ n \notin Consts /\ Ready(n) /\ n \notin visited
  BY <1>1 DEF Computed, Emittable, Consts, OfKind, Visit, Ready
<1>3. b \in Blocks(graph) /\ n \notin Dsts(body[b]) /\ Ordered(body[b], b)
  BY <1>2, NotYetListed
<1>4. Operands(graph, n) = {src} /\ src \in Nodes(graph)
  <2>1. DOMAIN graph.in[n] = {1}
    BY <1>0, <1>1 DEF WellFormed, OfKind
  <2>2. Operands(graph, n) = {src}
    BY <2>1 DEF Operands
  <2>3. src \in Uses(graph, n)
    BY <1>1, <2>2 DEF Uses, Phis, OfKind
  <2> QED  BY <1>0, <2>2, <2>3 DEF WellFormed
<1>5. b \in LoadedAt(graph, src)
  BY <1>1 DEF LoadedAt, OfKind
<1>6. src \in Consts => (src \in registers <=> src \in Dsts(body[b]))
  BY <1>3, <1>5, LoadedHere
<1>7. Ordered(loads, b) /\ Dsts(loads) = Dsts(body[b]) \cup loaded
  BY <1>3, <1>4, <1>6, Loaded
<1> HIDE DEF loads
<1>8. n \notin Dsts(loads)
  BY <1>2, <1>3, <1>7
<1>9. Prior(n, b) \subseteq Dsts(loads)
  <2> SUFFICES ASSUME NEW m \in Prior(n, b) PROVE m \in Dsts(loads)
    OBVIOUS
  <2>1. CASE m \in Consts
    BY <1>4, <1>7, <2>1 DEF Prior
  <2>2. CASE m \notin Consts
    BY <1>2, <1>7, <2>2, PriorListed
  <2> QED  BY <2>1, <2>2
<1>10. Ordered(list, b) /\ Dsts(list) = Dsts(loads) \cup {n}
  BY <1>2, <1>7, <1>8, <1>9, OrderedAppend
<1>11. loads \o <<InstructionOf(n)>> = list
  <2>1. loads \in Seq({InstructionOf(m) : m \in Emittable})
    BY <1>7 DEF Ordered
  <2>2. InstructionOf(n) \in {InstructionOf(m) : m \in Emittable}
    BY <1>2
  <2> QED  BY <2>1, <2>2, Concatenated
<1>12. DOMAIN body' = DOMAIN body /\ body'[b] = list /\ \A c \in Blocks(graph) \ {b} : body'[c] = body[c]
  BY <1>1, <1>3, <1>11 DEF ListingKnown
<1> HIDE DEF list
<1>13. Dsts(list) = Dsts(body[b]) \cup loaded \cup ({n} \cap Computed(graph))
  BY <1>2, <1>7, <1>10
<1>14. Appends(n, list, loaded)
  BY <1>1, <1>5, <1>10, <1>12, <1>13 DEF Appends
<1>15. {n, src} \cap Consts \subseteq registers \cup loaded /\ loaded \subseteq {n, src}
  BY <1>2
<1> HIDE DEF loaded
<1> QED  BY <1>1, <1>14, <1>15, NodeVisited

\* The other nodes append nothing.  A comparison kept in a phi has no
\* constant on its left, so there is nothing to load either.
LEMMA NothingListed ==
  ASSUME ListingKnown, RegistersKnown', NEW n \in Nodes(graph), n \notin Computed(graph),
         NEW new, Visit(n, new), new \cap Consts = {}, body' = body, jump' = jump
  PROVE  ListingKnown'
<1> DEFINE b == graph.block[n]
<1>1. b \in Blocks(graph)
  BY KnownGraph DEF ListingKnown, RegistersKnown, WellFormed
<1>2. Ordered(body[b], b)
  BY <1>1 DEF ListingKnown, Listed
<1>3. Dsts(body[b]) = Dsts(body[b]) \cup {} \cup ({n} \cap Computed(graph))
  OBVIOUS
<1>4. Appends(n, body[b], {})
  BY <1>2, <1>3 DEF Appends
<1>5. new \cap Consts \subseteq registers \cup {} /\ {} \subseteq new
  OBVIOUS
<1> QED  BY <1>4, <1>5, NodeVisited

LEMMA FlagsListed ==
  ASSUME ListingKnown, Uncrossed(graph), NEW p \in Nodes(graph), VisitFlagsPhi(p), RegistersKnown'
  PROVE  ListingKnown'
<1> DEFINE compares == {u \in Uses(graph, p) : graph.kind[u] = "cmp"}
           lefts == {graph.in[m][1] : m \in compares}
           b == graph.block[p]
<1>1. /\ graph.kind[p] = "flags" /\ Visit(p, lefts) /\ jump' = jump
      /\ body' = [body EXCEPT ![b] = @ \o Loads(lefts)]
  BY DEF VisitFlagsPhi
<1>2. p \in Phis(graph) /\ p \notin Computed(graph)
  BY <1>1 DEF Phis, Computed, OfKind
<1>3. \A m \in compares : graph.kind[graph.in[m][1]] # "const"
  <2> TAKE m \in compares
  <2>1. PICK e \in DOMAIN graph.from[p] : m = graph.from[p][e]
    BY <1>2 DEF Uses
  <2> QED  BY <1>2, <2>1 DEF Uncrossed
<1>4. lefts \cap Consts = {} /\ Unloaded(lefts) = {}
  BY <1>3 DEF Consts, OfKind, Unloaded
<1>5. Loads(lefts) = <<>>
  <2>1. {Instruction(n, <<<<"imm", n>>>>) : n \in Unloaded(lefts)} = {}
    BY <1>4
  <2> QED  BY <2>1, ListOfOne DEF Loads
<1>6. b \in Blocks(graph)
  BY KnownGraph DEF ListingKnown, RegistersKnown, WellFormed
<1>7. Ordered(body[b], b)
  BY <1>6 DEF ListingKnown, Listed
<1>8. body[b] \o Loads(lefts) = body[b]
  BY <1>5, <1>7, Concatenated DEF Ordered
<1> HIDE DEF lefts
<1>9. /\ DOMAIN body' = DOMAIN body /\ body'[b] = body[b]
      /\ \A c \in Blocks(graph) \ {b} : body'[c] = body[c]
  BY <1>1, <1>6, <1>8 DEF ListingKnown
<1>10. Dsts(body[b]) = Dsts(body[b]) \cup {} \cup ({p} \cap Computed(graph))
  BY <1>2
<1>11. Appends(p, body[b], {})
  BY <1>1, <1>7, <1>9, <1>10 DEF Appends
<1>12. lefts \cap Consts \subseteq registers \cup {} /\ {} \subseteq lefts
  BY <1>4
<1> QED  BY <1>1, <1>11, <1>12, NodeVisited

LEMMA ExitVisited ==
  ASSUME ListingKnown, LoadsOnce(graph), NEW b \in Blocks(graph), VisitExit(b), RegistersKnown'
  PROVE  ListingKnown'
<1> DEFINE left == IF Compares(b) THEN {Left(b)} ELSE {}
           list == body[b] \o Loads(left)
           loaded == left \cap Consts
           reads == IF Compares(b) THEN CompareOperands(graph.exit[b][2])
                    ELSE IF Selects(b) THEN <<AsOperand(graph.exit[b][2])>> ELSE <<>>
<1>0. WellFormed(graph)
  BY KnownGraph DEF ListingKnown, RegistersKnown
<1>1. /\ graph' = graph /\ phase' = "second"
      /\ visited' = visited \cup {b} /\ registers' = registers \cup left
      /\ body' = [body EXCEPT ![b] = list]
      /\ jump' = [jump EXCEPT ![b] = reads]
  BY DEF VisitExit, Left
<1>2. Ordered(body[b], b)
  BY DEF ListingKnown, Listed
<1>3. Ordered(list, b) /\ Dsts(list) = Dsts(body[b]) \cup loaded
  <2>1. CASE Compares(b)
    <3> DEFINE c == graph.exit[b][2]
    <3>1. c \in Nodes(graph) /\ graph.kind[c] = "cmp" /\ graph.exit[b][1] # "jmp"
      BY <1>0, <2>1 DEF Compares, Selects, WellFormed
    <3>2. DOMAIN graph.in[c] = {1, 2}
      BY <1>0, <3>1 DEF WellFormed, OfKind
    <3>3. Left(b) \in Uses(graph, c)
      BY <3>1, <3>2 DEF Left, Uses, Phis, OfKind, Operands
    <3>4. Left(b) \in Nodes(graph)
      BY <1>0, <3>1, <3>3 DEF WellFormed
    <3>5. b \in LoadedAt(graph, Left(b))
      BY <3>1 DEF LoadedAt, Left
    <3>6. Left(b) \in Consts => (Left(b) \in registers <=> Left(b) \in Dsts(body[b]))
      BY <3>5, LoadedHere
    <3> QED  BY <1>2, <2>1, <3>4, <3>6, Loaded
  <2>2. CASE ~Compares(b)
    <3>1. list = body[b] /\ loaded = {}
      BY <1>2, <2>2, LoadsOfOne, Concatenated DEF Ordered
    <3> QED  BY <1>2, <3>1
  <2> QED  BY <2>1, <2>2
<1>4. \A k \in loaded : b \in LoadedAt(graph, k)
  BY DEF LoadedAt, Left, Compares, Selects
<1>5. /\ DOMAIN body' = DOMAIN body /\ body'[b] = list
      /\ \A c \in Blocks(graph) \ {b} : body'[c] = body[c]
      /\ DOMAIN jump' = Blocks(graph) /\ jump'[b] = reads
      /\ \A c \in Blocks(graph) \ {b} : jump'[c] = jump[c]
  BY <1>1 DEF ListingKnown
<1>6. b \notin Computed(graph) /\ Computed(graph) \subseteq Nodes(graph)
  BY <1>0 DEF WellFormed, Computed, OfKind
<1> HIDE DEF list, reads
<1>7. GrowsBy(b, list, loaded, {})
  BY <1>1, <1>3, <1>4, <1>5, <1>6 DEF GrowsBy
<1>8. ASSUME NEW c \in Blocks(graph) PROVE ExitListed(c)'
  <2>1. CASE c = b
    <3>1. Dsts(body[c])' = Dsts(list)
      BY <1>5, <2>1 DEF Dsts
    <3>2. jump'[c] = reads
      BY <1>5, <2>1
    <3>3. Compares(c) => reads = CompareOperands(graph.exit[c][2]) /\ Left(c) \in left
      BY <2>1 DEF reads
    <3>4. Selects(c) /\ ~Compares(c) => reads = <<AsOperand(graph.exit[c][2])>>
      BY <2>1 DEF reads
    <3>5. ~Selects(c) => reads = <<>>
      BY <2>1 DEF reads, Compares
    <3>6. Consts' = Consts
      BY <1>1, GraphFixed
    <3> QED  BY <1>1, <1>3, <3>1, <3>2, <3>3, <3>4, <3>5, <3>6, ExitFixed DEF ExitListed
  <2>2. CASE c # b
    BY <1>1, <1>5, <2>2, ExitStays
  <2> QED  BY <2>1, <2>2
<1> HIDE DEF loaded
<1> QED  BY <1>5, <1>7, <1>8, ListingGrows

\* The walk keeps what is known of the listing.
LEMMA ListingKnownInductive ==
  ASSUME \A g \in Graphs : Plain(g)
  PROVE  /\ Init => ListingKnown
         /\ ListingKnown /\ [Next]_vars => ListingKnown'
<1>1. ASSUME Init PROVE ListingKnown
  <2>1. /\ RegistersKnown /\ registers = {} /\ visited = {}
        /\ body = [b \in Blocks(graph) |-> <<>>] /\ jump = [b \in Blocks(graph) |-> <<>>]
    BY <1>1, RegistersKnownInductive DEF Init
  <2>2. ASSUME NEW b \in Blocks(graph) PROVE Listed(b) /\ ExitListed(b)
    <3>1. body[b] = <<>>
      BY <2>1
    <3>2. Ordered(<<>>, b) /\ Dsts(<<>>) = {}
      BY DEF Ordered, Dsts
    <3> QED  BY <2>1, <3>1, <3>2 DEF Listed, ExitListed
  <2> QED  BY <2>1, <2>2 DEF ListingKnown
<1>2. ASSUME ListingKnown, [Next]_vars
      PROVE  ListingKnown'
  <2>0. RegistersKnown' /\ Uncrossed(graph) /\ LoadsOnce(graph)
    BY <1>2, RegistersKnownInductive DEF ListingKnown, RegistersKnown, Plain
  <2>1. CASE /\ UNCHANGED <<graph, visited, body, jump>>
             /\ registers' \cap Consts = registers \cap Consts
             /\ phase' = "first" => registers' = {}
    <3>1. /\ Blocks(graph)' = Blocks(graph) /\ Computed(graph)' = Computed(graph) /\ Consts' = Consts
          /\ \A k : LoadedAt(graph, k)' = LoadedAt(graph, k)
          /\ \A b : Dsts(body[b])' = Dsts(body[b])
          /\ \A l, c : Ordered(l, c)' <=> Ordered(l, c)
      BY <2>1, GraphFixed DEF Blocks, Computed, OfKind, Nodes, LoadedAt, Dsts
    <3>2. ASSUME NEW b \in Blocks(graph) PROVE Listed(b)' /\ ExitListed(b)'
      <4>1. ExitListed(b)'
        BY <1>2, <2>1, ExitStays
      <4>2. Ordered(body[b], b)'
        BY <1>2, <2>1, <3>1 DEF ListingKnown, Listed
      <4>3. Listed(b)'
        BY <1>2, <2>1, <3>1, <4>2 DEF ListingKnown, Listed
      <4> QED  BY <4>1, <4>3
    <3> QED  BY <1>2, <2>0, <2>1, <3>1, <3>2 DEF ListingKnown
  <2>2. CASE FirstPass
    <3>1. registers = {} /\ registers' \cap Consts = {}
      BY <1>2, <2>2 DEF FirstPass, ListingKnown, Phis, OfKind, Consts
    <3> QED  BY <2>1, <2>2, <3>1 DEF FirstPass
  <2>3. CASE \E n \in Nodes(graph) :
               \/ VisitOperation(n) \/ VisitConversion(n) \/ VisitCompare(n)
               \/ VisitDataPhi(n) \/ VisitFlagsPhi(n) \/ VisitOther(n)
    <3> PICK n \in Nodes(graph) :
               \/ VisitOperation(n) \/ VisitConversion(n) \/ VisitCompare(n)
               \/ VisitDataPhi(n) \/ VisitFlagsPhi(n) \/ VisitOther(n)
      BY <2>3
    <3>1. CASE VisitOperation(n)
      BY <1>2, <2>0, <3>1, OperationListed
    <3>2. CASE VisitConversion(n)
      BY <1>2, <2>0, <3>2, ConversionListed
    <3>3. CASE VisitFlagsPhi(n)
      BY <1>2, <2>0, <3>3, FlagsListed
    <3>4. CASE VisitCompare(n) \/ VisitDataPhi(n) \/ VisitOther(n)
      <4>1. PICK new : /\ Visit(n, new) /\ new \cap Consts = {} /\ body' = body /\ jump' = jump
                       /\ n \notin Computed(graph)
        BY <3>4 DEF VisitCompare, VisitDataPhi, VisitOther, Consts, Computed, OfKind
      <4> QED  BY <1>2, <2>0, <4>1, NothingListed
    <3> QED  BY <3>1, <3>2, <3>3, <3>4
  <2>4. CASE \E b \in Blocks(graph) : VisitExit(b)
    BY <1>2, <2>0, <2>4, ExitVisited
  <2>5. CASE Get
    BY <2>1, <2>5 DEF Get, walking
  <2>6. CASE Execute \/ MovePhi \/ Enter \/ Return \/ (\E taken \in BOOLEAN : Leave(taken))
    BY <2>1, <2>6, ListingFixed DEF walking
  <2>7. CASE UNCHANGED vars
    BY <1>2, <2>1, <2>7 DEF vars, walking, ListingKnown
  <2> QED  BY <1>2, <2>2, <2>3, <2>4, <2>5, <2>6, <2>7 DEF Next, SecondPass
<1> QED  BY <1>1, <1>2
-----------------------------------------------------------------------------
(* Running the listing. *)

\* What was run of the current block's list.
Ran == {body[at][i].dst : i \in 1..(pos - 1)}

RunKnown ==
  /\ ListingKnown /\ InParallel
  /\ at \in Blocks(graph)
  /\ phase \in {"first", "second"} => pos = 1
  /\ phase \in {"body", "edge", "returned"} => Nodes(graph) \cup Blocks(graph) \subseteq visited
  /\ phase = "body" => /\ pos \in 1..(Len(body[at]) + 1)
                       /\ \A k \in Ran \cap Consts : regs[k] = k
  /\ phase = "edge" => way[1] = at

\* An instruction in a list is the one of its destination.
LEMMA InstructionListed ==
  ASSUME ListingKnown, NEW b \in Blocks(graph)
  PROVE  /\ DOMAIN body[b] = 1..Len(body[b]) /\ Len(body[b]) \in Nat
         /\ \A i \in DOMAIN body[b] : /\ body[b][i].dst \in Emittable
                                      /\ body[b][i].dst \in Nodes(graph)
                                      /\ body[b][i] = InstructionOf(body[b][i].dst)
<1>1. body[b] \in Seq({InstructionOf(n) : n \in Emittable})
  BY DEF ListingKnown, Listed, Ordered
<1>2. DOMAIN body[b] = 1..Len(body[b]) /\ Len(body[b]) \in Nat
  BY <1>1
<1>3. ASSUME NEW i \in DOMAIN body[b]
      PROVE  /\ body[b][i].dst \in Emittable
             /\ body[b][i].dst \in Nodes(graph)
             /\ body[b][i] = InstructionOf(body[b][i].dst)
  <2>1. PICK n \in Emittable : body[b][i] = InstructionOf(n)
    BY <1>1, <1>3
  <2>2. InstructionOf(n).dst = n
    BY DEF InstructionOf, Instruction
  <2> QED  BY <2>1, <2>2 DEF Emittable, OfKind
<1> QED  BY <1>2, <1>3

\* The register an instruction writes, and what it writes to it.
LEMMA ExecuteWrites ==
  ASSUME RunKnown, Execute
  PROVE  LET n == body[at][pos].dst
         IN  /\ n \in Emittable /\ n \in Nodes(graph) /\ body[at][pos] = InstructionOf(n)
             /\ \A m \in Nodes(graph) \ {n} : regs'[m] = regs[m]
             /\ n \in Consts => regs'[n] = n /\ event' = event
             /\ n \notin Consts => /\ n \in Computed(graph)
                                   /\ \E r \in Fresh : regs' = [regs EXCEPT ![n] = r]
             /\ DOMAIN regs' = DOMAIN regs
             /\ Ran' = Ran \cup {n}
             /\ pos \in DOMAIN body[at] /\ pos' = pos + 1
             /\ UNCHANGED <<graph, at, phase, walking>> /\ phase = "body"
<1> DEFINE n == body[at][pos].dst
<1>1. /\ phase = "body" /\ phase' = phase /\ graph' = graph /\ at' = at /\ pos' = pos + 1
      /\ pos \in DOMAIN body[at] /\ body' = body /\ walking' = walking
  BY DEF Execute, walking
<1>2. /\ n \in Emittable /\ n \in Nodes(graph) /\ body[at][pos] = InstructionOf(n)
      /\ DOMAIN body[at] = 1..Len(body[at]) /\ Len(body[at]) \in Nat
  BY <1>1, InstructionListed DEF RunKnown
<1>3. DOMAIN regs = Nodes(graph)
  BY DEF RunKnown, InParallel
<1>4. Ran' = Ran \cup {n}
  <2>1. 1..((pos + 1) - 1) = 1..(pos - 1) \cup {pos}
    BY <1>1, <1>2
  <2> QED  BY <1>1, <2>1 DEF Ran
<1>5. CASE graph.kind[n] = "const"
  <2>1. InstructionOf(n).in = <<<<"imm", n>>>>
    BY <1>5 DEF InstructionOf, Instruction
  <2>2. Read(body[at][pos].in[1]) = n
    BY <1>2, <2>1 DEF Read
  <2>3. regs' = [regs EXCEPT ![n] = n] /\ event' = event
    BY <1>5, <2>2 DEF Execute
  <2>4. n \in Consts
    BY <1>2, <1>5 DEF Consts, OfKind
  <2> QED  BY <1>1, <1>2, <1>3, <1>4, <2>3, <2>4
<1>6. CASE graph.kind[n] # "const"
  <2>1. n \notin Consts /\ n \in Computed(graph)
    BY <1>2, <1>6 DEF Consts, Computed, Emittable, OfKind
  <2>2. PICK r \in Fresh : regs' = [regs EXCEPT ![n] = r]
    BY <1>6 DEF Execute
  <2> QED  BY <1>1, <1>2, <1>3, <1>4, <2>1, <2>2
<1> QED  BY <1>5, <1>6

\* The listing that runs keeps registers and values together.
LEMMA RunKnownInductive ==
  ASSUME \A g \in Graphs : Plain(g)
  PROVE  /\ Init => RunKnown
         /\ RunKnown /\ [Next]_vars => RunKnown'
<1>0. \A g \in Graphs : Uncrossed(g)
  BY DEF Plain
<1>1. ASSUME Init PROVE RunKnown
  <2>1. ListingKnown /\ InParallel
    BY <1>0, <1>1, ListingKnownInductive, InParallelInductive
  <2>2. at \in Blocks(graph) /\ pos = 1 /\ phase = "first"
    BY <1>1, KnownGraph DEF Init, WellFormed
  <2> QED  BY <2>1, <2>2 DEF RunKnown
<1>2. ASSUME RunKnown, [Next]_vars
      PROVE  RunKnown'
  <2>0. ListingKnown' /\ InParallel'
    BY <1>0, <1>2, ListingKnownInductive, InParallelInductive DEF RunKnown
  <2>1. CASE FirstPass \/ SecondPass
    <3>1. /\ graph' = graph /\ at' = at /\ pos' = pos
          /\ phase \in {"first", "second"} /\ phase' = "second"
      BY <2>1, WalkFixed DEF running
    <3> QED  BY <1>2, <2>0, <3>1 DEF RunKnown, Blocks
  <2>2. CASE Get
    <3>1. /\ UNCHANGED <<graph, visited, body, at, pos>> /\ phase = "second" /\ phase' = "body"
          /\ Nodes(graph) \cup Blocks(graph) \subseteq visited
      BY <2>2 DEF Get, walking, running
    <3>2. pos = 1 /\ Len(body[at]) \in Nat
      BY <1>2, <3>1, InstructionListed DEF RunKnown
    <3>3. Ran' = {}
      BY <3>1, <3>2 DEF Ran
    <3> QED  BY <1>2, <2>0, <3>1, <3>2, <3>3 DEF RunKnown, Blocks, Nodes
  <2>3. CASE Execute
    <3> DEFINE n == body[at][pos].dst
    <3>1. /\ n \in Nodes(graph)
          /\ \A m \in Nodes(graph) \ {n} : regs'[m] = regs[m]
          /\ n \in Consts => regs'[n] = n
          /\ Ran' = Ran \cup {n}
          /\ pos \in DOMAIN body[at] /\ pos' = pos + 1
          /\ UNCHANGED <<graph, at, phase, walking>> /\ phase = "body"
      BY <1>2, <2>3, ExecuteWrites
    <3>2. UNCHANGED <<visited, body>> /\ DOMAIN body[at] = 1..Len(body[at]) /\ Len(body[at]) \in Nat
      BY <1>2, <3>1, InstructionListed DEF RunKnown, walking
    <3>3. Consts' = Consts /\ Consts \subseteq Nodes(graph)
      BY <3>1, GraphFixed DEF Consts, OfKind
    <3>4. \A k \in (Ran \cap Consts)' : regs'[k] = k
      <4> HIDE DEF n
      <4> QED  BY <1>2, <3>1, <3>3 DEF RunKnown
    <3>5. pos' \in 1..(Len(body[at]) + 1)
      BY <3>1, <3>2
    <3> QED  BY <1>2, <2>0, <3>1, <3>2, <3>4, <3>5 DEF RunKnown, Blocks, Nodes
  <2>4. CASE \E taken \in BOOLEAN : Leave(taken)
    <3>1. /\ UNCHANGED <<graph, visited, at>> /\ phase = "body" /\ phase' = "edge"
          /\ way'[1] = at
      BY <2>4 DEF Leave, walking
    <3> QED  BY <1>2, <2>0, <3>1 DEF RunKnown, Blocks, Nodes
  <2>5. CASE MovePhi
    <3>1. UNCHANGED <<graph, visited, at, way, phase>> /\ phase = "edge"
      BY <2>5 DEF MovePhi, walking
    <3> QED  BY <1>2, <2>0, <3>1 DEF RunKnown, Blocks, Nodes
  <2>6. CASE Enter
    <3>1. /\ UNCHANGED <<graph, visited, body>> /\ phase = "edge" /\ phase' = "body"
          /\ at' = graph.succ[way] /\ pos' = 1
      BY <2>6 DEF Enter, walking
    <3>2. graph.succ[way] \in Blocks(graph)
      <4>1. way \in Edges(graph)
        BY <1>2, <3>1 DEF RunKnown, InParallel, Underway
      <4>2. WellFormed(graph)
        BY <1>2, KnownGraph DEF RunKnown, ListingKnown, RegistersKnown
      <4> QED  BY <4>1, <4>2 DEF WellFormed
    <3>3. Len(body[graph.succ[way]]) \in Nat
      BY <1>2, <3>2, InstructionListed DEF RunKnown
    <3>4. Ran' = {}
      BY <3>1 DEF Ran
    <3> QED  BY <1>2, <2>0, <3>1, <3>2, <3>3, <3>4 DEF RunKnown, Blocks, Nodes
  <2>7. CASE Return
    <3>1. UNCHANGED <<graph, visited, at>> /\ phase = "body" /\ phase' = "returned"
      BY <2>7 DEF Return, walking
    <3> QED  BY <1>2, <2>0, <3>1 DEF RunKnown, Blocks, Nodes
  <2>8. CASE UNCHANGED vars
    <3>1. UNCHANGED <<graph, phase, visited, body, at, way, pos, regs>>
      BY <2>8 DEF vars, walking, running
    <3>2. Ran' = Ran /\ Consts' = Consts
      BY <3>1, GraphFixed DEF Ran
    <3> QED  BY <1>2, <2>0, <3>1, <3>2 DEF RunKnown, Blocks, Nodes
  <2> QED  BY <1>2, <2>1, <2>2, <2>3, <2>4, <2>5, <2>6, <2>7, <2>8 DEF Next
<1> QED  BY <1>1, <1>2
-----------------------------------------------------------------------------
(* The listing does what the graph says. *)

\* Both specifications read a graph in the same way.
LEMMA SameGraph ==
  ASSUME NEW g
  PROVE  /\ SSA!Nodes(g) = Nodes(g) /\ SSA!Edges(g) = Edges(g)
         /\ SSA!Computed(g) = Computed(g) /\ SSA!Stored(g) = Stored(g)
         /\ \A b : SSA!PhisOf(g, b) = PhisOf(g, b)
         /\ \A n : SSA!Operands(g, n) = Operands(g, n)
BY DEF SSA!Nodes, SSA!Edges, SSA!Computed, SSA!Stored, SSA!PhisOf, SSA!Phis, SSA!OfKind, SSA!Operands,
       Nodes, Edges, Computed, Stored, PhisOf, Phis, OfKind, Operands

\* While a block is run, an operand reads the value its node has.
LEMMA ReadsValue ==
  ASSUME graph \in Graphs, phase # "edge", NEW m \in Nodes(graph), graph.kind[m] # "cmp"
  PROVE  /\ Read(AsOperand(m)) = SSA!Value(m)
         /\ m \in Consts => SSA!Value(m) = m
         /\ m \notin Consts => SSA!Value(m) = regs[m]
<1>1. m \in Consts <=> graph.kind[m] = "const"
  BY DEF Consts, OfKind
<1>2. m \notin Consts => m \in Stored(graph)
  BY <1>1, KnownGraph DEF WellFormed, Stored, OfKind
<1>3. m \notin Consts => Current[m] = regs[m]
  BY <1>2 DEF Current
<1> QED  BY <1>1, <1>3 DEF AsOperand, Read, SSA!Value

\* The operands of operations, conversions and comparisons.
LEMMA OperandsKnown ==
  ASSUME graph \in Graphs, NEW n \in Nodes(graph), graph.kind[n] \in {"op", "conv", "cmp"},
         NEW i \in DOMAIN graph.in[n]
  PROVE  /\ graph.in[n][i] \in Nodes(graph) /\ graph.in[n][i] \in Operands(graph, n)
         /\ graph.kind[graph.in[n][i]] \notin {"cmp", "flags"}
<1>1. graph.in[n][i] \in Operands(graph, n) /\ Operands(graph, n) = Uses(graph, n)
  BY DEF Operands, Uses, Phis, OfKind
<1> QED  BY <1>1, KnownGraph DEF WellFormed, OfKind

\* What was run of a list when it is done: all of it.
LEMMA AllRan ==
  ASSUME RunKnown, phase = "body", pos = Len(body[at]) + 1
  PROVE  Ran = Dsts(body[at])
<1>1. DOMAIN body[at] = 1..Len(body[at]) /\ Len(body[at]) \in Nat
  BY InstructionListed DEF RunKnown
<1>2. 1..(pos - 1) = DOMAIN body[at]
  BY <1>1
<1> QED  BY <1>2 DEF Ran, Dsts

\* An instruction of a block is run after what it needs.
LEMMA RunInOrder ==
  ASSUME RunKnown, Execute
  PROVE  LET n == body[at][pos].dst
         IN  n \notin Consts => n \notin Ran /\ Prior(n, at) \subseteq Ran
<1> DEFINE n == body[at][pos].dst
<1>1. Ordered(body[at], at) /\ pos \in DOMAIN body[at]
  BY DEF RunKnown, ListingKnown, Listed, Execute
<1>2. DOMAIN body[at] = 1..Len(body[at]) /\ Len(body[at]) \in Nat
  BY InstructionListed DEF RunKnown
<1>3. n \notin Ran
  <2>1. \A j \in 1..(pos - 1) : j \in DOMAIN body[at] /\ j # pos
    BY <1>1, <1>2
  <2> QED  BY <1>1, <2>1 DEF Ordered, Ran
<1>4. n \notin Consts => graph.kind[n] # "const"
  BY <1>1, InstructionListed DEF RunKnown, Consts, OfKind
<1> QED  BY <1>1, <1>3, <1>4 DEF Ordered, Ran

\* The computed nodes among what is listed for a block are those of the block.
LEMMA ListedInBlock ==
  ASSUME RunKnown, phase \in {"body", "edge", "returned"}, NEW b \in Blocks(graph)
  PROVE  Dsts(body[b]) \cap Computed(graph) = {n \in Computed(graph) : graph.block[n] = b}
<1>1. Computed(graph) \subseteq visited
  BY DEF RunKnown, Computed, OfKind
<1> QED  BY <1>1 DEF RunKnown, ListingKnown, Listed

LEMMA ConstantRefined ==
  ASSUME RunKnown, Execute, body[at][pos].dst \in Consts
  PROVE  UNCHANGED SSA!vars
<1> DEFINE n == body[at][pos].dst
<1>1. /\ \A m \in Nodes(graph) \ {n} : regs'[m] = regs[m]
      /\ event' = event /\ Ran' = Ran \cup {n}
      /\ UNCHANGED <<graph, at, phase>> /\ phase = "body"
  BY ExecuteWrites
<1>2. Stored(graph) \subseteq Nodes(graph) \ Consts /\ Stored(graph)' = Stored(graph)
  BY <1>1 DEF Stored, OfKind, Consts, Nodes
<1>3. Current' = Current
  <2>1. \A m \in Stored(graph) : regs'[m] = regs[m]
    BY <1>1, <1>2
  <2> QED  BY <1>1, <1>2, <2>1 DEF Current
<1>4. Emitted' = Emitted
  <2>1. Emitted = Ran \cap Computed(graph)
    BY <1>1 DEF Emitted, Ran
  <2>2. Emitted' = Ran' \cap Computed(graph)
    BY <1>1 DEF Emitted, Ran, Computed, OfKind, Nodes
  <2>3. n \notin Computed(graph)
    BY DEF Consts, Computed, OfKind
  <2> QED  BY <1>1, <2>1, <2>2, <2>3
<1> QED  BY <1>1, <1>3, <1>4 DEF SSA!vars

\* The operands of an instruction have the values of the node's operands.
LEMMA OperandValues ==
  ASSUME RunKnown, Execute, NEW n, n = body[at][pos].dst, n \notin Consts
  PROVE  [j \in DOMAIN body[at][pos].in |-> Read(body[at][pos].in[j])]
           = [i \in DOMAIN graph.in[n] |-> SSA!Value(graph.in[n][i])]
<1>1. /\ n \in Nodes(graph) /\ n \in Computed(graph) /\ body[at][pos] = InstructionOf(n)
      /\ phase = "body" /\ graph \in Graphs
  BY ExecuteWrites DEF RunKnown, ListingKnown, RegistersKnown
<1>2. graph.kind[n] \in {"op", "conv"}
  BY <1>1 DEF Computed, OfKind
<1>3. CASE graph.kind[n] = "op"
  <2>0. InstructionOf(n).in = [i \in DOMAIN graph.in[n] |-> AsOperand(graph.in[n][i])]
    BY <1>3 DEF InstructionOf, Instruction
  <2>1. body[at][pos].in = [i \in DOMAIN graph.in[n] |-> AsOperand(graph.in[n][i])]
    BY <1>1, <2>0
  <2>2. \A i \in DOMAIN graph.in[n] :
          Read(AsOperand(graph.in[n][i])) = SSA!Value(graph.in[n][i])
    BY <1>1, <1>2, OperandsKnown, ReadsValue
  <2> QED  BY <2>1, <2>2
<1>4. CASE graph.kind[n] = "conv"
  <2> DEFINE src == graph.in[n][1]
  <2>0. InstructionOf(n).in = <<AsRegister(src)>>
    BY <1>4 DEF InstructionOf, Instruction
  <2>1. body[at][pos].in = <<AsRegister(src)>>
    BY <1>1, <2>0
  <2>2. DOMAIN graph.in[n] = {1}
    BY <1>1, <1>4, KnownGraph DEF WellFormed, OfKind
  <2>3. /\ src \in Nodes(graph) /\ src \in Operands(graph, n) /\ graph.kind[src] # "cmp"
    BY <1>1, <1>2, <2>2, OperandsKnown
  <2>4. Read(AsRegister(src)) = regs[src]
    BY DEF Read, AsRegister
  <2>5. regs[src] = SSA!Value(src)
    <3>1. CASE src \in Consts
      <4>1. src \in Ran
        BY <1>4, <2>3, <3>1, RunInOrder DEF Prior
      <4> QED  BY <1>1, <2>3, <3>1, <4>1, ReadsValue DEF RunKnown
    <3>2. CASE src \notin Consts
      BY <1>1, <2>3, <3>2, ReadsValue
    <3> QED  BY <3>1, <3>2
  <2>6. DOMAIN body[at][pos].in = {1} /\ body[at][pos].in[1] = AsRegister(src)
    BY <2>1
  <2>7. \A i \in {1} : Read(body[at][pos].in[i]) = SSA!Value(graph.in[n][i])
    BY <2>4, <2>5, <2>6
  <2> QED  BY <2>2, <2>6, <2>7, Zenon
<1> QED  BY <1>2, <1>3, <1>4

LEMMA ComputeRefined ==
  ASSUME RunKnown, Execute, NEW n, n = body[at][pos].dst, n \notin Consts
  PROVE  SSA!Compute(n) /\ n \in SSA!Computed(graph)
<1>1. /\ n \in Nodes(graph) /\ n \in Computed(graph) /\ n \in Emittable
      /\ \E r \in Fresh : regs' = [regs EXCEPT ![n] = r]
      /\ Ran' = Ran \cup {n}
      /\ UNCHANGED <<graph, at, phase>> /\ phase = "body"
      /\ DOMAIN regs = Nodes(graph) /\ at \in Blocks(graph)
      /\ pos \in DOMAIN body[at]
  BY ExecuteWrites DEF RunKnown, InParallel
<1>2. Emitted = Ran \cap Computed(graph) /\ Emitted' = Ran' \cap Computed(graph)
  BY <1>1 DEF Emitted, Ran, Computed, OfKind, Nodes
<1>3. SSA!InBlock = {m \in Computed(graph) : graph.block[m] = at}
  BY <1>1, SameGraph DEF SSA!InBlock
<1>4. SSA!InBlock = Dsts(body[at]) \cap Computed(graph)
  BY <1>1, <1>3, ListedInBlock
<1>5. n \in SSA!InBlock \ Emitted
  <2>1. n \in Dsts(body[at])
    BY <1>1 DEF Dsts
  <2>2. n \notin Ran
    BY RunInOrder
  <2> QED  BY <1>1, <1>2, <1>4, <2>1, <2>2
<1>6. SSA!Operands(graph, n) \cap SSA!InBlock \subseteq Emitted
  <2> SUFFICES ASSUME NEW m \in Operands(graph, n), m \in SSA!InBlock PROVE m \in Emitted
    BY SameGraph
  <2>1. m \in Prior(n, at) /\ m \in Computed(graph)
    BY <1>3 DEF Prior
  <2>2. m \in Ran
    BY <2>1, RunInOrder
  <2> QED  BY <1>2, <2>1, <2>2
<1>7. \E r \in Fresh : Current' = [Current EXCEPT ![n] = r]
  <2>1. PICK r \in Fresh : regs' = [regs EXCEPT ![n] = r]
    BY <1>1
  <2>2. Stored(graph)' = Stored(graph) /\ Stored(graph) \subseteq Nodes(graph)
    BY <1>1 DEF Stored, OfKind, Nodes
  <2>3. Current = [m \in Stored(graph) |-> regs[m]] /\ Current' = [m \in Stored(graph) |-> regs'[m]]
    BY <1>1, <2>2 DEF Current
  <2>4. \A m \in Stored(graph) : regs'[m] = IF m = n THEN r ELSE regs[m]
    BY <1>1, <2>1, <2>2
  <2> QED  BY <2>3, <2>4
<1>8. event' = <<"compute", n, [i \in DOMAIN graph.in[n] |-> SSA!Value(graph.in[n][i])]>>
  <2>1. event' = <<"compute", n, [j \in DOMAIN body[at][pos].in |-> Read(body[at][pos].in[j])]>>
    <3>1. graph.kind[n] # "const"
      BY <1>1 DEF Consts, OfKind
    <3> QED  BY <3>1 DEF Execute
  <2> QED  BY <2>1, OperandValues
<1>9. Emitted' = Emitted \cup {n}
  BY <1>1, <1>2
<1>10. n \in SSA!Computed(graph)
  BY <1>1, SameGraph
<1> QED  BY <1>1, <1>5, <1>6, <1>7, <1>8, <1>9, <1>10 DEF SSA!Compute

\* What decides where a block's exit leads, and what it returns.
LEMMA ExitReads ==
  ASSUME RunKnown, phase = "body", pos = Len(body[at]) + 1, Selects(at)
  PROVE  Result(jump[at]) = SSA!Taken(graph.exit[at][2])
<1> DEFINE s == graph.exit[at][2]
<1>1. graph \in Graphs /\ at \in Blocks(graph) /\ at \in visited
  BY DEF RunKnown, ListingKnown, RegistersKnown
<1>2. s \in Nodes(graph)
  BY <1>1, KnownGraph DEF WellFormed, Selects
<1>3. CASE Compares(at)
  <2> DEFINE l == graph.in[s][1]
             r == graph.in[s][2]
  <2>1. graph.kind[s] = "cmp"
    BY <1>3 DEF Compares
  <2>2. DOMAIN graph.in[s] = {1, 2}
    BY <1>1, <1>2, <2>1, KnownGraph DEF WellFormed, OfKind
  <2>3. /\ l \in Nodes(graph) /\ graph.kind[l] # "cmp"
        /\ r \in Nodes(graph) /\ graph.kind[r] # "cmp"
    BY <1>1, <1>2, <2>1, <2>2, OperandsKnown
  <2>4. jump[at] = <<AsRegister(l), AsOperand(r)>>
    BY <1>1, <1>3 DEF RunKnown, ListingKnown, ExitListed, CompareOperands
  <2>5. Read(AsRegister(l)) = SSA!Value(l)
    <3>1. Read(AsRegister(l)) = regs[l]
      BY DEF Read, AsRegister
    <3>2. CASE l \in Consts
      <4>1. l \in Ran
        BY <1>1, <1>3, <3>2, AllRan DEF RunKnown, ListingKnown, ExitListed, Left
      <4> QED  BY <1>1, <2>3, <3>1, <3>2, <4>1, ReadsValue DEF RunKnown
    <3>3. CASE l \notin Consts
      BY <1>1, <2>3, <3>1, <3>3, ReadsValue
    <3> QED  BY <3>2, <3>3
  <2>6. Read(AsOperand(r)) = SSA!Value(r)
    BY <1>1, <2>3, ReadsValue
  <2>7. Result(jump[at]) = <<Read(AsRegister(l)), Read(AsOperand(r))>>
    BY <2>4 DEF Result
  <2> QED  BY <2>1, <2>5, <2>6, <2>7 DEF SSA!Taken, SSA!Compared
<1>4. CASE ~Compares(at)
  <2>1. graph.kind[s] # "cmp"
    BY <1>4 DEF Compares
  <2>2. jump[at] = <<AsOperand(s)>>
    BY <1>1, <1>4 DEF RunKnown, ListingKnown, ExitListed
  <2>3. Result(jump[at]) = Read(AsOperand(s))
    BY <2>2 DEF Result
  <2> QED  BY <1>1, <1>2, <2>1, <2>3, ReadsValue DEF SSA!Taken
<1> QED  BY <1>3, <1>4

\* The move of an edge reads what the phi takes on that edge.
LEMMA IncomingIsTaken ==
  ASSUME graph \in Graphs, phase = "body", NEW p \in Phis(graph), NEW e \in DOMAIN graph.from[p]
  PROVE  Incoming(p, e) = SSA!Taken(graph.from[p][e])
<1> DEFINE m == graph.from[p][e]
<1>1. m \in Nodes(graph)
  BY KnownGraph DEF WellFormed, Uses, Phis, OfKind
<1>2. CASE graph.kind[m] = "cmp"
  <2>1. DOMAIN graph.in[m] = {1, 2}
    BY <1>1, <1>2, KnownGraph DEF WellFormed, OfKind
  <2>2. /\ graph.in[m][1] \in Nodes(graph) /\ graph.kind[graph.in[m][1]] # "cmp"
        /\ graph.in[m][2] \in Nodes(graph) /\ graph.kind[graph.in[m][2]] # "cmp"
    BY <1>1, <1>2, <2>1, OperandsKnown
  <2>3. /\ Read(AsOperand(graph.in[m][1])) = SSA!Value(graph.in[m][1])
        /\ Read(AsOperand(graph.in[m][2])) = SSA!Value(graph.in[m][2])
    BY <2>2, ReadsValue
  <2> QED  BY <1>2, <2>3 DEF Incoming, SSA!Taken, SSA!Compared
<1>3. CASE graph.kind[m] # "cmp"
  BY <1>1, <1>3, ReadsValue DEF Incoming, SSA!Taken
<1> QED  BY <1>2, <1>3

\* When a block was run, everything in it was computed.
LEMMA BlockDone ==
  ASSUME RunKnown, phase = "body", pos = Len(body[at]) + 1
  PROVE  Emitted = SSA!InBlock
<1>1. Emitted = Ran \cap Computed(graph)
  BY DEF Emitted, Ran
<1>2. SSA!InBlock = {m \in Computed(graph) : graph.block[m] = at}
  BY SameGraph DEF SSA!InBlock
<1> QED  BY <1>1, <1>2, AllRan, ListedInBlock DEF RunKnown

LEMMA LeaveRefined ==
  ASSUME RunKnown, NEW taken \in BOOLEAN, Leave(taken)
  PROVE  SSA!Leave(taken)
<1> DEFINE e == <<at, taken>>
           phis == PhisOf(graph, graph.succ[e])
<1>1. /\ UNCHANGED <<graph, at, regs>> /\ phase = "body" /\ phase' = "edge"
      /\ pos = Len(body[at]) + 1
      /\ e \in Edges(graph) /\ way' = e
      /\ pending' = [p \in phis |-> Incoming(p, e)]
      /\ event' = IF graph.exit[at][1] = "cond"
                  THEN <<"branch", Result(jump[at]), taken>>
                  ELSE <<"jump">>
  BY DEF Leave
<1>2. graph \in Graphs
  BY DEF RunKnown, ListingKnown, RegistersKnown
<1>3. Emitted = SSA!InBlock /\ Emitted' = {}
  BY <1>1, BlockDone DEF Emitted
<1>4. event' = IF graph.exit[at][1] = "cond"
               THEN <<"branch", SSA!Taken(graph.exit[at][2]), taken>>
               ELSE <<"jump">>
  BY <1>1, ExitReads DEF Selects
<1>5. \A p \in phis : Incoming(p, e) = SSA!Taken(graph.from[p][e])
  <2> TAKE p \in phis
  <2>1. p \in Phis(graph) /\ e \in DOMAIN graph.from[p]
    BY <1>1, <1>2, KnownGraph DEF PhisOf, WellFormed, Into
  <2> QED  BY <1>1, <1>2, <2>1, IncomingIsTaken
<1>6. Current' = [n \in DOMAIN Current |-> IF n \in phis THEN SSA!Taken(graph.from[n][e]) ELSE Current[n]]
  <2>1. Stored(graph)' = Stored(graph)
    BY <1>1 DEF Stored, OfKind, Nodes
  <2>2. Current = [n \in Stored(graph) |-> regs[n]]
    BY <1>1 DEF Current
  <2>3. Current' = [n \in Stored(graph) |-> IF n \in DOMAIN pending' THEN pending'[n] ELSE regs[n]]
    BY <1>1, <2>1 DEF Current
  <2>4. \A n \in Stored(graph) : (IF n \in DOMAIN pending' THEN pending'[n] ELSE regs[n])
                                   = IF n \in phis THEN SSA!Taken(graph.from[n][e]) ELSE Current[n]
    BY <1>1, <1>5, <2>2
  <2> QED  BY <2>2, <2>3, <2>4
<1>7. phis = SSA!PhisOf(graph, graph.succ[e]) /\ e \in SSA!Edges(graph)
  BY <1>1, SameGraph
<1> QED  BY <1>1, <1>3, <1>4, <1>6, <1>7 DEF SSA!Leave

LEMMA MoveRefined ==
  ASSUME RunKnown, MovePhi
  PROVE  UNCHANGED SSA!vars
<1> DEFINE dst == moves[way][pos].dst
<1>1. /\ UNCHANGED <<graph, at, way, phase, pending, event>> /\ phase = "edge"
      /\ pos \in DOMAIN moves[way]
      /\ regs' = [regs EXCEPT ![dst] = Result(moves[way][pos].in)]
  BY DEF MovePhi
<1>2. dst \in DOMAIN pending
  BY <1>1, MoveOfPhi DEF RunKnown, InParallel, Underway
<1>3. \A n \in Stored(graph) : n \notin DOMAIN pending => regs'[n] = regs[n]
  <2>1. Stored(graph) \subseteq DOMAIN regs
    BY DEF RunKnown, InParallel, Stored, OfKind
  <2> QED  BY <1>1, <1>2, <2>1
<1>4. Stored(graph)' = Stored(graph)
  BY <1>1 DEF Stored, OfKind, Nodes
<1>5. Current' = Current
  BY <1>1, <1>3, <1>4 DEF Current
<1> QED  BY <1>1, <1>5 DEF SSA!vars, Emitted

LEMMA EnterRefined ==
  ASSUME RunKnown, Enter
  PROVE  UNCHANGED SSA!vars
<1>1. /\ UNCHANGED <<graph, way, regs, event>> /\ phase = "edge" /\ phase' = "body"
      /\ pos = Len(moves[way]) + 1 /\ at' = graph.succ[way] /\ pos' = 1
  BY DEF Enter
<1>2. \A p \in DOMAIN pending : regs[p] = pending[p]
  BY <1>1, UnderwayDone DEF RunKnown, EdgeMovesParallel
<1>3. Stored(graph)' = Stored(graph)
  BY <1>1 DEF Stored, OfKind, Nodes
<1>4. Current' = Current
  BY <1>1, <1>2, <1>3 DEF Current
<1>5. Emitted = {} /\ Emitted' = {}
  BY <1>1 DEF Emitted
<1> QED  BY <1>1, <1>4, <1>5 DEF SSA!vars

LEMMA ReturnRefined ==
  ASSUME RunKnown, Return
  PROVE  SSA!Return
<1>1. /\ UNCHANGED <<graph, body, at, pos, regs>> /\ phase = "body" /\ phase' = "returned"
      /\ pos = Len(body[at]) + 1 /\ graph.exit[at][1] = "ret"
      /\ event' = <<"return", Read(jump[at][1])>>
  BY DEF Return, walking
<1>2. Emitted = SSA!InBlock
  BY <1>1, BlockDone
<1>3. Read(jump[at][1]) = SSA!Value(graph.exit[at][2])
  <2>1. /\ Selects(at) /\ ~Compares(at)
        /\ graph.exit[at][2] \in Nodes(graph) /\ graph.kind[graph.exit[at][2]] # "cmp"
        /\ graph \in Graphs
    BY <1>1, KnownGraph
       DEF RunKnown, ListingKnown, RegistersKnown, WellFormed, Selects, Compares
  <2>2. jump[at] = <<AsOperand(graph.exit[at][2])>>
    BY <1>1, <2>1 DEF RunKnown, ListingKnown, ExitListed
  <2> QED  BY <1>1, <2>1, <2>2, ReadsValue
<1>4. Current' = Current /\ Emitted' = Emitted
  BY <1>1 DEF Current, Emitted, Stored, Computed, OfKind, Nodes
<1> QED  BY <1>1, <1>2, <1>3, <1>4 DEF SSA!Return

LEMMA InitRefined ==
  ASSUME Init
  PROVE  SSA!Init
<1>1. /\ graph \in Graphs /\ phase = "first" /\ at = graph.entry /\ event = <<"start">>
      /\ regs = [n \in Nodes(graph) |-> IF graph.kind[n] = "param" THEN n ELSE Junk]
  BY DEF Init
<1>2. Current = [n \in Stored(graph) |-> IF graph.kind[n] = "param" THEN n ELSE Junk]
  BY <1>1 DEF Current, Stored, OfKind
<1>3. Emitted = {}
  BY <1>1 DEF Emitted
<1> QED  BY <1>1, <1>2, <1>3, SameGraph DEF SSA!Init

\* Every step of the listing is a step of the graph or none.
LEMMA StepRefined ==
  ASSUME RunKnown, [Next]_vars
  PROVE  [SSA!Next]_(SSA!vars)
<1>1. CASE FirstPass \/ SecondPass \/ Get
  <2>1. /\ UNCHANGED <<graph, at, way, pos, regs, event, pending>>
        /\ phase \in {"first", "second"} /\ phase' \in {"second", "body"}
    BY <1>1, WalkFixed DEF Get, running
  <2>2. Emitted = {} /\ Emitted' = {}
    BY <2>1 DEF Emitted, RunKnown
  <2>3. Current' = Current
    BY <2>1 DEF Current, Stored, OfKind, Nodes
  <2> QED  BY <2>1, <2>2, <2>3 DEF SSA!vars
<1>2. CASE Execute
  <2>1. PICK n : n = body[at][pos].dst
    OBVIOUS
  <2>2. CASE n \in Consts
    BY <1>2, <2>1, <2>2, ConstantRefined
  <2>3. CASE n \notin Consts
    BY <1>2, <2>1, <2>3, ComputeRefined DEF SSA!Next
  <2> QED  BY <2>2, <2>3
<1>3. CASE \E taken \in BOOLEAN : Leave(taken)
  BY <1>3, LeaveRefined DEF SSA!Next
<1>4. CASE MovePhi
  BY <1>4, MoveRefined
<1>5. CASE Enter
  BY <1>5, EnterRefined
<1>6. CASE Return
  BY <1>6, ReturnRefined DEF SSA!Next
<1>7. CASE UNCHANGED vars
  <2>1. UNCHANGED <<graph, phase, body, at, way, pos, regs, pending, event>>
    BY <1>7 DEF vars, walking, running
  <2> QED  BY <2>1 DEF SSA!vars, Current, Emitted, Stored, Computed, OfKind, Nodes
<1> QED  BY <1>1, <1>2, <1>3, <1>4, <1>5, <1>6, <1>7 DEF Next

\* Where no phi is moved into another one of its block and no constant is
\* loaded in two blocks, the instructions generator::get lays out compute,
\* branch on and return exactly the values the graph says, in an order its
\* data dependencies allow, whatever the order of the walk.
THEOREM ListingImplementsGraph ==
  ASSUME \A g \in Graphs : Plain(g)
  PROVE  Spec => Implements
<1>1. Init => SSA!Init
  BY InitRefined
<1>2. RunKnown /\ [Next]_vars => [SSA!Next]_(SSA!vars)
  BY StepRefined
<1> QED  BY <1>1, <1>2, RunKnownInductive, PTL DEF Spec, Implements, SSA!Spec
-----------------------------------------------------------------------------
(* No register is read before it is written. *)

\* The nodes with a value once control has left block b.
ValuesOf(b) == {n \in Computed(graph) \cup Phis(graph) : graph.block[n] = b}

DefinedKnown ==
  /\ RunKnown
  /\ \A n \in OfKind(graph, {"param"}) : regs[n] # Junk
  /\ phase \in {"first", "second"} => at = graph.entry
  /\ phase \in {"body", "edge"} =>
       \A d \in Blocks(graph) \ {at} :
         Dominates(graph, d, at) => \A n \in ValuesOf(d) : regs[n] # Junk
  /\ phase = "body" => \A n \in Ran \cup PhisOf(graph, at) : regs[n] # Junk
  /\ phase = "edge" => /\ \A n \in ValuesOf(at) : regs[n] # Junk
                       /\ \A i \in 1..(pos - 1) : regs[moves[way][i].dst] # Junk

\* Dominance is transitive.
LEMMA DominatesTransitive ==
  ASSUME NEW g, NEW d, NEW c, NEW b, Dominates(g, d, c), Dominates(g, c, b)
  PROVE  Dominates(g, d, b)
<1>1. PICK S \in SUBSET Blocks(g) :
        /\ g.entry = d \/ g.entry \in S
        /\ \A e \in Edges(g) : e[1] \in S => g.succ[e] = d \/ g.succ[e] \in S
        /\ c \notin S
  BY DEF Dominates
<1>2. PICK T \in SUBSET Blocks(g) :
        /\ g.entry = c \/ g.entry \in T
        /\ \A e \in Edges(g) : e[1] \in T => g.succ[e] = c \/ g.succ[e] \in T
        /\ b \notin T
  BY DEF Dominates
<1>3. \A e \in Edges(g) : e[1] \in S \cap T => g.succ[e] = d \/ g.succ[e] \in S \cap T
  BY <1>1, <1>2
<1>4. S \cap T \in SUBSET Blocks(g) /\ b \notin S \cap T
  BY <1>1, <1>2
<1>5. g.entry = d \/ g.entry \in S \cap T
  BY <1>1, <1>2
<1> QED  BY <1>3, <1>4, <1>5 DEF Dominates

\* Only the entry itself dominates the entry; what dominates a block does so
\* with the block any edge into it comes from, unless it is the block itself.
LEMMA DominatesAlongEdge ==
  ASSUME NEW g, NEW d
  PROVE  /\ Dominates(g, d, g.entry) => d = g.entry
         /\ \A e \in Edges(g) :
              Dominates(g, d, g.succ[e]) /\ d # g.succ[e] => Dominates(g, d, e[1])
BY DEF Dominates

\* What is computed in a block that dominates the current one can be read.
LEMMA ValueThere ==
  ASSUME DefinedKnown, Junk \notin Nodes(graph), phase \in {"body", "edge"},
         NEW m \in Nodes(graph), graph.kind[m] # "cmp",
         m \in Defined(graph) => Dominates(graph, graph.block[m], at),
         phase = "body" /\ m \in Computed(graph) /\ graph.block[m] = at => m \in Ran
  PROVE  /\ m \notin Consts => regs[m] # Junk
         /\ Read(AsOperand(m)) # Junk
<1>1. /\ graph.kind[m] \in {"const", "param", "op", "conv", "phi", "flags"}
      /\ graph.block[m] \in Blocks(graph)
  BY KnownGraph DEF DefinedKnown, RunKnown, ListingKnown, RegistersKnown, WellFormed
<1>2. CASE graph.kind[m] = "const"
  BY <1>2 DEF Consts, OfKind, Read, AsOperand
<1>3. CASE graph.kind[m] # "const"
  <2>1. Read(AsOperand(m)) = regs[m]
    BY <1>3 DEF Read, AsOperand
  <2>2. CASE graph.kind[m] = "param"
    BY <2>1, <2>2 DEF DefinedKnown, OfKind
  <2>3. CASE graph.kind[m] # "param"
    <3>1. m \in Defined(graph) /\ m \in Computed(graph) \cup Phis(graph)
      BY <1>1, <1>3, <2>3 DEF Defined, Computed, Phis, OfKind
    <3>2. m \in ValuesOf(graph.block[m])
      BY <3>1 DEF ValuesOf
    <3>3. CASE graph.block[m] # at
      BY <1>1, <2>1, <3>1, <3>2, <3>3 DEF DefinedKnown
    <3>4. CASE graph.block[m] = at /\ phase = "edge"
      BY <2>1, <3>2, <3>4 DEF DefinedKnown
    <3>5. CASE graph.block[m] = at /\ phase = "body"
      <4>1. m \in Ran \cup PhisOf(graph, at)
        BY <3>1, <3>5 DEF PhisOf
      <4> QED  BY <2>1, <3>5, <4>1 DEF DefinedKnown
    <3> QED  BY <3>3, <3>4, <3>5
  <2> QED  BY <2>2, <2>3
<1> QED  BY <1>2, <1>3

\* The operands of a comparison are defined where the comparison is.
LEMMA ComparedDominates ==
  ASSUME graph \in Graphs, Strict(graph), NEW c \in Nodes(graph), graph.kind[c] = "cmp",
         Dominates(graph, graph.block[c], at)
  PROVE  /\ DOMAIN graph.in[c] = {1, 2}
         /\ \A i \in {1, 2} :
              LET m == graph.in[c][i]
              IN  /\ m \in Nodes(graph) /\ graph.kind[m] # "cmp"
                  /\ m \in Defined(graph) => Dominates(graph, graph.block[m], at)
<1>1. DOMAIN graph.in[c] = {1, 2}
  BY KnownGraph DEF WellFormed, OfKind
<1>2. ASSUME NEW i \in {1, 2}
      PROVE  LET m == graph.in[c][i]
             IN  /\ m \in Nodes(graph) /\ graph.kind[m] # "cmp"
                 /\ m \in Defined(graph) => Dominates(graph, graph.block[m], at)
  <2> DEFINE m == graph.in[c][i]
  <2>1. m \in Nodes(graph) /\ m \in Operands(graph, c) /\ graph.kind[m] # "cmp"
    BY <1>1, OperandsKnown
  <2>2. m \in Defined(graph) => Dominates(graph, graph.block[m], graph.block[c])
    BY <2>1 DEF Strict, OfKind
  <2> QED  BY <2>1, <2>2, DominatesTransitive
<1> QED  BY <1>1, <1>2

\* Every instruction of a block reads registers that were written.
LEMMA BodySees ==
  ASSUME DefinedKnown, Strict(graph), Junk \notin Nodes(graph),
         phase = "body", pos \in DOMAIN body[at]
  PROVE  Sees(body[at][pos].in)
<1> PICK n : n = body[at][pos].dst
  OBVIOUS
<1>1. /\ n \in Nodes(graph) /\ n \in Emittable /\ body[at][pos] = InstructionOf(n)
      /\ DOMAIN body[at] = 1..Len(body[at]) /\ Len(body[at]) \in Nat
      /\ graph \in Graphs
  BY InstructionListed DEF DefinedKnown, RunKnown, ListingKnown, RegistersKnown
<1>2. Ordered(body[at], at)
  BY DEF DefinedKnown, RunKnown, ListingKnown, Listed
<1>3. body[at][pos].in = InstructionOf(n).in
  BY <1>1
<1>4. CASE graph.kind[n] = "const"
  <2>1. InstructionOf(n).in = <<<<"imm", n>>>>
    BY <1>4 DEF InstructionOf, Instruction
  <2>2. Read(<<"imm", n>>) # Junk
    BY <1>1 DEF Read
  <2>3. Sees(<<<<"imm", n>>>>)
    BY <2>2 DEF Sees
  <2> QED  BY <1>3, <2>1, <2>3, Zenon
<1>5. CASE graph.kind[n] # "const"
  <2>1. /\ graph.kind[n] \in {"op", "conv"} /\ n \in Computed(graph)
        /\ Prior(n, at) \subseteq Ran
    BY <1>1, <1>2, <1>5 DEF Emittable, Computed, OfKind, Ordered, Ran
  <2>2. graph.block[n] = at
    <3>1. n \in Dsts(body[at])
      BY DEF Dsts
    <3> QED  BY <2>1, <3>1, ListedInBlock DEF DefinedKnown, RunKnown
  <2>3. ASSUME NEW i \in DOMAIN graph.in[n]
        PROVE  LET m == graph.in[n][i]
               IN  Read(AsOperand(m)) # Junk /\ (m \notin Consts => regs[m] # Junk)
                   /\ m \in Nodes(graph) /\ m \in Operands(graph, n)
    <3> DEFINE m == graph.in[n][i]
    <3>1. m \in Nodes(graph) /\ m \in Operands(graph, n) /\ graph.kind[m] # "cmp"
      BY <1>1, <2>1, OperandsKnown
    <3>2. m \in Defined(graph) => Dominates(graph, graph.block[m], at)
      BY <1>1, <2>1, <2>2, <3>1 DEF Strict, OfKind
    <3>3. m \in Computed(graph) /\ graph.block[m] = at => m \in Ran
      BY <2>1, <3>1 DEF Prior
    <3> QED  BY <3>1, <3>2, <3>3, ValueThere
  <2>4. CASE graph.kind[n] = "op"
    <3>1. InstructionOf(n).in = [i \in DOMAIN graph.in[n] |-> AsOperand(graph.in[n][i])]
      BY <2>4 DEF InstructionOf, Instruction
    <3>2. Sees([i \in DOMAIN graph.in[n] |-> AsOperand(graph.in[n][i])])
      BY <2>3 DEF Sees
    <3> QED  BY <1>3, <3>1, <3>2, Zenon
  <2>5. CASE graph.kind[n] = "conv"
    <3> DEFINE src == graph.in[n][1]
    <3>1. InstructionOf(n).in = <<AsRegister(src)>>
      BY <2>5 DEF InstructionOf, Instruction
    <3>2. DOMAIN graph.in[n] = {1}
      BY <1>1, <2>5, KnownGraph DEF WellFormed, OfKind
    <3>3. regs[src] # Junk
      <4>1. CASE src \in Consts
        <5>1. src \in Ran
          BY <2>1, <2>3, <2>5, <3>2, <4>1 DEF Prior
        <5> QED  BY <4>1, <5>1 DEF DefinedKnown
      <4>2. CASE src \notin Consts
        BY <2>3, <3>2, <4>2
      <4> QED  BY <4>1, <4>2
    <3>4. Read(AsRegister(src)) # Junk
      BY <3>3 DEF Read, AsRegister
    <3>5. Sees(<<AsRegister(src)>>)
      BY <3>4 DEF Sees
    <3> QED  BY <1>3, <3>1, <3>5, Zenon
  <2> QED  BY <2>1, <2>4, <2>5
<1> QED  BY <1>4, <1>5

\* A comparison sees what both its operands see.
LEMMA SeesTwo ==
  ASSUME NEW x, NEW y
  PROVE  /\ Read(x) # Junk /\ Read(y) # Junk => Sees(<<x, y>>)
         /\ Result(<<x, y>>) = <<Read(x), Read(y)>>
BY DEF Sees, Result

\* So does the jump at the end of a block.
LEMMA JumpSees ==
  ASSUME DefinedKnown, Strict(graph), Junk \notin Nodes(graph),
         phase = "body", pos = Len(body[at]) + 1
  PROVE  Sees(jump[at])
<1> DEFINE s == graph.exit[at][2]
<1>1. graph \in Graphs /\ at \in Blocks(graph) /\ at \in visited /\ ExitListed(at) /\ Ran = Dsts(body[at])
  BY AllRan DEF DefinedKnown, RunKnown, ListingKnown, RegistersKnown
<1>2. ASSUME NEW m \in Computed(graph), graph.block[m] = at
      PROVE  m \in Ran
  BY <1>1, <1>2, ListedInBlock DEF DefinedKnown, RunKnown
<1>3. Selects(at) => /\ s \in Nodes(graph)
                     /\ s \in Defined(graph) => Dominates(graph, graph.block[s], at)
  BY <1>1, KnownGraph DEF WellFormed, Strict, Selects
<1>4. CASE Compares(at)
  <2> DEFINE l == graph.in[s][1]
             r == graph.in[s][2]
  <2>1. Selects(at) /\ graph.kind[s] = "cmp" /\ s \in Defined(graph)
    BY <1>3, <1>4 DEF Compares, Defined, OfKind
  <2>2. \A i \in {1, 2} :
          LET m == graph.in[s][i]
          IN  /\ m \in Nodes(graph) /\ graph.kind[m] # "cmp"
              /\ m \in Defined(graph) => Dominates(graph, graph.block[m], at)
    BY <1>1, <1>3, <2>1, ComparedDominates
  <2>3. /\ l \in Nodes(graph) /\ graph.kind[l] # "cmp"
        /\ l \in Defined(graph) => Dominates(graph, graph.block[l], at)
        /\ r \in Nodes(graph) /\ graph.kind[r] # "cmp"
        /\ r \in Defined(graph) => Dominates(graph, graph.block[r], at)
    BY <2>2
  <2>4. jump[at] = <<AsRegister(l), AsOperand(r)>>
    BY <1>1, <1>4 DEF ExitListed, CompareOperands
  <2>5. Read(AsOperand(r)) # Junk
    BY <1>2, <2>3, ValueThere
  <2>6. regs[l] # Junk
    <3>1. CASE l \in Consts
      <4>1. l \in Ran
        BY <1>1, <1>4, <3>1 DEF ExitListed, Left
      <4> QED  BY <3>1, <4>1 DEF DefinedKnown
    <3>2. CASE l \notin Consts
      BY <1>2, <2>3, <3>2, ValueThere
    <3> QED  BY <3>1, <3>2
  <2>7. Read(AsRegister(l)) # Junk
    BY <2>6 DEF Read, AsRegister
  <2>8. Sees(<<AsRegister(l), AsOperand(r)>>)
    BY <2>5, <2>7, SeesTwo, Zenon
  <2> QED  BY <2>4, <2>8, Zenon
<1>5. CASE Selects(at) /\ ~Compares(at)
  <2>1. graph.kind[s] # "cmp"
    BY <1>5 DEF Compares
  <2>2. jump[at] = <<AsOperand(s)>>
    BY <1>1, <1>5 DEF ExitListed
  <2>3. Read(AsOperand(s)) # Junk
    BY <1>2, <1>3, <1>5, <2>1, ValueThere
  <2>4. Sees(<<AsOperand(s)>>)
    BY <2>3 DEF Sees
  <2> QED  BY <2>2, <2>4, Zenon
<1>6. CASE ~Selects(at)
  <2>1. jump[at] = <<>>
    BY <1>1, <1>6 DEF ExitListed
  <2>2. Sees(<<>>)
    BY DEF Sees
  <2> QED  BY <2>1, <2>2, Zenon
<1> QED  BY <1>4, <1>5, <1>6

\* So do the moves of an edge, and what they write is no junk.
LEMMA MoveSees ==
  ASSUME DefinedKnown, Strict(graph), Uncrossed(graph), Junk \notin Nodes(graph),
         \A x, y : Junk # <<x, y>>,
         phase = "edge", pos \in DOMAIN moves[way]
  PROVE  /\ Sees(moves[way][pos].in)
         /\ Result(moves[way][pos].in) # Junk
<1> PICK p, in : p = moves[way][pos].dst /\ in = moves[way][pos].in
  OBVIOUS
<1> DEFINE m == graph.from[p][way]
<1>1. /\ way \in Edges(graph) /\ way[1] = at /\ graph \in Graphs
      /\ p \in Phis(graph) /\ way \in DOMAIN graph.from[p] /\ in = MoveOperands(p, way)
  BY MoveOfPhi DEF DefinedKnown, RunKnown, InParallel, Underway, ListingKnown, RegistersKnown
<1>2. /\ m \in Nodes(graph)
      /\ m \in Defined(graph) => Dominates(graph, graph.block[m], at)
  BY <1>1, KnownGraph DEF WellFormed, Uses, Phis, OfKind, Strict
<1>3. CASE graph.kind[m] = "cmp"
  <2> DEFINE l == graph.in[m][1]
             r == graph.in[m][2]
  <2>1. m \in Defined(graph)
    BY <1>2, <1>3 DEF Defined, OfKind
  <2>2. \A i \in {1, 2} :
          LET o == graph.in[m][i]
          IN  /\ o \in Nodes(graph) /\ graph.kind[o] # "cmp"
              /\ o \in Defined(graph) => Dominates(graph, graph.block[o], at)
    BY <1>1, <1>2, <1>3, <2>1, ComparedDominates
  <2>3. /\ l \in Nodes(graph) /\ graph.kind[l] # "cmp"
        /\ l \in Defined(graph) => Dominates(graph, graph.block[l], at)
        /\ r \in Nodes(graph) /\ graph.kind[r] # "cmp"
        /\ r \in Defined(graph) => Dominates(graph, graph.block[r], at)
    BY <2>2
  <2>4. in = <<AsRegister(l), AsOperand(r)>>
    BY <1>1, <1>3 DEF MoveOperands, CompareOperands
  <2>5. l \notin Consts
    BY <1>1, <1>3 DEF Uncrossed, Consts, OfKind
  <2>6. Read(AsOperand(r)) # Junk /\ regs[l] # Junk
    BY <2>3, <2>5, ValueThere
  <2>7. Read(AsRegister(l)) # Junk
    BY <2>6 DEF Read, AsRegister
  <2>8. Sees(<<AsRegister(l), AsOperand(r)>>)
    BY <2>6, <2>7, SeesTwo, Zenon
  <2>9. Result(<<AsRegister(l), AsOperand(r)>>) # Junk
    <3>1. PICK x, y : x = Read(AsRegister(l)) /\ y = Read(AsOperand(r))
      OBVIOUS
    <3>2. Result(<<AsRegister(l), AsOperand(r)>>) = <<x, y>>
      BY <3>1, SeesTwo, Zenon
    <3>3. Junk # <<x, y>>
      OBVIOUS
    <3> QED  BY <3>2, <3>3, Zenon
  <2> QED  BY <2>4, <2>8, <2>9, Zenon
<1>4. CASE graph.kind[m] # "cmp"
  <2>1. in = <<AsOperand(m)>>
    BY <1>1, <1>4 DEF MoveOperands
  <2>2. Read(AsOperand(m)) # Junk
    BY <1>2, <1>4, ValueThere
  <2>3. Sees(<<AsOperand(m)>>) /\ Result(<<AsOperand(m)>>) # Junk
    BY <2>2 DEF Sees, Result
  <2> QED  BY <2>1, <2>3, Zenon
<1> QED  BY <1>3, <1>4

\* What is to be written where is said of the graph alone.
LEMMA ValuesFixed ==
  ASSUME graph' = graph
  PROVE  /\ Blocks(graph)' = Blocks(graph) /\ Nodes(graph)' = Nodes(graph)
         /\ OfKind(graph, {"param"})' = OfKind(graph, {"param"})
         /\ \A b : ValuesOf(b)' = ValuesOf(b) /\ PhisOf(graph, b)' = PhisOf(graph, b)
         /\ \A d, b : Dominates(graph, d, b)' <=> Dominates(graph, d, b)
BY DEF Blocks, Edges, ValuesOf, Computed, PhisOf, Phis, OfKind, Nodes, Dominates

\* A step in a block or on an edge that overwrites no value with junk.
LEMMA StaysWritten ==
  ASSUME DefinedKnown, graph' = graph, at' = at, phase' = phase, phase \in {"body", "edge"},
         RunKnown', \A n \in Nodes(graph) : regs[n] # Junk => regs'[n] # Junk,
         phase = "body" => \A n \in Ran' \ Ran : regs'[n] # Junk,
         phase = "body" => Ran \subseteq Nodes(graph),
         phase = "edge" => \A i \in 1..(pos' - 1) : (moves[way][i].dst)' \in Nodes(graph)
                                                  /\ regs'[(moves[way][i].dst)'] # Junk
  PROVE  DefinedKnown'
<1>1. ASSUME NEW b PROVE ValuesOf(b) \subseteq Nodes(graph) /\ PhisOf(graph, b) \subseteq Nodes(graph)
  BY DEF ValuesOf, PhisOf, Computed, Phis, OfKind
<1>2. \A n \in OfKind(graph, {"param"}) : regs'[n] # Junk
  BY DEF DefinedKnown, OfKind
<1>3. \A d \in Blocks(graph) \ {at} :
        Dominates(graph, d, at) => \A n \in ValuesOf(d) : regs'[n] # Junk
  BY <1>1 DEF DefinedKnown
<1>4. phase = "body" => \A n \in Ran' \cup PhisOf(graph, at) : regs'[n] # Junk
  BY <1>1 DEF DefinedKnown
<1>5. phase = "edge" => \A n \in ValuesOf(at) : regs'[n] # Junk
  BY <1>1 DEF DefinedKnown
<1> QED  BY <1>2, <1>3, <1>4, <1>5, ValuesFixed DEF DefinedKnown

\* Where the listing runs, what dominates the place was written.
LEMMA DefinedKnownInductive ==
  ASSUME \A g \in Graphs : Plain(g) /\ Strict(g),
         \A x, y : Junk # <<x, y>>
  PROVE  /\ Init => DefinedKnown
         /\ DefinedKnown /\ [Next]_vars => DefinedKnown'
<1>0. \A g \in Graphs : Uncrossed(g) /\ Plain(g) /\ Strict(g) /\ Junk \notin Nodes(g)
  BY GraphsAssumption DEF Plain
<1>1. ASSUME Init PROVE DefinedKnown
  <2>1. RunKnown /\ graph \in Graphs /\ phase = "first" /\ at = graph.entry
    BY <1>0, <1>1, RunKnownInductive DEF Init
  <2>2. \A n \in OfKind(graph, {"param"}) : regs[n] # Junk
    BY <1>0, <1>1 DEF Init, OfKind
  <2> QED  BY <2>1, <2>2 DEF DefinedKnown
<1>2. ASSUME DefinedKnown, [Next]_vars
      PROVE  DefinedKnown'
  <2>0. RunKnown' /\ graph \in Graphs /\ RunKnown
    BY <1>0, <1>2, RunKnownInductive DEF DefinedKnown, RunKnown, ListingKnown, RegistersKnown
  <2>1. CASE FirstPass \/ SecondPass
    <3>1. /\ UNCHANGED <<graph, at, regs>> /\ phase \in {"first", "second"} /\ phase' = "second"
      BY <2>1, WalkFixed DEF running
    <3> QED  BY <1>2, <2>0, <3>1, ValuesFixed DEF DefinedKnown
  <2>2. CASE Get
    <3>1. /\ UNCHANGED <<graph, at, regs, pos>> /\ phase = "second" /\ phase' = "body"
      BY <2>2 DEF Get, running
    <3>2. at = graph.entry /\ pos = 1
      BY <1>2, <3>1 DEF DefinedKnown, RunKnown
    <3>3. Ran' = {} /\ PhisOf(graph, at) = {}
      BY <1>0, <2>0, <3>1, <3>2 DEF Ran, Strict
    <3>4. \A d \in Blocks(graph) \ {at} : ~Dominates(graph, d, at)
      BY <3>2, DominatesAlongEdge
    <3> QED  BY <1>2, <2>0, <3>1, <3>3, <3>4, ValuesFixed DEF DefinedKnown
  <2>3. CASE Execute
    <3> DEFINE n == body[at][pos].dst
    <3>1. /\ n \in Emittable /\ n \in Nodes(graph)
          /\ \A m \in Nodes(graph) \ {n} : regs'[m] = regs[m]
          /\ n \in Consts => regs'[n] = n
          /\ n \notin Consts => \E r \in Fresh : regs' = [regs EXCEPT ![n] = r]
          /\ DOMAIN regs = Nodes(graph)
          /\ Ran' = Ran \cup {n}
          /\ UNCHANGED <<graph, at, phase>> /\ phase = "body"
      BY <2>0, <2>3, ExecuteWrites DEF RunKnown, InParallel
    <3>2. regs'[n] # Junk
      BY <1>0, <2>0, <3>1, GraphsAssumption
    <3>3. Ran \subseteq Nodes(graph)
      <4>1. \A i \in DOMAIN body[at] : body[at][i].dst \in Nodes(graph)
        BY <2>0, InstructionListed DEF RunKnown
      <4>2. \A i \in 1..(pos - 1) : i \in DOMAIN body[at]
        BY <2>0, <3>1, InstructionListed DEF RunKnown
      <4> QED  BY <4>1, <4>2 DEF Ran
    <3> HIDE DEF n
    <3> QED  BY <1>2, <2>0, <3>1, <3>2, <3>3, StaysWritten
  <2>4. CASE \E taken \in BOOLEAN : Leave(taken)
    <3>1. /\ UNCHANGED <<graph, at, regs>> /\ phase = "body" /\ phase' = "edge" /\ pos' = 1
          /\ pos = Len(body[at]) + 1
      BY <2>4 DEF Leave
    <3>2. \A n \in ValuesOf(at) : regs[n] # Junk
      <4> TAKE n \in ValuesOf(at)
      <4>1. Dsts(body[at]) \cap Computed(graph) = {m \in Computed(graph) : graph.block[m] = at}
        BY <2>0, <3>1, ListedInBlock DEF RunKnown
      <4>2. n \in Ran \cup PhisOf(graph, at)
        BY <2>0, <3>1, <4>1, AllRan DEF ValuesOf, PhisOf
      <4> QED  BY <1>2, <3>1, <4>2 DEF DefinedKnown
    <3>3. 1..(pos' - 1) = {}
      BY <3>1
    <3> QED  BY <1>2, <2>0, <3>1, <3>2, <3>3, ValuesFixed DEF DefinedKnown
  <2>5. CASE MovePhi
    <3> DEFINE dst == moves[way][pos].dst
    <3>1. /\ UNCHANGED <<graph, at, phase, moves, way>> /\ phase = "edge"
          /\ pos \in DOMAIN moves[way] /\ pos' = pos + 1
          /\ regs' = [regs EXCEPT ![dst] = Result(moves[way][pos].in)]
      BY <2>5 DEF MovePhi, walking
    <3>2. Result(moves[way][pos].in) # Junk
      BY <1>0, <1>2, <2>0, <3>1, MoveSees
    <3>3. /\ way \in Edges(graph) /\ MovesKnown /\ DOMAIN regs = Nodes(graph)
          /\ DOMAIN moves[way] = 1..Len(moves[way]) /\ Len(moves[way]) \in Nat
          /\ \A i \in DOMAIN moves[way] : moves[way][i].dst \in Nodes(graph)
      BY <2>0, <3>1, MoveOfPhi DEF RunKnown, InParallel, Underway, Phis, OfKind
    <3>4. \A m \in Nodes(graph) : regs'[m] = IF m = dst THEN Result(moves[way][pos].in) ELSE regs[m]
      BY <3>1, <3>3
    <3>5. \A i \in 1..(pos' - 1) : (moves[way][i].dst)' \in Nodes(graph)
                                 /\ regs'[(moves[way][i].dst)'] # Junk
      <4> TAKE i \in 1..(pos' - 1)
      <4>1. i \in 1..(pos - 1) \/ i = pos
        BY <3>1, <3>3
      <4>2. i \in DOMAIN moves[way]
        BY <3>1, <3>3, <4>1
      <4>3. regs[moves[way][i].dst] # Junk \/ moves[way][i].dst = dst
        BY <1>2, <3>1, <4>1 DEF DefinedKnown
      <4> QED  BY <3>1, <3>2, <3>3, <3>4, <4>2, <4>3
    <3>6. \A m \in Nodes(graph) : regs[m] # Junk => regs'[m] # Junk
      BY <3>2, <3>4
    <3> QED  BY <1>2, <2>0, <3>1, <3>5, <3>6, StaysWritten
  <2>6. CASE Enter
    <3>1. /\ UNCHANGED <<graph, regs>> /\ phase = "edge" /\ phase' = "body"
          /\ pos = Len(moves[way]) + 1 /\ at' = graph.succ[way] /\ pos' = 1
      BY <2>6 DEF Enter
    <3>2. /\ way \in Edges(graph) /\ way[1] = at /\ MovedOnceOn(way)
          /\ Phis(graph) \subseteq visited
      BY <2>0, <3>1 DEF RunKnown, InParallel, Underway, MovesKnown, MovedOnce, Phis, OfKind
    <3>3. Ran' = {}
      BY <3>1 DEF Ran
    <3>4. \A n \in PhisOf(graph, graph.succ[way]) : regs[n] # Junk
      <4> TAKE n \in PhisOf(graph, graph.succ[way])
      <4>1. PICK i \in DOMAIN moves[way] : moves[way][i].dst = n
        BY <3>2 DEF MovedOnceOn, PhisOf
      <4>2. i \in 1..(pos - 1)
        BY <2>0, <3>1, <3>2, <4>1, MoveOfPhi DEF RunKnown, InParallel
      <4> QED  BY <1>2, <3>1, <4>1, <4>2 DEF DefinedKnown
    <3>5. ASSUME NEW d \in Blocks(graph), d # graph.succ[way], Dominates(graph, d, graph.succ[way]),
                 NEW n \in ValuesOf(d)
          PROVE  regs[n] # Junk
      <4>1. Dominates(graph, d, at)
        BY <3>2, <3>5, DominatesAlongEdge
      <4> QED  BY <1>2, <3>1, <3>5, <4>1 DEF DefinedKnown
    <3> QED  BY <1>2, <2>0, <3>1, <3>3, <3>4, <3>5, ValuesFixed DEF DefinedKnown
  <2>7. CASE Return
    <3>1. UNCHANGED <<graph, regs>> /\ phase' = "returned"
      BY <2>7 DEF Return
    <3> QED  BY <1>2, <2>0, <3>1, ValuesFixed DEF DefinedKnown
  <2>8. CASE UNCHANGED vars
    <3>1. UNCHANGED <<graph, phase, body, moves, at, way, pos, regs>>
      BY <2>8 DEF vars, walking, running
    <3>2. Ran' = Ran
      BY <3>1 DEF Ran
    <3> QED  BY <1>2, <2>0, <3>1, <3>2, ValuesFixed DEF DefinedKnown
  <2> QED  BY <1>2, <2>1, <2>2, <2>3, <2>4, <2>5, <2>6, <2>7, <2>8 DEF Next
<1> QED  BY <1>1, <1>2

\* No instruction of the listing reads a register nothing was written to,
\* where definitions dominate their uses: the argument is by the dominators
\* of the block being run, all of whose values were computed on the way.
THEOREM RegistersWrittenFirst ==
  ASSUME \A g \in Graphs : Plain(g) /\ Strict(g),
         \A x, y : Junk # <<x, y>>
  PROVE  Spec => []DefinedBeforeUse
<1>1. DefinedKnown => DefinedBeforeUse
  <2> SUFFICES ASSUME DefinedKnown PROVE DefinedBeforeUse
    OBVIOUS
  <2>1. Strict(graph) /\ Uncrossed(graph) /\ Junk \notin Nodes(graph)
    BY GraphsAssumption DEF DefinedKnown, RunKnown, ListingKnown, RegistersKnown, Plain
  <2> QED  BY <2>1, BodySees, JumpSees, MoveSees DEF DefinedBeforeUse
<1> QED  BY <1>1, DefinedKnownInductive, PTL DEF Spec
-----------------------------------------------------------------------------
(* Types, whatever the graphs. *)

Typed ==
  /\ TypeOK /\ RegistersKnown /\ MovesKnown
  /\ \A b \in Blocks(graph) : body[b] \in Seq({InstructionOf(n) : n \in Emittable})
  /\ phase \in {"first", "second"} => pos = 1

\* Loads are instructions of constants.
LEMMA LoadsTyped ==
  ASSUME graph \in Graphs, NEW ns \in SUBSET Nodes(graph)
  PROVE  Loads(ns) \in Seq({InstructionOf(n) : n \in Emittable})
<1> DEFINE loads == {Instruction(n, <<<<"imm", n>>>>) : n \in Unloaded(ns)}
           f == [n \in Unloaded(ns) |-> Instruction(n, <<<<"imm", n>>>>)]
<1>1. IsFiniteSet(Unloaded(ns))
  <2>1. IsFiniteSet(Nodes(graph)) /\ Unloaded(ns) \in SUBSET Nodes(graph)
    BY GraphsAssumption DEF Unloaded
  <2> QED  BY <2>1, FS_Subset
<1>2. f \in Surjection(Unloaded(ns), loads)
  BY DEF Surjection
<1>3. IsFiniteSet(loads)
  BY <1>1, <1>2, FS_Surjection
<1>4. loads \subseteq {InstructionOf(n) : n \in Emittable}
  <2> SUFFICES ASSUME NEW n \in Unloaded(ns)
               PROVE  n \in Emittable /\ InstructionOf(n) = Instruction(n, <<<<"imm", n>>>>)
    OBVIOUS
  <2> QED  BY DEF Unloaded, Emittable, OfKind, InstructionOf
<1> HIDE DEF loads
<1>5. SetToSeq(loads) \in Seq(loads)
  BY <1>3, ListOfFinite
<1>6. \A S, T : \A s \in Seq(S) : S \subseteq T => s \in Seq(T)
  OBVIOUS
<1>7. SetToSeq(loads) \in Seq({InstructionOf(n) : n \in Emittable})
  BY <1>4, <1>5, <1>6
<1> QED  BY <1>7 DEF Loads, loads

\* What a step of the second pass leaves as it was, and what its list is made of.
LEMMA WalkTyped ==
  ASSUME Typed, RegistersKnown', MovesKnown', graph' = graph, running' = running, phase' = "second",
         phase = "second",
         visited' \subseteq Nodes(graph) \cup Blocks(graph), registers' \subseteq Nodes(graph),
         DOMAIN body' = DOMAIN body, DOMAIN jump' = DOMAIN jump, DOMAIN moves' = DOMAIN moves,
         \A b \in Blocks(graph) : body'[b] \in Seq({InstructionOf(n) : n \in Emittable})
  PROVE  Typed'
<1>1. \A b \in Blocks(graph) : (body[b] \in Seq({InstructionOf(n) : n \in Emittable}))'
  BY GraphFixed
<1>2. at' = at /\ pos' = pos /\ regs' = regs
  BY DEF running
<1>3. TypeOK'
  BY <1>2 DEF Typed, TypeOK, Nodes, Blocks, Edges
<1> QED  BY <1>1, <1>2, <1>3 DEF Typed, Blocks

\* Lists of instructions put together are lists of instructions.
LEMMA Appending ==
  ASSUME NEW S, NEW s \in Seq(S), NEW t \in Seq(S), NEW x \in S
  PROVE  /\ s \o t \in Seq(S) /\ Append(s, x) \in Seq(S) /\ s \o t \o <<x>> \in Seq(S)
OBVIOUS

\* The list of one block gets longer by loads and at most one instruction.
LEMMA LongerTyped ==
  ASSUME Typed, NEW b \in Blocks(graph), NEW ns \in SUBSET Nodes(graph), NEW n, NEW list,
         \/ list = body[b] \o Loads(ns)
         \/ n \in Emittable /\ list = body[b] \o Loads(ns) \o <<InstructionOf(n)>>
         \/ n \in Emittable /\ list = Append(body[b], InstructionOf(n)),
         body' = [body EXCEPT ![b] = list]
  PROVE  /\ DOMAIN body' = DOMAIN body
         /\ \A c \in Blocks(graph) : body'[c] \in Seq({InstructionOf(m) : m \in Emittable})
<1> DEFINE S == {InstructionOf(m) : m \in Emittable}
<1>1. Loads(ns) \in Seq(S) /\ body[b] \in Seq(S) /\ DOMAIN body = Blocks(graph)
  BY LoadsTyped DEF Typed, TypeOK
<1>2. n \in Emittable => InstructionOf(n) \in S
  OBVIOUS
<1>3. \A c \in Blocks(graph) : body[c] \in Seq(S)
  BY DEF Typed
<1> HIDE DEF S
<1>4. list \in Seq(S)
  <2>1. CASE list = body[b] \o Loads(ns)
    BY <1>1, <2>1
  <2>2. CASE n \in Emittable /\ list = body[b] \o Loads(ns) \o <<InstructionOf(n)>>
    BY <1>1, <1>2, <2>2, Appending
  <2>3. CASE n \in Emittable /\ list = Append(body[b], InstructionOf(n))
    BY <1>1, <1>2, <2>3
  <2> QED  BY <2>1, <2>2, <2>3
<1>5. \A c \in Blocks(graph) : body'[c] \in Seq(S) /\ DOMAIN body' = DOMAIN body
  BY <1>1, <1>3, <1>4
<1> QED  BY <1>5 DEF S

LEMMA VisitTyped ==
  ASSUME Typed, RegistersKnown', MovesKnown', NEW n \in Nodes(graph),
         \/ VisitOperation(n) \/ VisitConversion(n) \/ VisitCompare(n)
         \/ VisitDataPhi(n) \/ VisitFlagsPhi(n) \/ VisitOther(n)
  PROVE  Typed'
<1> DEFINE b == graph.block[n]
           S == {InstructionOf(m) : m \in Emittable}
           Grown == /\ DOMAIN body' = DOMAIN body
                    /\ \A c \in Blocks(graph) : body'[c] \in Seq(S)
<1>0. /\ graph \in Graphs /\ WellFormed(graph) /\ DOMAIN body = Blocks(graph)
      /\ DOMAIN moves = Edges(graph) /\ registers \subseteq Nodes(graph)
      /\ visited \subseteq Nodes(graph) \cup Blocks(graph)
      /\ \A c \in Blocks(graph) : body[c] \in Seq(S)
  BY KnownGraph DEF Typed, TypeOK
<1>1. b \in Blocks(graph)
  BY <1>0 DEF WellFormed
<1>2. ASSUME NEW new \in SUBSET Nodes(graph), Visit(n, new), jump' = jump,
             DOMAIN moves' = DOMAIN moves, Grown
      PROVE  Typed'
  <2>1. /\ graph' = graph /\ running' = running /\ phase = "second" /\ phase' = "second"
        /\ visited' = visited \cup {n} /\ registers' = registers \cup new
    BY <1>2 DEF Visit
  <2> QED  BY <1>0, <1>2, <2>1, WalkTyped
<1>3. CASE VisitOperation(n)
  <2>1. /\ Visit(n, {n}) /\ UNCHANGED <<jump, moves>> /\ n \in Emittable
        /\ body' = [body EXCEPT ![b] = Append(body[b], InstructionOf(n))]
    BY <1>3 DEF VisitOperation, Emittable, OfKind, InstructionOf
  <2>2. Grown
    BY <1>1, <2>1, LongerTyped
  <2> QED  BY <1>2, <2>1, <2>2
<1>4. CASE VisitConversion(n)
  <2> DEFINE src == graph.in[n][1]
  <2>1. /\ Visit(n, {n, src}) /\ UNCHANGED <<jump, moves>> /\ graph.kind[n] = "conv"
        /\ n \in Emittable
        /\ body' = [body EXCEPT ![b] = body[b] \o Loads({src}) \o <<InstructionOf(n)>>]
    BY <1>4 DEF VisitConversion, Emittable, OfKind, InstructionOf
  <2>2. src \in Nodes(graph)
    <3>1. DOMAIN graph.in[n] = {1}
      BY <1>0, <2>1 DEF WellFormed, OfKind
    <3> QED  BY <1>0, <2>1, <3>1, OperandsKnown
  <2>3. Grown
    BY <1>1, <2>1, <2>2, LongerTyped
  <2> QED  BY <1>2, <2>1, <2>2, <2>3
<1>5. CASE VisitFlagsPhi(n)
  <2> DEFINE compares == {u \in Uses(graph, n) : graph.kind[u] = "cmp"}
             lefts == {graph.in[m][1] : m \in compares}
  <2>1. /\ Visit(n, lefts) /\ moves' = MovesOn(n) /\ jump' = jump
        /\ body' = [body EXCEPT ![b] = body[b] \o Loads(lefts)]
    BY <1>5 DEF VisitFlagsPhi
  <2>2. \A m \in compares : graph.in[m][1] \in Nodes(graph)
    <3> TAKE m \in compares
    <3>1. m \in Nodes(graph) /\ graph.kind[m] = "cmp"
      BY <1>0 DEF WellFormed
    <3>2. DOMAIN graph.in[m] = {1, 2}
      BY <1>0, <3>1 DEF WellFormed, OfKind
    <3> QED  BY <1>0, <3>1, <3>2, OperandsKnown
  <2>3. lefts \in SUBSET Nodes(graph)
    BY <2>2
  <2> HIDE DEF lefts
  <2>4. Grown
    BY <1>1, <2>1, <2>3, LongerTyped
  <2> QED  BY <1>2, <2>1, <2>3, <2>4 DEF MovesOn
<1>6. CASE VisitCompare(n) \/ VisitOther(n) \/ VisitDataPhi(n)
  <2>1. PICK new \in SUBSET Nodes(graph) :
          Visit(n, new) /\ UNCHANGED <<body, jump>> /\ (moves' = moves \/ moves' = MovesOn(n))
    BY <1>6 DEF VisitCompare, VisitOther, VisitDataPhi
  <2> QED  BY <1>0, <1>2, <2>1 DEF MovesOn
<1> QED  BY <1>3, <1>4, <1>5, <1>6

LEMMA ExitTyped ==
  ASSUME Typed, RegistersKnown', MovesKnown', NEW b \in Blocks(graph), VisitExit(b)
  PROVE  Typed'
<1> DEFINE s == graph.exit[b][2]
           left == IF Compares(b) THEN {graph.in[s][1]} ELSE {}
           S == {InstructionOf(m) : m \in Emittable}
<1>0. /\ graph \in Graphs /\ WellFormed(graph) /\ DOMAIN body = Blocks(graph)
      /\ registers \subseteq Nodes(graph) /\ visited \subseteq Nodes(graph) \cup Blocks(graph)
  BY KnownGraph DEF Typed, TypeOK
<1>1. /\ graph' = graph /\ running' = running /\ phase = "second" /\ phase' = "second"
      /\ visited' = visited \cup {b} /\ registers' = registers \cup left
      /\ body' = [body EXCEPT ![b] = body[b] \o Loads(left)]
      /\ DOMAIN jump' = DOMAIN jump /\ moves' = moves
  BY DEF VisitExit
<1>2. left \in SUBSET Nodes(graph)
  <2>1. CASE Compares(b)
    <3>1. s \in Nodes(graph) /\ graph.kind[s] = "cmp"
      BY <1>0, <2>1 DEF Compares, Selects, WellFormed
    <3>2. DOMAIN graph.in[s] = {1, 2}
      BY <1>0, <3>1 DEF WellFormed, OfKind
    <3> QED  BY <1>0, <3>1, <3>2, OperandsKnown
  <2> QED  BY <2>1
<1> HIDE DEF left
<1>3. /\ DOMAIN body' = DOMAIN body
      /\ \A c \in Blocks(graph) : body'[c] \in Seq(S)
  BY <1>1, <1>2, LongerTyped
<1> QED  BY <1>0, <1>1, <1>2, <1>3, WalkTyped

\* Every step keeps the types.
LEMMA TypedInductive ==
  /\ Init => Typed
  /\ Typed /\ [Next]_vars => Typed'
<1>1. ASSUME Init PROVE Typed
  <2>1. RegistersKnown /\ MovesKnown /\ WellFormed(graph)
    BY <1>1, RegistersKnownInductive, MovesKnownInductive, KnownGraph DEF Init
  <2>2. \A b \in Blocks(graph) : body[b] = <<>>
    BY <1>1 DEF Init
  <2>3. TypeOK
    BY <1>1, <2>1 DEF Init, TypeOK, WellFormed
  <2>4. \A S : <<>> \in Seq(S)
    OBVIOUS
  <2> QED  BY <1>1, <2>1, <2>2, <2>3, <2>4 DEF Typed, Init
<1>2. ASSUME Typed, [Next]_vars
      PROVE  Typed'
  <2> DEFINE S == {InstructionOf(m) : m \in Emittable}
  <2>0. /\ RegistersKnown' /\ MovesKnown' /\ MovesKnown
        /\ WellFormed(graph) /\ \A b \in Blocks(graph) : body[b] \in Seq(S)
    BY <1>2, RegistersKnownInductive, MovesKnownInductive, KnownGraph DEF Typed, RegistersKnown
  <2>1. CASE FirstPass
    <3>1. /\ UNCHANGED <<graph, visited, body, jump, moves, running>> /\ phase' = "second" /\ phase = "first"
          /\ registers' \subseteq Nodes(graph)
      BY <2>1 DEF FirstPass, Phis, OfKind
    <3>2. at' = at /\ pos' = pos /\ regs' = regs
      BY <3>1 DEF running
    <3>3. TypeOK'
      BY <1>2, <3>1, <3>2 DEF Typed, TypeOK, Nodes, Blocks, Edges
    <3>4. \A b \in Blocks(graph) : (body[b] \in Seq(S))'
      BY <2>0, <3>1, GraphFixed
    <3> QED  BY <1>2, <2>0, <3>1, <3>2, <3>3, <3>4 DEF Typed, Blocks
  <2>2. CASE SecondPass
    BY <1>2, <2>0, <2>2, VisitTyped, ExitTyped DEF SecondPass
  <2>3. CASE /\ UNCHANGED <<graph, walking>> /\ TypeOK'
             /\ phase' \in {"first", "second"} => pos' = 1
    <3>1. \A b \in Blocks(graph) : (body[b] \in Seq(S))'
      BY <2>0, <2>3, GraphFixed DEF walking
    <3> QED  BY <1>2, <2>0, <2>3, <3>1 DEF Typed, Blocks
  <2>4. ASSUME NEW b \in Blocks(graph)
        PROVE  DOMAIN body[b] = 1..Len(body[b]) /\ Len(body[b]) \in Nat
    BY <2>0 DEF S
  <2>5. ASSUME NEW e \in Edges(graph)
        PROVE  DOMAIN moves[e] = 1..Len(moves[e]) /\ Len(moves[e]) \in Nat
    BY <2>0 DEF MovesKnown, MovedOnce, MovedOnceOn
  <2> HIDE DEF S
  <2>6. CASE Get
    <3>1. /\ UNCHANGED <<graph, registers, visited, body, jump, moves, at, pos, regs>>
          /\ phase = "second" /\ phase' = "body"
      BY <2>6 DEF Get, walking, running
    <3>2. TypeOK'
      BY <1>2, <2>4, <3>1 DEF Typed, TypeOK, Nodes, Blocks, Edges
    <3> QED  BY <2>3, <2>6, <3>1, <3>2 DEF Get
  <2>7. CASE Execute
    <3>1. /\ UNCHANGED <<graph, phase, registers, visited, body, jump, moves, at>>
          /\ phase = "body" /\ pos \in DOMAIN body[at] /\ pos' = pos + 1
          /\ DOMAIN regs' = DOMAIN regs
      BY <2>7 DEF Execute, walking
    <3>2. TypeOK'
      BY <1>2, <2>4, <3>1 DEF Typed, TypeOK, Nodes, Blocks, Edges
    <3> QED  BY <2>3, <2>7, <3>1, <3>2 DEF Execute
  <2>8. CASE \E taken \in BOOLEAN : Leave(taken)
    <3>1. /\ UNCHANGED <<graph, registers, visited, body, jump, moves, at, regs>>
          /\ phase' = "edge" /\ way' \in Edges(graph) /\ pos' = 1 /\ walking' = walking
      BY <2>8 DEF Leave, walking
    <3>2. TypeOK'
      BY <1>2, <2>5, <3>1 DEF Typed, TypeOK, Nodes, Blocks, Edges
    <3> QED  BY <2>3, <3>1, <3>2
  <2>9. CASE MovePhi
    <3>1. /\ UNCHANGED <<graph, phase, registers, visited, body, jump, moves, at, way>>
          /\ phase = "edge" /\ pos \in DOMAIN moves[way] /\ pos' = pos + 1
          /\ DOMAIN regs' = DOMAIN regs
      BY <2>9 DEF MovePhi, walking
    <3>2. way \in Edges(graph)
      BY <1>2, <3>1 DEF Typed, TypeOK
    <3>3. pos' \in 1..(Len(moves[way]) + 1)
      BY <2>5, <3>1, <3>2
    <3>4. TypeOK'
      BY <1>2, <3>1, <3>2, <3>3 DEF Typed, TypeOK, Nodes, Blocks, Edges
    <3> QED  BY <2>3, <2>9, <3>1, <3>4 DEF MovePhi
  <2>10. CASE Enter
    <3>1. /\ UNCHANGED <<graph, registers, visited, body, jump, moves, regs>>
          /\ phase = "edge" /\ phase' = "body" /\ at' = graph.succ[way] /\ pos' = 1
      BY <2>10 DEF Enter, walking
    <3>2. graph.succ[way] \in Blocks(graph)
      BY <1>2, <2>0, <3>1 DEF Typed, TypeOK, WellFormed
    <3>3. Len(body[graph.succ[way]]) \in Nat
      BY <2>4, <3>2
    <3>4. TypeOK'
      BY <1>2, <3>1, <3>2, <3>3 DEF Typed, TypeOK, Nodes, Blocks, Edges
    <3> QED  BY <2>3, <2>10, <3>1, <3>4 DEF Enter
  <2>11. CASE Return
    <3>1. /\ UNCHANGED <<graph, registers, visited, body, jump, moves, at, regs>>
          /\ phase' = "returned" /\ walking' = walking
      BY <2>11 DEF Return, walking
    <3>2. TypeOK'
      BY <1>2, <3>1 DEF Typed, TypeOK, Nodes, Blocks, Edges
    <3> QED  BY <2>3, <3>1, <3>2
  <2>12. CASE UNCHANGED vars
    <3>1. UNCHANGED <<graph, phase, registers, visited, body, jump, moves, at, way, pos, regs>>
          /\ walking' = walking
      BY <2>12 DEF vars, walking, running
    <3>2. TypeOK'
      BY <1>2, <3>1 DEF Typed, TypeOK, Nodes, Blocks, Edges
    <3> QED  BY <1>2, <2>3, <3>1, <3>2 DEF Typed
  <2> QED  BY <1>2, <2>1, <2>2, <2>6, <2>7, <2>8, <2>9, <2>10, <2>11, <2>12 DEF Next
<1> QED  BY <1>1, <1>2

\* Every well-formed graph is turned into lists in which the run of the
\* listing never leaves its place.
THEOREM GeneratorTypes == Spec => []TypeOK
<1>1. Typed => TypeOK
  BY DEF Typed
<1> QED  BY <1>1, TypedInductive, PTL DEF Spec
=============================================================================
