---------------------- MODULE StaticSingleAssignment ----------------------
(***************************************************************************)
(* What a lowered graph means (src/src/core/asm/generator.hpp: "lowered    *)
(* and optimized Firm IRG"): in the current block every node is computed   *)
(* once, after its operands; when control goes to the next block, all of   *)
(* that block's phis take the values of their operands at the same time.   *)
(* Operations and branch outcomes are uninterpreted; `event' shows the     *)
(* values they were applied to.                                            *)
(***************************************************************************)
EXTENDS ProgramGraph

CONSTANTS Graphs, Fresh, Junk

VARIABLES
  graph,
  at,       \* the current block
  done,     \* nodes of it computed since it was entered
  val,      \* values of parameters, computed nodes and phis
  event,
  running

vars == <<graph, at, done, val, event, running>>

Value(n) == IF graph.kind[n] = "const" THEN n ELSE val[n]
Compared(n) == <<Value(graph.in[n][1]), Value(graph.in[n][2])>>
Taken(n) == IF graph.kind[n] = "cmp" THEN Compared(n) ELSE Value(n)

Init ==
  /\ graph \in Graphs
  /\ at = graph.entry
  /\ done = {}
  /\ val = [n \in Stored(graph) |-> IF graph.kind[n] = "param" THEN n ELSE Junk]
  /\ event = <<"start">>
  /\ running = TRUE

InBlock == {n \in Computed(graph) : graph.block[n] = at}

Compute(n) ==
  /\ running
  /\ n \in InBlock \ done
  /\ Operands(graph, n) \cap InBlock \subseteq done
  /\ \E r \in Fresh : val' = [val EXCEPT ![n] = r]
  /\ event' = <<"compute", n, [i \in DOMAIN graph.in[n] |-> Value(graph.in[n][i])]>>
  /\ done' = done \cup {n}
  /\ UNCHANGED <<graph, at, running>>

\* Phis are a parallel assignment.
Leave(taken) ==
  LET e == <<at, taken>>
      phis == PhisOf(graph, graph.succ[e])
  IN  /\ running
      /\ done = InBlock
      /\ e \in Edges(graph)
      /\ event' = IF graph.exit[at][1] = "cond"
                  THEN <<"branch", Taken(graph.exit[at][2]), taken>>
                  ELSE <<"jump">>
      /\ val' = [n \in DOMAIN val |-> IF n \in phis THEN Taken(graph.from[n][e]) ELSE val[n]]
      /\ at' = graph.succ[e]
      /\ done' = {}
      /\ UNCHANGED <<graph, running>>

Return ==
  /\ running
  /\ done = InBlock
  /\ graph.exit[at][1] = "ret"
  /\ event' = <<"return", Value(graph.exit[at][2])>>
  /\ running' = FALSE
  /\ UNCHANGED <<graph, at, done, val>>

Next ==
  \/ \E n \in Computed(graph) : Compute(n)
  \/ \E taken \in BOOLEAN : Leave(taken)
  \/ Return

Spec == Init /\ [][Next]_vars
=============================================================================
