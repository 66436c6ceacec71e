----------------------------- MODULE GraphRun -----------------------------
(***************************************************************************)
(* What a graph means to somebody who sees which operations it performs:   *)
(* control goes from block to block, a block computes each of its nodes    *)
(* once in any order that has the operands first, and the Phis of the next *)
(* block take their values all at once.                                    *)
(***************************************************************************)
EXTENDS FirmNodes

CONSTANT Results \* what an operation that is not arithmetic may yield

VARIABLES
  graph,
  at,    \* the block control is in
  env,   \* the values computed on the way here, those of a block since it was entered
  event  \* the last operation performed, and on what

runVars == <<graph, at, env, event>>

NoEvent == [node |-> 0, operands |-> <<>>]

\* Constants need not be computed; jumps and conditions only direct control.
IsComputed(node) ==
  /\ node.op \notin {"Const", "Phi", "Deleted", "Jmp", "Bad", "Cond"}
  /\ ~(node.op = "Proj" /\ node.mode = "X")

IsKnown(n) == graph.nodes[n].op = "Const" \/ n \in DOMAIN env
Value(n) == IF graph.nodes[n].op = "Const" THEN graph.nodes[n].attr ELSE env[n]

Fresh == at = StartBlock /\ env = <<>> /\ event = NoEvent

\* A graph may be worked on until it runs.
Rewrite == Fresh /\ Fresh'

Compute(n) ==
  LET node == graph.nodes[n]
      operands == [i \in DOMAIN node.in |-> Value(node.in[i])]
      yields(v) == env' = [m \in DOMAIN env \cup {n} |-> IF m = n THEN v ELSE env[m]]
  IN /\ IsComputed(node) /\ node.block = at /\ n \notin DOMAIN env
     /\ \A i \in DOMAIN node.in : IsKnown(node.in[i])
     /\ \/ node.op \in Pure /\ yields(Computed(node, operands)) /\ UNCHANGED event
        \/ /\ node.op \notin Pure
           /\ \E r \in Results : yields(r)
           /\ event' = [node |-> n, operands |-> operands]
     /\ UNCHANGED <<graph, at>>

\* Control can leave by this node.
IsTaken(node) ==
  \/ node.op \in {"Jmp", "Return"}
  \/ /\ node.op = "Proj" /\ node.mode = "X"
     /\ LET condition == graph.nodes[node.in[1]].in[1]
        IN IsKnown(condition) /\ Value(condition) = (node.attr = "true")

\* Control enters block b by its k-th edge.
Enter(b, k) ==
  LET x == graph.nodes[graph.blocks[b].preds[k]]
      phis == {n \in DOMAIN graph.nodes : graph.nodes[n].block = b /\ graph.nodes[n].op = "Phi"}
      kept == {n \in DOMAIN env : graph.nodes[n].block # b}
  IN /\ x.block = at /\ IsTaken(x)
     /\ \A n \in DOMAIN graph.nodes :
          graph.nodes[n].block = at /\ IsComputed(graph.nodes[n]) => n \in DOMAIN env
     /\ \A n \in phis : IsKnown(graph.nodes[n].in[k])
     /\ at' = b
     /\ env' = [n \in kept \cup phis |->
                  IF n \in phis THEN Value(graph.nodes[n].in[k]) ELSE env[n]]
     /\ UNCHANGED <<graph, event>>

Next ==
  \/ Rewrite
  \/ \E n \in DOMAIN graph.nodes : Compute(n)
  \/ \E b \in DOMAIN graph.blocks : \E k \in DOMAIN graph.blocks[b].preds : Enter(b, k)

Spec == Fresh /\ [][Next]_runVars
=============================================================================
