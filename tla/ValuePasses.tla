---------------------------- MODULE ValuePasses ----------------------------
(***************************************************************************)
(* Constant folding and constant conditions on one graph, a node of the    *)
(* worklist at a time (src/src/core/opt/opt.cpp with folding.cpp and       *)
(* conditional.cpp); then the graph as it was runs, and the one that was   *)
(* made of it can do what it does.                                         *)
(***************************************************************************)
EXTENDS Folding

CONSTANTS
  Inputs,       \* the graphs a pass may get
  Results,      \* see GraphRun
  WalkOrder(_)  \* in what order libfirm walks through a graph

ASSUME InputsAssumption ==
  \A g \in Inputs : WellFormed(g) /\ WalkOrder(g) \in Seq(DOMAIN g.nodes)
ASSUME ResultsAssumption == Results \subseteq Int

VARIABLES
  pass,   \* which pass it is
  source, \* the graph it gets
  work,   \* its worklist, see FirmNodes
  stage,  \* "handle", "cleanup" or "run"
  at, env, event \* the source as it runs, see GraphRun

valueVars == <<pass, source, work, stage, at, env, event>>
passVars == <<pass, source, work, stage>>
runVars == <<at, env, event>>

Source == INSTANCE GraphRun WITH graph <- source

-----------------------------------------------------------------------------
ValueInit ==
  /\ pass \in {"folding", "conditional"}
  /\ source \in Inputs
  /\ work = [NewWorklist(source) EXCEPT !.queue = WalkOrder(source)]
  /\ stage = "handle"
  /\ Source!Fresh

Handle ==
  /\ stage = "handle" /\ work.queue # <<>>
  /\ LET n == Head(work.queue)
     IN work' = Requeued(handle_value(pass, [work EXCEPT !.queue = Tail(@)], n), n)
  /\ UNCHANGED <<pass, source, stage, runVars>>

BeginCleanup ==
  /\ stage = "handle" /\ work.queue = <<>>
  /\ work' = [work EXCEPT !.queue = WalkOrder(work.g)]
  /\ stage' = "cleanup"
  /\ UNCHANGED <<pass, source, runVars>>

Cleanup ==
  /\ stage = "cleanup" /\ work.queue # <<>>
  /\ work' = cleanup_value(pass, [work EXCEPT !.queue = Tail(@)], Head(work.queue))
  /\ UNCHANGED <<pass, source, stage, runVars>>

Finish ==
  /\ stage = "cleanup" /\ work.queue = <<>>
  /\ stage' = "run"
  /\ UNCHANGED <<pass, source, work, runVars>>

SourceRuns ==
  /\ stage = "run"
  /\ \/ \E n \in DOMAIN source.nodes : Source!Compute(n)
     \/ \E b \in DOMAIN source.blocks : \E k \in DOMAIN source.blocks[b].preds : Source!Enter(b, k)
  /\ UNCHANGED passVars

ValueNext == Handle \/ BeginCleanup \/ Cleanup \/ Finish \/ SourceRuns
ValueSpec == ValueInit /\ [][ValueNext]_valueVars

-----------------------------------------------------------------------------
(* Properties.                                                             *)

\* A value as the program sees it.
Denotes(tv, v) == v = IF tv.mode = "b" THEN tv.v = 1 ELSE tv.v

\* What a pass knows of a node is what the node yields whenever it is computed,
\* also in a loop whose Phis are handled before what they depend on.
LinkedValuesHold ==
  \A n \in DOMAIN env : work.link[n] \notin {NoTarval, BadTarval} => Denotes(work.link[n], env[n])

\* What has been computed of the nodes that are left.
Left == [n \in {m \in DOMAIN env : work.g.nodes[m].op # "Deleted"} |-> env[n]]

\* The graph that is left performs the same operations on the same operands and
\* takes the same edges, without the nodes that were replaced.
After == INSTANCE GraphRun WITH graph <- work.g, env <- Left
KeepsMeaning == After!Spec
=============================================================================
