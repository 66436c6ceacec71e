----------------------------- MODULE Optimizer -----------------------------
(***************************************************************************)
(* The optimizer (src/src/core/opt/opt.cpp) on the graphs the front end    *)
(* made: the passes asked for, one after the other, until none of them     *)
(* reports a change.                                                       *)
(***************************************************************************)
EXTENDS Frontend, Folding, MemoryPasses, ControlFlow, Loops, Inliner

CONSTANT Requests \* what the command line may ask for

\* passes: their names; at: the number of the next; count: the rounds before this
\* one; changed: a pass of this round has reported a change; result: the last did.
VARIABLE opt

optVars == <<ast, phase, info, consts, graphs, opt>>
NoOptimizer == [passes |-> <<>>, at |-> 1, count |-> 0, changed |-> FALSE, result |-> FALSE]

-----------------------------------------------------------------------------
(* The command line: -O0 to -O2, --opts for a set, --opts-ordered for a list. *)

get_optimization_names ==
  <<"unused_method", "folding", "load_store", "conditional", "unroll", "control_flow",
    "tailrec", "inliner", "gc">>

check_optimizations(names) == Range(names) \subseteq Range(get_optimization_names)
sort_optimizations(names) == SelectSeq(get_optimization_names, LAMBDA n : n \in Range(names))

get_optimizations(request) ==
  CASE request.option = "O" -> IF request.level = 0 THEN <<>>
                               ELSE IF request.level = 1 THEN <<"folding">> ELSE get_optimization_names
    [] request.option = "opts" -> sort_optimizations(request.names)
    [] request.option = "opts-ordered" -> request.names
    [] request.option = "none" -> get_optimization_names

-----------------------------------------------------------------------------
(* A worklist pass over one graph. *)

handle(pass, s, n) ==
  CASE pass = "load_store" -> handle_node(s, n)
    [] pass = "gc" -> gc_handle(s, n)
    [] OTHER -> handle_value(pass, s, n)

cleanup(pass, s, n) ==
  IF pass \in {"folding", "conditional"} THEN cleanup_value(pass, s, n) ELSE s

RECURSIVE run(_, _)
run(pass, s) ==
  LET n == Head(s.queue)
  IN IF s.queue = <<>> THEN s
     ELSE run(pass, Requeued(handle(pass, [s EXCEPT !.queue = Tail(@)], n), n))

RECURSIVE clean(_, _)
clean(pass, s) ==
  IF s.queue = <<>> THEN s
  ELSE clean(pass, cleanup(pass, [s EXCEPT !.queue = Tail(@)], Head(s.queue)))

worklist_optimization(pass, g) ==
  LET walk(s) == [s EXCEPT !.queue = irg_walk_topological(s.g)]
      done(s) == [g |-> remove_bads(s.g), changed |-> s.changed]
  IN done(clean(pass, walk(run(pass, walk(NewWorklist(g))))))

-----------------------------------------------------------------------------
(* The rounds. *)

max_count == 99

Optimize ==
  /\ phase = "compiled"
  /\ phase' = "optimizing"
  /\ graphs' = [p \in DOMAIN graphs |-> Constructed(graphs[p])]
  /\ \E request \in Requests :
       LET names == get_optimizations(request)
       IN check_optimizations(names) /\ opt' = [NoOptimizer EXCEPT !.passes = names]
  /\ UNCHANGED <<ast, info, consts>>

Running(pass) == phase = "optimizing" /\ opt.at <= Len(opt.passes) /\ opt.passes[opt.at] = pass
Report(result) ==
  /\ opt' = [opt EXCEPT !.at = @ + 1, !.changed = result \/ @, !.result = result]
  /\ UNCHANGED <<ast, phase, info, consts>>

\* A pass that takes one graph after the other.
OnEach(results) ==
  /\ graphs' = [p \in DOMAIN results |-> results[p].g]
  /\ Report(\E p \in DOMAIN results : results[p].changed)

Worklist(pass) ==
  Running(pass) /\ OnEach([p \in DOMAIN graphs |-> worklist_optimization(pass, graphs[p])])
ControlFlow_ ==
  Running("control_flow") /\ OnEach([p \in DOMAIN graphs |-> control_flow(graphs[p])])
TailRecursion_ ==
  Running("tailrec") /\ OnEach([p \in DOMAIN graphs |-> tailrec(graphs[p], p)])
Unroll ==
  Running("unroll") /\ OnEach([p \in DOMAIN graphs |-> unroll(graphs[p])])
UnusedMethod ==
  /\ Running("unused_method")
  /\ graphs' = unused_method(graphs, Main)
  /\ Report(graphs' # graphs)

Inlining ==
  LET result == inliner(graphs, Main)
  IN Running("inliner") /\ graphs' = result.graphs /\ Report(result.changed)

EndOfRound == phase = "optimizing" /\ opt.at > Len(opt.passes)
NextRound ==
  /\ EndOfRound /\ opt.changed /\ opt.count < max_count
  /\ opt' = [opt EXCEPT !.at = 1, !.count = @ + 1, !.changed = FALSE]
  /\ UNCHANGED <<ast, phase, info, consts, graphs>>
LastRound ==
  /\ EndOfRound /\ ~(opt.changed /\ opt.count < max_count)
  /\ graphs' = [p \in DOMAIN graphs |-> ssa_helper(graphs[p])]
  /\ phase' = "optimized"
  /\ UNCHANGED <<ast, info, consts, opt>>

OptimizerNext ==
  \/ Optimize
  \/ \E pass \in {"folding", "conditional", "load_store", "gc"} : Worklist(pass)
  \/ ControlFlow_ \/ TailRecursion_ \/ Unroll \/ UnusedMethod \/ Inlining
  \/ NextRound \/ LastRound

-----------------------------------------------------------------------------
(* What the optimizer may not do. *)

\* ssa_helper took the true edge of a condition away, or tailrec met a parameter
\* that is never used: see the README.
LosesAnEdge ==
  \E p \in DOMAIN graphs : \E b, c \in DOMAIN graphs[p].blocks :
    b # c /\ Range(graphs[p].blocks[b].preds) \cap Range(graphs[p].blocks[c].preds) # {}
ReadsNull == \E p \in DOMAIN graphs : graphs[p].broken

(* A program that ends by itself has the same output before and after      *)
(* every round.                                                            *)
OptimizedProgramsBehaveTheSame ==
  LET between == phase = "optimized" \/ (phase = "optimizing" /\ opt.at = 1)
      same(t, g) == t.stop = "" => g.stop = "" /\ g.out = t.out
  IN between /\ ~LosesAnEdge /\ ~ReadsNull /\ ~ComparesVoid => same(OfTree, OfGraphs)

\* Whatever the other passes left, what folding and conditional rely on holds
\* whenever they may be next, see ValuePasses.
GraphsAreWellFormed ==
  phase = "optimizing" /\ ~ReadsNull => \A p \in DOMAIN graphs : WellFormed(graphs[p])

MethodCalls(gs) ==
  UNION {{<<p, n>> : n \in {m \in DOMAIN gs[p].nodes : gs[p].nodes[m].op = "Call"
                                                         /\ gs[p].nodes[m].attr.kind = "method"}}
         : p \in DOMAIN gs}

\* Nodes, constants aside, and blocks in use, and one for each graph.
Weight(gs) ==
  LET size(g) == 1 + Cardinality({n \in DOMAIN g.nodes : g.nodes[n].op # "Const"})
                   + Cardinality({b \in DOMAIN g.blocks : g.blocks[b].preds # <<>>})
  IN FoldSet(LAMBDA p, sum : sum + size(gs[p]), 0, DOMAIN gs)

\* Calls of other methods that may still be inlined.
OpenCalls(gs) ==
  {c \in MethodCalls(gs) : LET n == gs[c[1]].nodes[c[2]] IN ~Ignored(n) /\ n.attr.path # c[1]}

\* gs has fewer open calls than hs, or as many and fewer calls, or as many of both
\* and this much less of the rest.
Shrunk(gs, hs, by) ==
  LET open(xs) == Cardinality(OpenCalls(xs))
      calls(xs) == Cardinality(MethodCalls(xs))
      smaller == calls(gs) < calls(hs) \/ (calls(gs) = calls(hs) /\ Weight(gs) + by <= Weight(hs))
  IN open(gs) < open(hs) \/ (open(gs) = open(hs) /\ smaller)

(* A pass that reports a change leaves less to inline, or a smaller        *)
(* program, and no pass the opposite: the rounds come to an end long       *)
(* before the limit.                                                       *)
ReportedChangesShrink ==
  [][phase = "optimizing" /\ opt'.at = opt.at + 1 =>
       Shrunk(graphs', graphs, IF opt'.result THEN 1 ELSE 0)]_optVars
=============================================================================
