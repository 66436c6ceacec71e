---------------------------- MODULE MemoryPasses ----------------------------
(***************************************************************************)
(* Loads and stores that can be saved, objects nobody reads and methods    *)
(* nobody calls (src/src/core/opt/load_store.cpp, gc.cpp,                  *)
(* unused_method.cpp).  For the record of a worklist pass see FirmNodes.   *)
(***************************************************************************)
EXTENDS FirmPasses

is_mem_access(node) == node.op \in {"Load", "Store"}

\* The same address: the same node, or the same member of the same object.
is_always_same_target(g, x, y) ==
  LET a == g.nodes[x]
      b == g.nodes[y]
  IN x = y \/ (a.op = "Member" /\ b.op = "Member" /\ a.attr = b.attr /\ a.in = b.in)

\* Mutant of is_always_different_target: members of objects with different names.
DifferentObject(g, x, y) ==
  LET a == g.nodes[x]
      b == g.nodes[y]
  IN a.op = "Member" /\ b.op = "Member" /\ (a.attr # b.attr \/ a.in # b.in)

is_always_different_target(g, x, y) ==
  LET a == g.nodes[x]
      b == g.nodes[y]
  IN a.op = "Member" /\ b.op = "Member" /\ a.attr # b.attr

have_always_same_target(g, n, m) == is_always_same_target(g, g.nodes[n].in[2], g.nodes[m].in[2])
have_always_different_target(g, n, m) ==
  is_always_different_target(g, g.nodes[n].in[2], g.nodes[m].in[2])
never_interferes_with_load_store(node) ==
  node.op = "Call" /\ node.attr.kind \in {"new", "runtime"}

\* What the loaded value is, or 0 if nothing uses it.
get_res_node(g, n) ==
  LET results == {u \in Users(g, n) : g.nodes[u].mode # "M"}
  IN IF results = {} THEN 0 ELSE CHOOSE u \in results : TRUE

has_multiple_mem_outputs(g, n) ==
  g.nodes[n].mode = "M" /\ Cardinality(get_out_edges_safe(g, n)) > 1

\* Up the chain of memory from node n to the first node that may access what n
\* does; the second component tells if another chain leaves in between.
RECURSIVE Chain(_, _, _, _)
Chain(g, n, at, branched) ==
  LET proj == g.nodes[at].in[1]
      skips(pred) == \/ never_interferes_with_load_store(g.nodes[pred])
                     \/ is_mem_access(g.nodes[pred]) /\ have_always_different_target(g, n, pred)
      up(pred, b) == IF skips(pred) THEN Chain(g, n, pred, b) ELSE <<pred, b>>
  IN IF g.nodes[proj].op # "Proj" THEN <<0, branched>>
     ELSE up(g.nodes[proj].in[1], branched \/ has_multiple_mem_outputs(g, proj))

Replaced(s, n, replace) ==
  [s EXCEPT !.g = replace_node(@, n, replace), !.changed = TRUE, !.again = TRUE]

\* A load after a load or a store of the same place has that one's value.
handle_load(s, n) ==
  LET value(x) == IF s.g.nodes[x].op = "Load" THEN get_res_node(s.g, x) ELSE s.g.nodes[x].in[3]
      reuse(v) == IF v = 0 THEN s ELSE Replaced(s, n, v)
      above(x) == IF x = 0 \/ ~is_mem_access(s.g.nodes[x]) \/ ~have_always_same_target(s.g, x, n)
                  THEN s ELSE reuse(value(x))
  IN IF get_res_node(s.g, n) = 0 THEN Replaced(s, n, 0) ELSE above(Chain(s.g, n, n, FALSE)[1])

\* A store of what was just loaded from there does nothing, and a store that
\* the next one overwrites neither, unless the memory is used in between.
handle_store(s, n) ==
  LET writes_back(load) ==
        LET value == s.g.nodes[s.g.nodes[n].in[3]]
        IN value.op = "Proj" /\ value.in[1] = load
      above(x, branched) ==
        CASE x = 0 \/ ~is_mem_access(s.g.nodes[x]) -> s
          [] x # 0 /\ s.g.nodes[x].op = "Load" ->
               IF have_always_same_target(s.g, x, n) /\ writes_back(x) THEN Replaced(s, n, 0) ELSE s
          [] x # 0 /\ s.g.nodes[x].op = "Store" ->
               IF have_always_same_target(s.g, x, n) /\ ~branched THEN Replaced(s, x, 0) ELSE s
      from(chain) == above(chain[1], chain[2])
  IN from(Chain(s.g, n, n, FALSE))

\* The memory a method begins with is a Proj too, with nothing to find above.
handle_node(s, n) ==
  LET node == s.g.nodes[n]
      old == [s EXCEPT !.again = FALSE]
  IN IF ~is_mem_access(node) \/ s.g.nodes[node.in[1]].op \notin {"Proj", "Variable"} THEN old
     ELSE IF node.op = "Load" THEN handle_load(old, n) ELSE handle_store(old, n)

-----------------------------------------------------------------------------
(* New objects that are only stored to. *)

has_only_stores(g, call) ==
  \A p \in Users(g, call) :
    /\ g.nodes[p].op = "Proj"
    /\ g.nodes[p].mode # "M" => \A m \in Users(g, p) :
         g.nodes[m].op = "Member" /\ \A x \in Users(g, m) : g.nodes[x].op = "Store"

Stores(g, call) ==
  UNION {UNION {Users(g, m) : m \in Users(g, p)} : p \in {u \in Users(g, call) : g.nodes[u].mode # "M"}}

unlink_mem_from_node(g, n) == replace_node(g, n, 0)

\* Mutant of remove_object: the object's memory stays in use.
KeepsObject(g, call) == g

remove_object(g, call) ==
  FoldSet(LAMBDA x, h : unlink_mem_from_node(h, x), g, {call} \cup Stores(g, call))

gc_handle(s, n) ==
  LET node == s.g.nodes[n]
      unused == node.op = "Call" /\ node.attr.kind = "new" /\ has_only_stores(s.g, n)
  IN [s EXCEPT !.again = FALSE, !.changed = @ \/ unused,
               !.g = IF unused THEN remove_object(@, n) ELSE @]

-----------------------------------------------------------------------------
(* Methods. *)

Calls(g, p) ==
  \E n \in DOMAIN g.nodes : g.nodes[n].op = "Call" /\ g.nodes[n].attr.kind = "method"
                              /\ g.nodes[n].attr.path = p

\* One after the other, the methods that no method left calls are removed; in
\* what order decides only how many rounds it takes.
unused_method(graphs, main) ==
  LET check(p, left) ==
        IF p = main \/ \E q \in DOMAIN left : Calls(left[q], p) THEN left
        ELSE [q \in DOMAIN left \ {p} |-> left[q]]
  IN FoldSet(check, graphs, DOMAIN graphs)
=============================================================================
