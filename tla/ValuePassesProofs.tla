------------------------- MODULE ValuePassesProofs -------------------------
(***************************************************************************)
(* Constant folding and constant conditions keep a graph's meaning.  For   *)
(* every well-formed graph and every order of the walk: a value linked to  *)
(* a node is what the node yields whenever the graph runs, and the graph   *)
(* that is left does what the graph did.                                   *)
(***************************************************************************)
EXTENDS ValuePasses, SequenceTheorems, TLAPS

-----------------------------------------------------------------------------
(* Edits of a graph. *)

NodeFields == {"op", "mode", "block", "in", "attr"}

\* What an edit needs of a graph: some of the parts of WellFormed.
Shape(g) ==
  /\ {"nodes", "blocks", "node", "broken"} \subseteq DOMAIN g
  /\ g.nodes \in Seq(Range(g.nodes))
  /\ \A n \in DOMAIN g.nodes : NodeFields \subseteq DOMAIN g.nodes[n]
  /\ \A b \in DOMAIN g.blocks : "preds" \in DOMAIN g.blocks[b]

\* A new node without operands stands where node n was used.
Replaced(g, n, b, op, mode, attr) ==
  LET h == NodeIn(g, b, op, mode, <<>>, attr) IN exchange(h, n, h.node)

LEMMA WellFormedShape ==
  ASSUME NEW g, WellFormed(g)
  PROVE  Shape(g)
BY DEF WellFormed, IsRecord, Shape, NodeFields

LEMMA NodeInGives ==
  ASSUME NEW g, Shape(g), NEW b, NEW op, NEW mode, NEW in, NEW attr,
         NEW h, h = NodeIn(g, b, op, mode, in, attr)
  PROVE  /\ Shape(h) /\ h.node = Len(g.nodes) + 1 /\ h.blocks = g.blocks
         /\ Len(h.nodes) = Len(g.nodes) + 1 /\ Len(g.nodes) \in Nat
         /\ \A i \in DOMAIN g.nodes : i \in DOMAIN h.nodes /\ h.nodes[i] = g.nodes[i]
         /\ h.nodes[h.node] = [op |-> op, mode |-> mode, block |-> b, in |-> in, attr |-> attr]
<1> DEFINE node == [op |-> op, mode |-> mode, block |-> b, in |-> in, attr |-> attr]
           ns == Append(g.nodes, node)
<1>1. /\ h.nodes = ns /\ h.blocks = g.blocks /\ h.node = Len(g.nodes) + 1
      /\ {"nodes", "blocks", "node", "broken"} \subseteq DOMAIN h
  BY DEF NodeIn, Shape
<1>2. /\ g.nodes \in Seq(Range(g.nodes)) /\ Len(g.nodes) \in Nat
      /\ DOMAIN g.nodes = 1..Len(g.nodes)
  BY DEF Shape
<1>3. /\ Len(ns) = Len(g.nodes) + 1 /\ DOMAIN ns = 1..(Len(g.nodes) + 1)
      /\ \A i \in DOMAIN g.nodes : ns[i] = g.nodes[i]
      /\ ns[Len(g.nodes) + 1] = node
  BY <1>2
<1>4. ns \in Seq(Range(ns))
  BY <1>2, <1>3, AppendProperties DEF Range
<1>5. \A i \in DOMAIN h.nodes : NodeFields \subseteq DOMAIN h.nodes[i]
  BY <1>1, <1>2, <1>3 DEF Shape, NodeFields
<1>. QED
  BY <1>1, <1>2, <1>3, <1>4, <1>5 DEF Shape

\* h is g with a new node where n was used.
Edited(g, h, n, b, op, attr) ==
  LET new == Len(g.nodes) + 1
      moved(in) == [k \in DOMAIN in |-> IF in[k] = n THEN new ELSE in[k]]
  IN /\ Len(h.nodes) = new
     /\ \A i \in DOMAIN g.nodes :
          /\ h.nodes[i].mode = g.nodes[i].mode /\ h.nodes[i].block = g.nodes[i].block
          /\ h.nodes[i].attr = g.nodes[i].attr
     /\ \A i \in DOMAIN g.nodes : h.nodes[i].op = IF i = n THEN "Deleted" ELSE g.nodes[i].op
     /\ \A i \in DOMAIN g.nodes : i # n => h.nodes[i].in = moved(g.nodes[i].in)
     /\ h.nodes[new].op = op /\ h.nodes[new].block = b /\ h.nodes[new].attr = attr
     /\ DOMAIN h.nodes[new].in = {}
     /\ DOMAIN h.blocks = DOMAIN g.blocks
     /\ \A c \in DOMAIN g.blocks : h.blocks[c].preds = moved(g.blocks[c].preds)

LEMMA ReplacedGives ==
  ASSUME NEW g, Shape(g), NEW n \in DOMAIN g.nodes, NEW b, NEW op, NEW mode, NEW attr
  PROVE  LET h == Replaced(g, n, b, op, mode, attr) IN Shape(h) /\ Edited(g, h, n, b, op, attr)
<1> DEFINE m == NodeIn(g, b, op, mode, <<>>, attr)
           new == Len(g.nodes) + 1
           moved(in) == [k \in DOMAIN in |-> IF in[k] = n THEN new ELSE in[k]]
           r == Reroute(m, n, new)
           h == Replaced(g, n, b, op, mode, attr)
<1>1. /\ Shape(m) /\ m.node = new /\ m.blocks = g.blocks /\ Len(m.nodes) = new /\ Len(g.nodes) \in Nat
      /\ \A i \in DOMAIN g.nodes : i \in DOMAIN m.nodes /\ m.nodes[i] = g.nodes[i]
      /\ m.nodes[new] = [op |-> op, mode |-> mode, block |-> b, in |-> <<>>, attr |-> attr]
  BY NodeInGives
<1>2. /\ DOMAIN g.nodes = 1..Len(g.nodes) /\ DOMAIN m.nodes = 1..new
  BY <1>1 DEF Shape
<1>3. h = [r EXCEPT !.nodes[n].op = "Deleted", !.nodes[n].in = <<>>]
  BY <1>1 DEF Replaced, exchange
<1>4. /\ r.nodes = [i \in DOMAIN m.nodes |-> [m.nodes[i] EXCEPT !.in = moved(@)]]
      /\ r.blocks = [c \in DOMAIN m.blocks |-> [m.blocks[c] EXCEPT !.preds = moved(@)]]
      /\ DOMAIN r = DOMAIN m
  <2> DEFINE ns == [i \in DOMAIN m.nodes |-> [m.nodes[i] EXCEPT !.in = moved(@)]]
             bs == [c \in DOMAIN m.blocks |-> [m.blocks[c] EXCEPT !.preds = moved(@)]]
  <2>1. r = [m EXCEPT !.nodes = ns, !.blocks = bs]
    BY DEF Reroute
  <2>2. "nodes" \in DOMAIN m /\ "blocks" \in DOMAIN m
    BY <1>1 DEF Shape
  <2> HIDE DEF ns, bs, r, m
  <2>3. r.nodes = ns /\ r.blocks = bs /\ DOMAIN r = DOMAIN m
    BY <2>1, <2>2
  <2>. QED
    BY <2>3 DEF ns, bs
<1>5. /\ h.nodes = [r.nodes EXCEPT ![n].op = "Deleted", ![n].in = <<>>]
      /\ h.blocks = r.blocks /\ DOMAIN h = DOMAIN r
  BY <1>1, <1>3, <1>4 DEF Shape
<1>6. DOMAIN h.nodes = DOMAIN m.nodes /\ DOMAIN h.blocks = DOMAIN g.blocks
  BY <1>1, <1>4, <1>5
<1>7. ASSUME NEW i \in DOMAIN m.nodes, i # n
      PROVE  h.nodes[i] = [m.nodes[i] EXCEPT !.in = moved(@)]
  BY <1>4, <1>5, <1>7
<1>8. /\ h.nodes[n] = [r.nodes[n] EXCEPT !.op = "Deleted", !.in = <<>>]
      /\ r.nodes[n] = [m.nodes[n] EXCEPT !.in = moved(@)]
  BY <1>1, <1>4, <1>5
<1>9. \A i \in DOMAIN m.nodes : NodeFields \subseteq DOMAIN m.nodes[i]
  BY <1>1 DEF Shape
<1>10. ASSUME NEW i \in DOMAIN g.nodes, i # n
       PROVE  /\ h.nodes[i].mode = g.nodes[i].mode /\ h.nodes[i].block = g.nodes[i].block
              /\ h.nodes[i].attr = g.nodes[i].attr /\ h.nodes[i].op = g.nodes[i].op
              /\ h.nodes[i].in = moved(g.nodes[i].in) /\ NodeFields \subseteq DOMAIN h.nodes[i]
  <2>1. i \in DOMAIN m.nodes /\ m.nodes[i] = g.nodes[i] /\ NodeFields \subseteq DOMAIN m.nodes[i]
    BY <1>1, <1>9
  <2>2. h.nodes[i] = [m.nodes[i] EXCEPT !.in = moved(@)]
    BY <1>7, <1>10, <2>1
  <2> HIDE DEF moved, m
  <2>. QED
    BY <2>1, <2>2 DEF NodeFields
<1>11. /\ h.nodes[n].mode = g.nodes[n].mode /\ h.nodes[n].block = g.nodes[n].block
       /\ h.nodes[n].attr = g.nodes[n].attr /\ h.nodes[n].op = "Deleted"
       /\ NodeFields \subseteq DOMAIN h.nodes[n]
  BY <1>1, <1>8, <1>9 DEF NodeFields
<1>12. /\ h.nodes[new].op = op /\ h.nodes[new].block = b /\ h.nodes[new].attr = attr
       /\ DOMAIN h.nodes[new].in = {} /\ NodeFields \subseteq DOMAIN h.nodes[new]
  <2>1. n # new /\ new \in DOMAIN m.nodes
    BY <1>1, <1>2
  <2>2. h.nodes[new] = [m.nodes[new] EXCEPT !.in = moved(@)]
    BY <1>7, <2>1
  <2>3. DOMAIN moved(<<>>) = {}
    OBVIOUS
  <2>. QED
    BY <1>1, <2>2, <2>3 DEF NodeFields
<1>13. ASSUME NEW c \in DOMAIN g.blocks
       PROVE  h.blocks[c].preds = moved(g.blocks[c].preds) /\ "preds" \in DOMAIN h.blocks[c]
  BY <1>1, <1>4, <1>5 DEF Shape
<1>14. \A i \in DOMAIN h.nodes : NodeFields \subseteq DOMAIN h.nodes[i]
  <2>1. \A i \in DOMAIN h.nodes : i \in DOMAIN g.nodes \/ i = new
    BY <1>1, <1>2, <1>6
  <2>. QED
    BY <1>10, <1>11, <1>12, <2>1
<1>15. h.nodes \in Seq(Range(h.nodes)) /\ Len(h.nodes) = new
  <2>1. h.nodes = [i \in 1..new |-> h.nodes[i]] /\ new \in Nat
    <3>1. h.nodes = [r.nodes EXCEPT ![n].op = "Deleted", ![n].in = <<>>]
      BY <1>5
    <3>2. r.nodes = [i \in 1..new |-> r.nodes[i]] /\ new \in Nat
      <4> DEFINE X(i) == [m.nodes[i] EXCEPT !.in = moved(@)]
      <4>1. r.nodes = [i \in DOMAIN m.nodes |-> X(i)] /\ DOMAIN m.nodes = 1..new /\ new \in Nat
        BY <1>1, <1>2, <1>4
      <4> HIDE DEF X, r, m
      <4>. QED
        BY <4>1
    <3> HIDE DEF r, m
    <3>. QED
      BY <3>1, <3>2
  <2>2. \A i \in 1..new : h.nodes[i] \in Range(h.nodes)
    BY <1>2, <1>6 DEF Range
  <2>. QED
    BY <2>1, <2>2
<1>16. Shape(h)
  BY <1>1, <1>4, <1>5, <1>6, <1>13, <1>14, <1>15 DEF Shape
<1>. QED
  <2> HIDE DEF h, m, r
  <2>1. Len(h.nodes) = new /\ DOMAIN h.blocks = DOMAIN g.blocks
    BY <1>6, <1>15
  <2>2. \A i \in DOMAIN g.nodes :
          /\ h.nodes[i].mode = g.nodes[i].mode /\ h.nodes[i].block = g.nodes[i].block
          /\ h.nodes[i].attr = g.nodes[i].attr
    BY <1>10, <1>11
  <2>3. \A i \in DOMAIN g.nodes : h.nodes[i].op = IF i = n THEN "Deleted" ELSE g.nodes[i].op
    BY <1>10, <1>11
  <2>4. \A i \in DOMAIN g.nodes : i # n => h.nodes[i].in = moved(g.nodes[i].in)
    BY <1>10
  <2>5. \A c \in DOMAIN g.blocks : h.blocks[c].preds = moved(g.blocks[c].preds)
    BY <1>13
  <2>6. Edited(g, h, n, b, op, attr)
    BY <1>12, <2>1, <2>2, <2>3, <2>4, <2>5 DEF Edited
  <2>. QED
    BY <1>16, <2>6 DEF h

-----------------------------------------------------------------------------
(* What is left of a graph src, given the values its nodes are linked to.  *)

Decided == {TarvalB(TRUE), TarvalB(FALSE)}

\* The nodes that may be gone: those with a value, comparisons aside, and the
\* edges a decided condition chooses between.
Valued(src, link, x) ==
  src.nodes[x].op \in (Pure \ {"Cmp"}) \cup {"Phi"} /\ link[x] \notin {NoTarval, BadTarval}
Decides(src, link, x) ==
  /\ src.nodes[x].op = "Proj" /\ src.nodes[x].mode = "X"
  /\ link[src.nodes[x].in[1]] \in Decided

\* A node for one that is gone: the value as a constant; a jump for the edge
\* that is taken, nothing for the other.
Replaces(src, link, node, x) ==
  \/ Valued(src, link, x) /\ node.op = "Const" /\ Denotes(link[x], node.attr)
  \/ /\ Decides(src, link, x)
     /\ IF link[src.nodes[x].in[1]] = TarvalB(src.nodes[x].attr = "true")
        THEN node.op = "Jmp" /\ node.block = src.nodes[x].block ELSE node.op = "Bad"

Gone(src, g, x) == g.nodes[x].op # src.nodes[x].op

\* Node y of g is used where x was; the nodes of src keep their numbers.
Stands(src, link, g, y, x) ==
  IF Gone(src, g, x)
  THEN /\ y \in (Len(src.nodes) + 1)..Len(g.nodes)
       /\ Replaces(src, link, g.nodes[y], x)
  ELSE y = x
StandFor(src, link, g, ys, xs) ==
  ys = [i \in DOMAIN xs |-> ys[i]] /\ \A i \in DOMAIN xs : Stands(src, link, g, ys[i], xs[i])

OldNode(src, link, g, x) ==
  LET node == g.nodes[x]
      old == src.nodes[x]
  IN /\ node.mode = old.mode /\ node.block = old.block /\ node.attr = old.attr
     /\ IF Gone(src, g, x)
        THEN node.op = "Deleted" /\ (Valued(src, link, x) \/ Decides(src, link, x))
        ELSE StandFor(src, link, g, node.in, old.in)

Rewritten(src, link, g) ==
  /\ Shape(g) /\ Len(src.nodes) <= Len(g.nodes)
  /\ \A x \in DOMAIN src.nodes : OldNode(src, link, g, x)
  /\ \A y \in (Len(src.nodes) + 1)..Len(g.nodes) :
       g.nodes[y].op \in {"Const", "Jmp", "Bad"} /\ DOMAIN g.nodes[y].in = {}
  /\ DOMAIN g.blocks = DOMAIN src.blocks
  /\ \A b \in DOMAIN src.blocks :
       StandFor(src, link, g, g.blocks[b].preds, src.blocks[b].preds)

LEMMA UnchangedIsRewritten ==
  ASSUME NEW g, WellFormed(g), NEW link
  PROVE  Rewritten(g, link, g)
<1>1. Shape(g) /\ Len(g.nodes) \in Nat
  BY WellFormedShape DEF Shape
<1>2. \A xs \in Seq(DOMAIN g.nodes) : StandFor(g, link, g, xs, xs)
  BY DEF StandFor, Stands, Gone
<1>3. /\ \A x \in DOMAIN g.nodes : g.nodes[x].in \in Seq(DOMAIN g.nodes)
      /\ \A b \in DOMAIN g.blocks : g.blocks[b].preds \in Seq(DOMAIN g.nodes)
  BY DEF WellFormed
<1>5. \A x \in DOMAIN g.nodes : OldNode(g, link, g, x)
  BY <1>2, <1>3 DEF OldNode, Gone
<1>4. \A y \in (Len(g.nodes) + 1)..Len(g.nodes) : FALSE
  BY <1>1
<1>. QED
  BY <1>1, <1>2, <1>3, <1>4, <1>5 DEF Rewritten

\* A node that may be gone is replaced.
LEMMA ReplacingKeepsRewritten ==
  ASSUME NEW src, WellFormed(src), NEW link, NEW g, Rewritten(src, link, g),
         NEW n \in DOMAIN src.nodes, Valued(src, link, n) \/ Decides(src, link, n),
         NEW b, NEW op, NEW mode, NEW attr,
         Replaces(src, link, [op |-> op, mode |-> mode, block |-> b, in |-> <<>>, attr |-> attr], n)
  PROVE  Rewritten(src, link, Replaced(g, n, b, op, mode, attr))
<1> DEFINE h == Replaced(g, n, b, op, mode, attr)
           N == Len(src.nodes)
           new == Len(g.nodes) + 1
<1>1. /\ N \in Nat /\ DOMAIN src.nodes = 1..N
      /\ \A x \in DOMAIN src.nodes : src.nodes[x].in \in Seq(DOMAIN src.nodes)
      /\ \A c \in DOMAIN src.blocks : src.blocks[c].preds \in Seq(DOMAIN src.nodes)
  BY DEF WellFormed
<1>2. /\ Shape(g) /\ N <= Len(g.nodes) /\ Len(g.nodes) \in Nat /\ DOMAIN g.nodes = 1..Len(g.nodes)
  BY DEF Rewritten, Shape
<1>3. n \in DOMAIN g.nodes
  BY <1>1, <1>2
<1>4. Shape(h) /\ Edited(g, h, n, b, op, attr)
  BY <1>2, <1>3, ReplacedGives
<1> HIDE DEF h
<1>5. src.nodes[n].op # "Deleted" /\ op \in {"Const", "Jmp", "Bad"}
  BY DEF Valued, Decides, Replaces, Pure
<1>6. \A x \in DOMAIN src.nodes : Gone(src, h, x) <=> x = n \/ Gone(src, g, x)
  <2>1. \A x \in DOMAIN src.nodes : x \in DOMAIN g.nodes
    BY <1>1, <1>2
  <2>2. \A x \in DOMAIN g.nodes : h.nodes[x].op = IF x = n THEN "Deleted" ELSE g.nodes[x].op
    BY <1>4 DEF Edited
  <2>. QED
    BY <1>5, <2>1, <2>2 DEF Gone
<1>7. Replaces(src, link, h.nodes[new], n)
  BY <1>4 DEF Replaces, Edited
<1>8. \A y \in (N + 1)..Len(g.nodes) : \A x :
        Replaces(src, link, g.nodes[y], x) => Replaces(src, link, h.nodes[y], x)
  <2>1. ASSUME NEW y \in (N + 1)..Len(g.nodes)
        PROVE  h.nodes[y].op = g.nodes[y].op /\ h.nodes[y].block = g.nodes[y].block
                 /\ h.nodes[y].attr = g.nodes[y].attr
    <3>1. y \in DOMAIN g.nodes /\ y # n
      BY <1>1, <1>2
    <3>. QED
      BY <1>4, <3>1 DEF Edited
  <2>. QED
    BY <2>1 DEF Replaces
<1>9. ASSUME NEW x \in DOMAIN src.nodes, NEW y, Stands(src, link, g, y, x)
      PROVE  Stands(src, link, h, IF y = n THEN new ELSE y, x)
  <2>1. CASE Gone(src, g, x)
    <3>1. y \in (N + 1)..Len(g.nodes) /\ Replaces(src, link, g.nodes[y], x)
      BY <1>9, <2>1 DEF Stands
    <3>2. y # n /\ y \in (N + 1)..Len(h.nodes)
      BY <1>1, <1>2, <1>4, <3>1 DEF Edited
    <3>. QED
      BY <1>6, <1>8, <2>1, <3>1, <3>2 DEF Stands
  <2>2. CASE ~Gone(src, g, x) /\ x = n
    <3>1. y = n /\ new \in (N + 1)..Len(h.nodes)
      BY <1>1, <1>2, <1>4, <1>9, <2>2 DEF Stands, Edited
    <3>. QED
      BY <1>6, <1>7, <2>2, <3>1 DEF Stands
  <2>3. CASE ~Gone(src, g, x) /\ x # n
    BY <1>6, <1>9, <2>3 DEF Stands
  <2>. QED
    BY <2>1, <2>2, <2>3
<1>10. ASSUME NEW ys, NEW xs \in Seq(DOMAIN src.nodes), StandFor(src, link, g, ys, xs)
       PROVE  StandFor(src, link, h, [k \in DOMAIN ys |-> IF ys[k] = n THEN new ELSE ys[k]], xs)
  <2>1. \A i \in DOMAIN xs : xs[i] \in DOMAIN src.nodes
    OBVIOUS
  <2>. QED
    BY <1>9, <1>10, <2>1 DEF StandFor
<1>11. ASSUME NEW x \in DOMAIN src.nodes
       PROVE  OldNode(src, link, h, x)
  <2>1. OldNode(src, link, g, x) /\ x \in DOMAIN g.nodes
    BY <1>1, <1>2 DEF Rewritten
  <2>2. /\ h.nodes[x].mode = src.nodes[x].mode /\ h.nodes[x].block = src.nodes[x].block
        /\ h.nodes[x].attr = src.nodes[x].attr
    BY <1>4, <2>1 DEF OldNode, Edited
  <2>3. CASE Gone(src, h, x)
    <3>1. h.nodes[x].op = "Deleted"
      BY <1>4, <1>6, <2>1, <2>3 DEF OldNode, Edited
    <3>. QED
      BY <1>6, <2>1, <2>2, <2>3, <3>1 DEF OldNode
  <2>4. CASE ~Gone(src, h, x)
    <3>1. StandFor(src, link, g, g.nodes[x].in, src.nodes[x].in) /\ x # n
      BY <1>6, <2>1, <2>4 DEF OldNode
    <3>2. StandFor(src, link, h, h.nodes[x].in, src.nodes[x].in)
      <4>1. h.nodes[x].in = [k \in DOMAIN g.nodes[x].in |->
                               IF g.nodes[x].in[k] = n THEN new ELSE g.nodes[x].in[k]]
        BY <1>4, <2>1, <3>1 DEF Edited
      <4>. QED
        BY <1>1, <1>10, <3>1, <4>1
    <3>. QED
      BY <2>2, <2>4, <3>2 DEF OldNode
  <2>. QED
    BY <2>3, <2>4
<1>12. ASSUME NEW y \in (N + 1)..Len(h.nodes)
       PROVE  h.nodes[y].op \in {"Const", "Jmp", "Bad"} /\ DOMAIN h.nodes[y].in = {}
  <2>1. CASE y = new
    BY <1>4, <1>5, <2>1 DEF Edited
  <2>2. CASE y # new
    <3>1. y \in (N + 1)..Len(g.nodes) /\ y # n /\ y \in DOMAIN g.nodes
      BY <1>1, <1>2, <1>4, <1>12, <2>2 DEF Edited
    <3>2. g.nodes[y].op \in {"Const", "Jmp", "Bad"} /\ DOMAIN g.nodes[y].in = {}
      BY <3>1 DEF Rewritten
    <3>. QED
      <4>1. h.nodes[y].op = g.nodes[y].op
        BY <1>4, <3>1 DEF Edited
      <4>2. DOMAIN h.nodes[y].in = DOMAIN g.nodes[y].in
        BY <1>4, <3>1 DEF Edited
      <4>. QED
        BY <3>2, <4>1, <4>2
  <2>. QED
    BY <2>1, <2>2
<1>13. ASSUME NEW c \in DOMAIN src.blocks
       PROVE  StandFor(src, link, h, h.blocks[c].preds, src.blocks[c].preds)
  <2>1. /\ c \in DOMAIN g.blocks
        /\ StandFor(src, link, g, g.blocks[c].preds, src.blocks[c].preds)
    BY DEF Rewritten
  <2>2. h.blocks[c].preds = [k \in DOMAIN g.blocks[c].preds |->
                               IF g.blocks[c].preds[k] = n THEN new ELSE g.blocks[c].preds[k]]
    BY <1>4, <2>1 DEF Edited
  <2>. QED
    BY <1>1, <1>10, <2>1, <2>2
<1>14. DOMAIN h.blocks = DOMAIN src.blocks /\ N <= Len(h.nodes)
  BY <1>1, <1>2, <1>4 DEF Rewritten, Edited
<1>. QED
  BY <1>4, <1>11, <1>12, <1>13, <1>14 DEF Rewritten, h

-----------------------------------------------------------------------------
(* What a pass knows of a graph. *)

\* The arithmetic of the machine has results of its own width.
LEMMA WrapInRange ==
  ASSUME NEW n \in Int
  PROVE  /\ wrap(n) \in MinInt..MaxInt
         /\ \E k \in Int : wrap(n) = n + k * 2^IntBits
<1> DEFINE half == 2^(IntBits - 1)
           full == 2^IntBits
<1>1. half \in Nat \ {0} /\ full = 2 * half
  BY IntBitsAssumption
<1>2. MaxInt = half - 1 /\ MinInt = -half /\ wrap(n) = IF n % full > MaxInt THEN (n % full) - full ELSE n % full
  BY DEF MaxInt, MinInt, wrap
<1> HIDE DEF half, full
<1>3. n % full \in 0..(full - 1) /\ n \div full \in Int
  BY <1>1
<1>4. n = full * (n \div full) + (n % full)
  BY <1>1
<1>5. wrap(n) \in MinInt..MaxInt
  BY <1>1, <1>2, <1>3
<1>6. \E k \in Int : wrap(n) = n + k * full
  <2> DEFINE q == n \div full
  <2>1. q \in Int /\ n = full * q + (n % full) /\ n % full \in Int /\ full \in Int
    BY <1>1, <1>3, <1>4
  <2> HIDE DEF q
  <2>2. (-q) * full = -(full * q) /\ (-q - 1) * full = -(full * q) - full
    BY <2>1
  <2>3. n % full = n + (-q) * full /\ (n % full) - full = n + (-q - 1) * full
    BY <2>1, <2>2
  <2>4. \/ wrap(n) = n + (-q) * full /\ -q \in Int
        \/ wrap(n) = n + (-q - 1) * full /\ -q - 1 \in Int
    BY <1>2, <2>1, <2>3
  <2>. QED
    BY <2>4
<1>. QED
  BY <1>5, <1>6 DEF full

\* No two ints differ by a multiple of what they count.
LEMMA OneOfEach ==
  ASSUME NEW a \in MinInt..MaxInt, NEW b \in MinInt..MaxInt, NEW k \in Int, a = b + k * 2^IntBits
  PROVE  a = b
<1> DEFINE half == 2^(IntBits - 1)
           full == 2^IntBits
<1>1. half \in Nat \ {0} /\ full = 2 * half
  BY IntBitsAssumption
<1>2. MaxInt = half - 1 /\ MinInt = -half
  BY DEF MaxInt, MinInt
<1>3. a = b + k * full
  OBVIOUS
<1> HIDE DEF half, full
<1>4. a \in Int /\ b \in Int /\ a - b < full /\ b - a < full
  BY <1>1, <1>2
<1>5. k < 1
  <2> SUFFICES ASSUME k >= 1 PROVE FALSE
    OBVIOUS
  <2>1. k * full >= full
    BY <1>1
  <2>. QED
    BY <1>1, <1>3, <1>4, <2>1
<1>6. k > -1
  <2> SUFFICES ASSUME k <= -1 PROVE FALSE
    OBVIOUS
  <2>1. k * full <= -full
    BY <1>1
  <2>. QED
    BY <1>1, <1>3, <1>4, <2>1
<1>. QED
  BY <1>1, <1>3, <1>4, <1>5, <1>6

(* The result of an operation is the only int that differs from the exact  *)
(* one by a multiple of the number of ints: what a pass computes at        *)
(* compile time is what two's complement gives at run time, for every      *)
(* width.                                                                  *)
THEOREM WrapIsTheInt ==
  ASSUME NEW n \in Int, NEW v \in MinInt..MaxInt
  PROVE  v = wrap(n) <=> \E k \in Int : v = n + k * 2^IntBits
<1>1. v = wrap(n) => \E k \in Int : v = n + k * 2^IntBits
  BY WrapInRange
<1>2. ASSUME NEW k \in Int, v = n + k * 2^IntBits
      PROVE  v = wrap(n)
  <2>1. PICK m \in Int : wrap(n) = n + m * 2^IntBits
    BY WrapInRange
  <2>2. 2^IntBits \in Int
    BY IntBitsAssumption
  <2>3. k - m \in Int /\ (k - m) * 2^IntBits = k * 2^IntBits - m * 2^IntBits
    BY <2>1, <2>2
  <2>4. v = wrap(n) + (k - m) * 2^IntBits
    <3> DEFINE x == k * 2^IntBits
               y == m * 2^IntBits
    <3>1. x \in Int /\ y \in Int /\ v = n + x /\ wrap(n) = n + y
      BY <1>2, <2>1, <2>2
    <3> HIDE DEF x, y
    <3>2. v = wrap(n) + (x - y)
      BY <3>1
    <3>. QED
      BY <2>3, <3>2 DEF x, y
  <2>. QED
    BY <2>3, <2>4, WrapInRange, OneOfEach
<1>. QED
  BY <1>1, <1>2

LEMMA WrapInt ==
  ASSUME NEW n \in Int
  PROVE  wrap(n) \in Int
BY WrapInRange, IntBitsAssumption DEF MinInt, MaxInt

tarval(p, s, n) ==
  IF p = "folding" THEN folding_tarval(s, n) ELSE conditional_tarval(s, s.g.nodes[n])

\* The nodes of a graph with numbers in reach.
Links(s) == DOMAIN s.link = DOMAIN s.g.nodes /\ \A n \in DOMAIN s.link : s.link[n].v \in Int

\* A value that was linked to a node is the one its handling yields.
Consistent(p, s) ==
  Links(s) /\ \A n \in DOMAIN s.link : s.link[n] # NoTarval => s.link[n] = tarval(p, s, n)

\* Worklist t knows all that s knows of the same graph.
KnowsMore(s, t) ==
  /\ t.g = s.g /\ Links(s) /\ Links(t)
  /\ \A n \in DOMAIN s.link : s.link[n] # NoTarval => t.link[n] = s.link[n]

LEMMA OperandsKeepValues ==
  ASSUME NEW s, NEW t, KnowsMore(s, t)
  PROVE  /\ \A n : Linked(s, n).v \in Int /\ Linked(t, n).v \in Int
         /\ \A n : Linked(s, n) # NoTarval => Linked(t, n) = Linked(s, n)
         /\ \A node, i : get_tarval(s, node, i).v \in Int /\ get_tarval(t, node, i).v \in Int
         /\ \A node, i : get_tarval(s, node, i) # NoTarval =>
                           get_tarval(t, node, i) = get_tarval(s, node, i)
<1>1. NoTarval.v \in Int
  BY DEF NoTarval, Tarval
<1>. QED
  BY <1>1 DEF KnowsMore, Links, Linked, get_tarval

\* An operation on operands of which more is known has the same value.
LEMMA FoldBinaryKeepsValue ==
  ASSUME NEW s, NEW t, KnowsMore(s, t), NEW node,
         NEW tv, tv = fold_binary(node, get_tarval(s, node, 1), get_tarval(s, node, 2)), tv # NoTarval,
         node.op \in {"Add", "Sub", "Mul"}, Len(node.in) = 2, node.in \in Seq(DOMAIN s.g.nodes)
  PROVE  fold_binary(node, get_tarval(t, node, 1), get_tarval(t, node, 2)) = tv
<1> DEFINE l == get_tarval(s, node, 1)
           r == get_tarval(s, node, 2)
           m == get_tarval(t, node, 1)
           q == get_tarval(t, node, 2)
<1>1. /\ l.v \in Int /\ r.v \in Int /\ m.v \in Int /\ q.v \in Int
      /\ l # NoTarval => m = l
      /\ r # NoTarval => q = r
  BY OperandsKeepValues
<1>2. ~is_tarval_numeric(NoTarval)
  BY DEF is_tarval_numeric, NoTarval, Tarval
<1>3. node.in[1] = node.in[2] => m = q
  BY DEF get_tarval
<1>4. node.op = "Mul" /\ is_tarval_with_num(l, 0) => m = l /\ m.v = 0 /\ is_tarval_numeric(m)
  BY <1>1, <1>2 DEF is_tarval_with_num
<1>5. node.op = "Mul" /\ is_tarval_with_num(r, 0) => q = r /\ q.v = 0 /\ is_tarval_numeric(q)
  BY <1>1, <1>2 DEF is_tarval_with_num
<1> HIDE DEF l, r, m, q
<1> DEFINE zero == Tarval(node.mode, wrap(0))
           full(a, b) == Tarval(node.mode, wrap(IF node.op = "Add" THEN a.v + b.v
                                                ELSE IF node.op = "Sub" THEN a.v - b.v ELSE a.v * b.v))
           same(a, b) == \/ node.op = "Sub" /\ node.in[1] = node.in[2]
                         \/ node.op = "Mul" /\ (is_tarval_with_num(a, 0) \/ is_tarval_with_num(b, 0))
<1>6. \A a, b : fold_binary(node, a, b) =
        IF is_tarval_numeric(a) /\ is_tarval_numeric(b) THEN full(a, b)
        ELSE IF same(a, b) THEN zero ELSE NoTarval
  BY DEF fold_binary
<1>7. CASE is_tarval_numeric(l) /\ is_tarval_numeric(r)
  <2>1. m = l /\ q = r
    BY <1>1, <1>2, <1>7
  <2>. QED
    BY <2>1 DEF l, r, m, q
<1>8. CASE ~(is_tarval_numeric(l) /\ is_tarval_numeric(r))
  <2>1. same(l, r) /\ tv = zero
    BY <1>6, <1>8 DEF l, r
  <2>2. CASE ~(is_tarval_numeric(m) /\ is_tarval_numeric(q))
    <3>1. same(m, q)
      BY <1>4, <1>5, <2>1 DEF is_tarval_with_num
    <3>. QED
      BY <1>6, <2>1, <2>2, <3>1 DEF m, q
  <2>3. CASE is_tarval_numeric(m) /\ is_tarval_numeric(q)
    <3>1. (IF node.op = "Add" THEN m.v + q.v ELSE IF node.op = "Sub" THEN m.v - q.v ELSE m.v * q.v) = 0
      <4>1. CASE node.op = "Sub" /\ node.in[1] = node.in[2]
        BY <1>1, <1>3, <4>1
      <4>2. CASE node.op = "Mul" /\ m.v = 0
        <5>1. 0 * q.v = 0
          BY <1>1
        <5>. QED
          BY <4>2, <5>1
      <4>3. CASE node.op = "Mul" /\ q.v = 0
        <5>1. m.v * 0 = 0
          BY <1>1
        <5>. QED
          BY <4>3, <5>1
      <4>. QED
        BY <1>4, <1>5, <2>1, <4>1, <4>2, <4>3
    <3>. QED
      BY <1>6, <2>1, <2>3, <3>1 DEF m, q
  <2>. QED
    BY <2>2, <2>3
<1>. QED
  BY <1>7, <1>8

LEMMA PhiKeepsValue ==
  ASSUME NEW s, NEW t, KnowsMore(s, t), NEW node,
         node.in \in Seq(DOMAIN s.g.nodes), node.in # <<>>, phi_tarval(s, node) # NoTarval
  PROVE  phi_tarval(t, node) = phi_tarval(s, node)
<1> DEFINE tv(i) == Linked(s, node.in[i])
           uv(i) == Linked(t, node.in[i])
<1>1. \A i : tv(i) # NoTarval => uv(i) = tv(i)
  BY OperandsKeepValues
<1>2. 1 \in DOMAIN node.in /\ \A i \in DOMAIN node.in : 1 \in 1..i /\ i \in 1..i
  OBVIOUS
<1> HIDE DEF tv, uv
<1>3. /\ phi_tarval(s, node) =
           IF \E i \in DOMAIN node.in : (tv(i) = BadTarval \/ tv(i) # tv(1)) /\ \A j \in 1..i : tv(j) # NoTarval
           THEN BadTarval ELSE IF \A i \in DOMAIN node.in : tv(i) # NoTarval THEN tv(1) ELSE NoTarval
      /\ phi_tarval(t, node) =
           IF \E i \in DOMAIN node.in : (uv(i) = BadTarval \/ uv(i) # uv(1)) /\ \A j \in 1..i : uv(j) # NoTarval
           THEN BadTarval ELSE IF \A i \in DOMAIN node.in : uv(i) # NoTarval THEN uv(1) ELSE NoTarval
  BY DEF phi_tarval, tv, uv
<1>4. CASE \E i \in DOMAIN node.in : (tv(i) = BadTarval \/ tv(i) # tv(1)) /\ \A j \in 1..i : tv(j) # NoTarval
  <2>1. PICK i \in DOMAIN node.in : (tv(i) = BadTarval \/ tv(i) # tv(1)) /\ \A j \in 1..i : tv(j) # NoTarval
    BY <1>4
  <2>2. \A j \in 1..i : uv(j) = tv(j)
    BY <1>1, <2>1
  <2>3. (uv(i) = BadTarval \/ uv(i) # uv(1)) /\ \A j \in 1..i : uv(j) # NoTarval
    BY <1>2, <2>1, <2>2
  <2>. QED
    BY <1>3, <1>4, <2>3
<1>5. CASE ~\E i \in DOMAIN node.in : (tv(i) = BadTarval \/ tv(i) # tv(1)) /\ \A j \in 1..i : tv(j) # NoTarval
  <2>1. \A i \in DOMAIN node.in : tv(i) # NoTarval
    BY <1>3, <1>5
  <2>2. \A i \in DOMAIN node.in : uv(i) = tv(i)
    BY <1>1, <2>1
  <2>3. \A i \in DOMAIN node.in : 1..i \subseteq DOMAIN node.in
    OBVIOUS
  <2>. QED
    BY <1>2, <1>3, <1>5, <2>1, <2>2, <2>3
<1>. QED
  BY <1>4, <1>5

\* What a well-formed graph's nodes are like.
LEMMA AllowedNodes ==
  ASSUME NEW g, WellFormed(g), NEW n \in DOMAIN g.nodes, NEW node, node = g.nodes[n]
  PROVE  /\ node.in \in Seq(DOMAIN g.nodes) /\ node.block \in DOMAIN g.blocks
         /\ node.op = "Const" =>
              /\ node.mode \notin {"none", "bad", "T", "X"} /\ DOMAIN node.in = {}
              /\ node.attr \in IF node.mode = "b" THEN BOOLEAN ELSE Int
         /\ node.op \in {"Add", "Sub", "Mul"} =>
              /\ Len(node.in) = 2 /\ DOMAIN node.in = {1, 2}
              /\ node.mode \notin {"b", "none", "bad", "T", "X"}
              /\ \A i \in {1, 2} : g.nodes[node.in[i]].mode \notin {"b", "T", "X"}
         /\ node.op = "Minus" =>
              /\ DOMAIN node.in = {1} /\ node.mode \notin {"b", "none", "bad", "T", "X"}
              /\ g.nodes[node.in[1]].mode \notin {"b", "T", "X"}
         /\ node.op = "Cmp" =>
              /\ DOMAIN node.in = {1, 2} /\ node.mode = "b" /\ node.attr \in Relations
              /\ \A i \in {1, 2} : g.nodes[node.in[i]].mode \notin {"b", "T", "X"}
         /\ node.op = "Mux" =>
              /\ DOMAIN node.in = {1, 2, 3} /\ node.mode \notin {"none", "bad", "T", "X"}
              /\ g.nodes[node.in[1]].mode = "b"
              /\ \A i \in {2, 3} : g.nodes[node.in[i]].op = "Const" /\ g.nodes[node.in[i]].mode = node.mode
         /\ node.op = "Phi" =>
              /\ Len(node.in) = Len(g.blocks[node.block].preds) /\ node.in # <<>>
              /\ node.mode \notin {"T", "X"}
              /\ \A i \in DOMAIN node.in : g.nodes[node.in[i]].mode = node.mode
         /\ node.op = "Cond" =>
              /\ DOMAIN node.in = {1} /\ node.mode = "T"
              /\ g.nodes[node.in[1]].op = "Cmp" => g.nodes[node.in[1]].block = node.block
         /\ node.op = "Proj" /\ (node.mode = "X" \/ \E i \in DOMAIN node.in : g.nodes[node.in[i]].op = "Cond") =>
              /\ DOMAIN node.in = {1} /\ g.nodes[node.in[1]].op = "Cond" /\ node.mode = "X"
              /\ g.nodes[node.in[1]].block = node.block /\ node.attr \in {"true", "false"}
         /\ node.op \notin {"Const", "Cmp", "Mux", "Phi"} => node.mode # "b"
<1>1. NodeAllowed(g, n) /\ node.in \in Seq(DOMAIN g.nodes) /\ node.block \in DOMAIN g.blocks
  BY DEF WellFormed
<1>2. /\ Len(node.in) \in Nat /\ DOMAIN node.in = 1..Len(node.in)
      /\ 1..0 = {} /\ 1..1 = {1} /\ 1..2 = {1, 2} /\ 1..3 = {1, 2, 3}
  BY <1>1
<1>3. node.op = "Const" =>
           /\ node.mode \notin {"none", "bad", "T", "X"} /\ DOMAIN node.in = {}
           /\ node.attr \in IF node.mode = "b" THEN BOOLEAN ELSE Int
  BY <1>1, <1>2 DEF NodeAllowed
<1>4. node.op \in {"Add", "Sub", "Mul"} =>
           /\ Len(node.in) = 2 /\ DOMAIN node.in = {1, 2}
           /\ node.mode \notin {"b", "none", "bad", "T", "X"}
           /\ \A i \in {1, 2} : g.nodes[node.in[i]].mode \notin {"b", "T", "X"}
  BY <1>1, <1>2 DEF NodeAllowed
<1>5. node.op = "Minus" =>
           /\ DOMAIN node.in = {1} /\ node.mode \notin {"b", "none", "bad", "T", "X"}
           /\ g.nodes[node.in[1]].mode \notin {"b", "T", "X"}
  BY <1>1, <1>2 DEF NodeAllowed
<1>6. node.op = "Cmp" =>
           /\ DOMAIN node.in = {1, 2} /\ node.mode = "b" /\ node.attr \in Relations
           /\ \A i \in {1, 2} : g.nodes[node.in[i]].mode \notin {"b", "T", "X"}
  BY <1>1, <1>2 DEF NodeAllowed
<1>7. node.op = "Mux" =>
           /\ DOMAIN node.in = {1, 2, 3} /\ node.mode \notin {"none", "bad", "T", "X"}
           /\ g.nodes[node.in[1]].mode = "b"
           /\ \A i \in {2, 3} : g.nodes[node.in[i]].op = "Const" /\ g.nodes[node.in[i]].mode = node.mode
  BY <1>1, <1>2 DEF NodeAllowed
<1>8. node.op = "Phi" =>
           /\ Len(node.in) = Len(g.blocks[node.block].preds) /\ node.in # <<>>
           /\ node.mode \notin {"T", "X"}
           /\ \A i \in DOMAIN node.in : g.nodes[node.in[i]].mode = node.mode
  BY <1>1, <1>2 DEF NodeAllowed
<1>9. node.op = "Cond" =>
           /\ DOMAIN node.in = {1} /\ node.mode = "T"
           /\ g.nodes[node.in[1]].op = "Cmp" => g.nodes[node.in[1]].block = node.block
  BY <1>1, <1>2 DEF NodeAllowed
<1>10. node.op = "Proj" /\ (node.mode = "X" \/ \E i \in DOMAIN node.in : g.nodes[node.in[i]].op = "Cond") =>
           /\ DOMAIN node.in = {1} /\ g.nodes[node.in[1]].op = "Cond" /\ node.mode = "X"
           /\ g.nodes[node.in[1]].block = node.block /\ node.attr \in {"true", "false"}
  BY <1>1, <1>2 DEF NodeAllowed
<1>11. node.op \notin {"Const", "Cmp", "Mux", "Phi"} => node.mode # "b"
  BY <1>1, <1>2 DEF NodeAllowed
<1>. QED
  BY <1>1, <1>3, <1>4, <1>5, <1>6, <1>7, <1>8, <1>9, <1>10, <1>11

LEMMA MinusNodes ==
  ASSUME NEW g, WellFormed(g), NEW n \in DOMAIN g.nodes, g.nodes[n].op = "Minus"
  PROVE  /\ g.nodes[n].mode # "b" /\ DOMAIN g.nodes[n].in = {1}
         /\ g.nodes[g.nodes[n].in[1]].mode # "b"
<1> DEFINE node == g.nodes[n]
<1>1. NodeAllowed(g, n) /\ node.in \in Seq(DOMAIN g.nodes)
  BY DEF WellFormed
<1>2. /\ Len(node.in) \in Nat /\ DOMAIN node.in = 1..Len(node.in)
      /\ 1..1 = {1} /\ 1..2 = {1, 2} /\ 1..3 = {1, 2, 3}
  BY <1>1
<1>. QED
  BY <1>1, <1>2 DEF NodeAllowed

LEMMA CmpNodes ==
  ASSUME NEW g, WellFormed(g), NEW n \in DOMAIN g.nodes, g.nodes[n].op = "Cmp"
  PROVE  /\ g.nodes[n].mode = "b" /\ g.nodes[n].attr \in Relations /\ DOMAIN g.nodes[n].in = {1, 2}
         /\ \A i \in {1, 2} : g.nodes[g.nodes[n].in[i]].mode # "b"
<1> DEFINE node == g.nodes[n]
<1>1. NodeAllowed(g, n) /\ node.in \in Seq(DOMAIN g.nodes)
  BY DEF WellFormed
<1>2. /\ Len(node.in) \in Nat /\ DOMAIN node.in = 1..Len(node.in)
      /\ 1..1 = {1} /\ 1..2 = {1, 2} /\ 1..3 = {1, 2, 3}
  BY <1>1
<1>. QED
  BY <1>1, <1>2 DEF NodeAllowed

LEMMA MuxNodes ==
  ASSUME NEW g, WellFormed(g), NEW n \in DOMAIN g.nodes, NEW in, in = g.nodes[n].in, g.nodes[n].op = "Mux"
  PROVE  /\ DOMAIN in = {1, 2, 3}
         /\ \A i \in {2, 3} : g.nodes[in[i]].op = "Const" /\ g.nodes[in[i]].mode = g.nodes[n].mode
<1> DEFINE node == g.nodes[n]
<1>1. NodeAllowed(g, n) /\ node.in \in Seq(DOMAIN g.nodes)
  BY DEF WellFormed
<1>2. /\ Len(node.in) \in Nat /\ DOMAIN node.in = 1..Len(node.in)
      /\ 1..1 = {1} /\ 1..2 = {1, 2} /\ 1..3 = {1, 2, 3}
  BY <1>1
<1>. QED
  BY <1>1, <1>2 DEF NodeAllowed

LEMMA TarvalsHaveNumbers ==
  ASSUME NEW s, WellFormed(s.g), Links(s), NEW n \in DOMAIN s.g.nodes, NEW p
  PROVE  tarval(p, s, n).v \in Int
<1> DEFINE node == s.g.nodes[n]
<1>1. KnowsMore(s, s)
  BY DEF KnowsMore
<1>2. /\ \A x : Linked(s, x).v \in Int
      /\ \A x, i : get_tarval(s, x, i).v \in Int
  BY <1>1, OperandsKeepValues
<1>3. NoTarval.v \in Int /\ BadTarval.v \in Int /\ \A truth : TarvalB(truth).v \in Int
  BY DEF NoTarval, BadTarval, TarvalB, Tarval
<1>4. \A mode : \A v : Tarval(mode, v).v = v
  BY DEF Tarval
<1>5. \A x : phi_tarval(s, x).v \in Int
  BY <1>2, <1>3 DEF phi_tarval
<1>6. ASSUME NEW x \in DOMAIN s.g.nodes, s.g.nodes[x].op = "Const"
      PROVE  get_Const_tarval(s.g.nodes[x]).v \in Int
  BY <1>3, <1>4, <1>6, AllowedNodes DEF get_Const_tarval
<1>7. CASE p = "folding"
  <2>1. ASSUME NEW l, NEW r, l.v \in Int, r.v \in Int
        PROVE  fold_binary(node, l, r).v \in Int
    <3>1. /\ l.v + r.v \in Int /\ l.v - r.v \in Int /\ l.v * r.v \in Int /\ 0 \in Int
      BY <2>1
    <3>2. /\ wrap(l.v + r.v) \in Int /\ wrap(l.v - r.v) \in Int /\ wrap(l.v * r.v) \in Int /\ wrap(0) \in Int
      BY <3>1, WrapInt
    <3>. QED
      BY <1>3, <1>4, <3>2 DEF fold_binary
  <2>2. ASSUME NEW l, l.v \in Int
        PROVE  wrap(-l.v) \in Int
    BY <2>2, WrapInt
  <2>3. folding_tarval(s, n).v \in Int
    BY <1>2, <1>3, <1>4, <1>5, <1>6, <2>1, <2>2 DEF folding_tarval
  <2>. QED
    BY <1>7, <2>3 DEF tarval
<1>8. CASE p # "folding"
  <2>1. compare_tarval(s, node).v \in Int
    BY <1>3 DEF compare_tarval
  <2>2. ASSUME node.op = "Mux"
        PROVE  \A sel : mux_tarval(s, node, sel).v \in Int
    <3>1. node.in \in Seq(DOMAIN s.g.nodes) /\ DOMAIN node.in = {1, 2, 3}
      BY <2>2, AllowedNodes
    <3>2. node.in[2] \in DOMAIN s.g.nodes /\ node.in[3] \in DOMAIN s.g.nodes
      BY <3>1
    <3>. QED
      BY <1>2, <1>3, <1>6, <3>2 DEF mux_tarval
  <2>3. conditional_tarval(s, node).v \in Int
    BY <1>2, <1>3, <1>5, <2>1, <2>2 DEF conditional_tarval
  <2>. QED
    BY <1>8, <2>3 DEF tarval
<1>. QED
  BY <1>7, <1>8

\* Nothing that is known of a node changes when more is known.
LEMMA TarvalsKeepValues ==
  ASSUME NEW s, NEW t, WellFormed(s.g), KnowsMore(s, t), NEW n \in DOMAIN s.g.nodes, NEW p,
         tarval(p, s, n) # NoTarval
  PROVE  tarval(p, t, n) = tarval(p, s, n)
<1> DEFINE node == s.g.nodes[n]
<1>1. t.g = s.g /\ node.in \in Seq(DOMAIN s.g.nodes)
  BY AllowedNodes DEF KnowsMore
<1>2. \A x, i : get_tarval(s, x, i) # NoTarval => get_tarval(t, x, i) = get_tarval(s, x, i)
  BY OperandsKeepValues
<1>3. CASE node.op = "Phi"
  <2>1. node.in # <<>>
    BY <1>3, AllowedNodes
  <2>2. tarval(p, s, n) = phi_tarval(s, node) /\ tarval(p, t, n) = phi_tarval(t, node)
    BY <1>1, <1>3 DEF tarval, folding_tarval, conditional_tarval
  <2>. QED
    BY <1>1, <2>1, <2>2, PhiKeepsValue
<1>4. CASE node.op # "Phi" /\ p = "folding"
  <2>1. tarval(p, s, n) = folding_tarval(s, n) /\ tarval(p, t, n) = folding_tarval(t, n)
    BY <1>4 DEF tarval
  <2>2. CASE node.op \in {"Add", "Sub", "Mul"}
    <3>1. Len(node.in) = 2
      BY <2>2, AllowedNodes
    <3>2. /\ tarval(p, s, n) = fold_binary(node, get_tarval(s, node, 1), get_tarval(s, node, 2))
          /\ tarval(p, t, n) = fold_binary(node, get_tarval(t, node, 1), get_tarval(t, node, 2))
      BY <1>1, <2>1, <2>2 DEF folding_tarval
    <3>. QED
      BY <1>1, <2>2, <3>1, <3>2, FoldBinaryKeepsValue
  <2>3. CASE node.op = "Minus"
    <3>1. ~is_tarval_numeric(NoTarval)
      BY DEF is_tarval_numeric, NoTarval, Tarval
    <3>. QED
      BY <1>1, <1>2, <2>1, <2>3, <3>1 DEF folding_tarval
  <2>4. CASE node.op \notin {"Add", "Sub", "Mul", "Minus"}
    BY <1>1, <1>4, <2>1, <2>4 DEF folding_tarval
  <2>. QED
    BY <2>2, <2>3, <2>4
<1>5. CASE node.op # "Phi" /\ p # "folding"
  <2>1. tarval(p, s, n) = conditional_tarval(s, node) /\ tarval(p, t, n) = conditional_tarval(t, node)
    BY <1>1, <1>5 DEF tarval
  <2>2. CASE node.op = "Mux"
    <3>1. \A i \in {2, 3} : s.g.nodes[node.in[i]].op = "Const"
      BY <2>2, AllowedNodes
    <3>2. TarvalB(TRUE) # NoTarval /\ TarvalB(FALSE) # NoTarval
      BY DEF TarvalB, NoTarval, Tarval
    <3>3. /\ tarval(p, s, n) = mux_tarval(s, node, get_tarval(s, node, 1))
          /\ tarval(p, t, n) = mux_tarval(t, node, get_tarval(t, node, 1))
      BY <2>1, <2>2 DEF conditional_tarval
    <3>4. get_tarval(s, node, 1) \in {TarvalB(TRUE), TarvalB(FALSE)}
      BY <3>3 DEF mux_tarval
    <3>5. get_tarval(t, node, 1) = get_tarval(s, node, 1)
      BY <1>2, <3>2, <3>4
    <3>. QED
      BY <1>1, <3>1, <3>3, <3>5 DEF mux_tarval
  <2>3. CASE node.op = "Cmp"
    BY <1>1, <2>1, <2>3 DEF conditional_tarval, compare_tarval
  <2>4. CASE node.op \notin {"Mux", "Cmp"}
    BY <1>1, <1>2, <1>5, <2>1, <2>4 DEF conditional_tarval
  <2>. QED
    BY <2>2, <2>3, <2>4
<1>. QED
  BY <1>3, <1>4, <1>5

-----------------------------------------------------------------------------
(* One node of the queue. *)

Worklist(s) == {"g", "link", "queue", "again", "changed"} \subseteq DOMAIN s

\* To learn what the handling of a node yields leaves all knowledge consistent.
LEMMA LearningKeepsConsistent ==
  ASSUME NEW p, NEW s, WellFormed(s.g), Consistent(p, s), NEW t, NEW n, t.g = s.g,
         t.link = s.link \/ t.link = [s.link EXCEPT ![n] = tarval(p, s, n)]
  PROVE  Consistent(p, t)
<1>1. /\ DOMAIN s.link = DOMAIN s.g.nodes /\ DOMAIN t.link = DOMAIN s.link
      /\ \A m \in DOMAIN s.link : t.link[m] = s.link[m] \/ (m = n /\ t.link[m] = tarval(p, s, n))
  BY DEF Consistent, Links
<1>2. \A m \in DOMAIN s.link : s.link[m] # NoTarval => t.link[m] = s.link[m]
  BY <1>1 DEF Consistent
<1>3. Links(t)
  BY <1>1, TarvalsHaveNumbers DEF Consistent, Links
<1>4. KnowsMore(s, t)
  BY <1>2, <1>3 DEF KnowsMore, Consistent
<1>5. ASSUME NEW m \in DOMAIN t.link, t.link[m] # NoTarval
      PROVE  t.link[m] = tarval(p, t, m)
  <2>1. t.link[m] = tarval(p, s, m)
    BY <1>1, <1>5 DEF Consistent
  <2>. QED
    BY <1>1, <1>4, <1>5, <2>1, TarvalsKeepValues
<1>. QED
  BY <1>3, <1>5 DEF Consistent

LEMMA SameKnowledge ==
  ASSUME NEW p, NEW s, WellFormed(s.g), Consistent(p, s), NEW t, t.g = s.g, t.link = s.link
  PROVE  Consistent(p, t)
<1>1. PICK n : n = 0
  OBVIOUS
<1>. QED
  BY <1>1, LearningKeepsConsistent

LEMMA HandlingLearns ==
  ASSUME NEW p, NEW s, Worklist(s), NEW n, NEW t, t = handle_value(p, s, n)
  PROVE  /\ Worklist(t) /\ t.g = s.g
         /\ t.link = s.link \/ t.link = [s.link EXCEPT ![n] = tarval(p, s, n)]
<1>1. CASE p = "folding"
  <2> DEFINE tv == folding_tarval(s, n)
  <2>1. t = folding_handle(s, n) /\ tarval(p, s, n) = tv
    BY <1>1 DEF handle_value, tarval
  <2> HIDE DEF tv
  <2>2. CASE tv = NoTarval
    <3>1. t = [s EXCEPT !.again = FALSE]
      BY <2>1, <2>2 DEF folding_handle, tv
    <3>. QED
      BY <3>1 DEF Worklist
  <2>3. CASE tv # NoTarval
    <3>1. PICK again : t = [[s EXCEPT !.link[n] = tv] EXCEPT !.again = again]
      BY <2>1, <2>3 DEF folding_handle, tv
    <3>. QED
      BY <2>1, <3>1 DEF Worklist
  <2>. QED
    BY <2>2, <2>3
<1>2. CASE p # "folding"
  <2> DEFINE tv == conditional_tarval(s, s.g.nodes[n])
  <2>1. t = conditional_handle(s, n) /\ tarval(p, s, n) = tv
    BY <1>2 DEF handle_value, tarval
  <2>2. PICK again : t = [s EXCEPT !.link[n] = tv, !.again = again]
    BY <2>1 DEF conditional_handle
  <2> HIDE DEF tv
  <2>. QED
    BY <2>1, <2>2 DEF Worklist
<1>. QED
  BY <1>1, <1>2

LEMMA RequeuingKeeps ==
  ASSUME NEW s, Worklist(s), NEW n, NEW t, t = Requeued(s, n)
  PROVE  Worklist(t) /\ t.g = s.g /\ t.link = s.link
BY DEF Requeued, Worklist

\* The tarval of a node that has a number or a truth value.
LEMMA FoldedNodes ==
  ASSUME NEW s, WellFormed(s.g), NEW n \in DOMAIN s.g.nodes, folding_tarval(s, n) # NoTarval
  PROVE  s.g.nodes[n].op \in {"Const", "Add", "Sub", "Mul", "Minus", "Phi"}
BY DEF folding_tarval

LEMMA FoldingKeepsRewritten ==
  ASSUME NEW src, WellFormed(src), NEW s, Worklist(s), Consistent("folding", [g |-> src, link |-> s.link]),
         Rewritten(src, s.link, s.g), NEW n \in DOMAIN src.nodes, NEW t, t = folding_cleanup(s, n)
  PROVE  Worklist(t) /\ t.link = s.link /\ t.queue = s.queue /\ Rewritten(src, t.link, t.g)
<1> DEFINE node == s.g.nodes[n]
           val == Linked(s, n)
           known == [g |-> src, link |-> s.link]
<1>1. CASE node.op = "Const" \/ ~is_tarval_numeric(val)
  <2>1. t = s
    BY <1>1 DEF folding_cleanup
  <2>. QED
    BY <2>1
<1>2. CASE node.op # "Const" /\ is_tarval_numeric(val)
  <2> DEFINE attr == IF val.mode = "b" THEN val.v = 1 ELSE val.v
             g == Replaced(s.g, n, StartBlock, "Const", val.mode, attr)
  <2>1. DOMAIN s.link = DOMAIN src.nodes /\ val = s.link[n]
    BY DEF Consistent, Links, Linked
  <2>2. val # NoTarval /\ val # BadTarval
    BY <1>2 DEF is_tarval_numeric, NoTarval, BadTarval, Tarval
  <2>3. folding_tarval(known, n) # NoTarval
    BY <2>1, <2>2 DEF Consistent, tarval
  <2>4. src.nodes[n].op \in {"Const", "Add", "Sub", "Mul", "Minus", "Phi"}
    BY <2>3, FoldedNodes
  <2>5. OldNode(src, s.link, s.g, n)
    BY DEF Rewritten
  <2>6. src.nodes[n].op # "Const" /\ node.op \notin {"Div", "Mod"}
    BY <1>2, <2>4, <2>5 DEF OldNode, Gone, Valued, Decides, Pure
  <2>7. Valued(src, s.link, n)
    BY <2>1, <2>2, <2>4, <2>6 DEF Valued, Pure
  <2>8. t = [s EXCEPT !.changed = TRUE, !.g = g]
    BY <1>2, <2>6 DEF folding_cleanup, new_r_Const, Replaced
  <2>9. Replaces(src, s.link, [op |-> "Const", mode |-> val.mode, block |-> StartBlock, in |-> <<>>, attr |-> attr], n)
    BY <2>1, <2>7 DEF Replaces, Denotes
  <2>10. Rewritten(src, s.link, g)
    BY <2>7, <2>9, ReplacingKeepsRewritten
  <2> HIDE DEF g
  <2>. QED
    BY <2>8, <2>10 DEF Worklist
<1>. QED
  BY <1>1, <1>2

\* What conditional's handling knows: a Mux has the value of one of its constants,
\* and a Cond that of the comparison it depends on.
LEMMA DecidedMux ==
  ASSUME NEW s, WellFormed(s.g), NEW n \in DOMAIN s.g.nodes, NEW node, node = s.g.nodes[n], node.op = "Mux",
         conditional_tarval(s, node) # NoTarval
  PROVE  \/ /\ get_tarval(s, node, 1) = TarvalB(TRUE)
            /\ conditional_tarval(s, node) = get_Const_tarval(s.g.nodes[node.in[3]])
         \/ /\ get_tarval(s, node, 1) = TarvalB(FALSE)
            /\ conditional_tarval(s, node) = get_Const_tarval(s.g.nodes[node.in[2]])
<1>1. s.g.nodes[node.in[2]].op = "Const" /\ s.g.nodes[node.in[3]].op = "Const"
  BY AllowedNodes
<1>2. conditional_tarval(s, node) = mux_tarval(s, node, get_tarval(s, node, 1))
  BY DEF conditional_tarval
<1>. QED
  BY <1>1, <1>2 DEF mux_tarval

LEMMA DecidedCond ==
  ASSUME NEW s, WellFormed(s.g), Links(s), NEW n \in DOMAIN s.g.nodes, NEW node, node = s.g.nodes[n], node.op = "Cond",
         conditional_tarval(s, node) # NoTarval
  PROVE  /\ node.in[1] \in DOMAIN s.g.nodes /\ s.g.nodes[node.in[1]].op = "Cmp"
         /\ s.g.nodes[node.in[1]].block = node.block
         /\ conditional_tarval(s, node) = s.link[node.in[1]]
<1>1. s.g.nodes[node.in[1]].op = "Cmp" /\ conditional_tarval(s, node) = get_tarval(s, node, 1)
  BY DEF conditional_tarval
<1>2. DOMAIN node.in = {1} /\ node.in \in Seq(DOMAIN s.g.nodes)
  BY AllowedNodes
<1>3. node.in[1] \in DOMAIN s.g.nodes
  BY <1>2
<1>4. s.g.nodes[node.in[1]].block = node.block
  BY <1>1, AllowedNodes
<1>. QED
  BY <1>1, <1>2, <1>3, <1>4 DEF get_tarval, Linked, Links

LEMMA DecidedCondition ==
  ASSUME NEW src, WellFormed(src), NEW link, Consistent("conditional", [g |-> src, link |-> link]),
         NEW c \in DOMAIN src.nodes, src.nodes[c].op = "Cond", link[c] # NoTarval,
         NEW q, q = src.nodes[c].in[1]
  PROVE  /\ q \in DOMAIN src.nodes /\ src.nodes[q].op = "Cmp"
         /\ src.nodes[q].block = src.nodes[c].block /\ link[c] = link[q]
<1> DEFINE known == [g |-> src, link |-> link]
<1>1. known.g = src /\ known.link = link /\ Links(known)
  BY DEF Consistent
<1>2. link[c] = conditional_tarval(known, src.nodes[c])
  BY DEF Consistent, Links, tarval
<1> HIDE DEF known
<1>. QED
  BY <1>1, <1>2, DecidedCond

\* The edges of a condition leave the block it is in.
LEMMA EdgesOfConditions ==
  ASSUME NEW src, WellFormed(src), NEW n \in DOMAIN src.nodes, src.nodes[n].op = "Proj",
         1 \in DOMAIN src.nodes[n].in, NEW c, c = src.nodes[n].in[1], src.nodes[c].op = "Cond"
  PROVE  /\ src.nodes[n].mode = "X" /\ src.nodes[n].attr \in {"true", "false"}
         /\ c \in DOMAIN src.nodes /\ src.nodes[c].block = src.nodes[n].block
         /\ DOMAIN src.nodes[c].in = {1} /\ src.nodes[c].in[1] \in DOMAIN src.nodes
<1>1. \E i \in DOMAIN src.nodes[n].in : src.nodes[src.nodes[n].in[i]].op = "Cond"
  OBVIOUS
<1>2. /\ src.nodes[n].mode = "X" /\ src.nodes[n].attr \in {"true", "false"}
      /\ src.nodes[c].block = src.nodes[n].block /\ src.nodes[n].in \in Seq(DOMAIN src.nodes)
  BY <1>1, AllowedNodes
<1>3. c \in DOMAIN src.nodes
  BY <1>2
<1>4. DOMAIN src.nodes[c].in = {1} /\ src.nodes[c].in \in Seq(DOMAIN src.nodes)
  BY <1>3, AllowedNodes
<1>5. src.nodes[c].in[1] \in DOMAIN src.nodes
  BY <1>4
<1>. QED
  BY <1>2, <1>3, <1>4, <1>5

LEMMA MuxesAreValued ==
  ASSUME NEW s, WellFormed(s.g), Consistent("conditional", s), NEW n \in DOMAIN s.g.nodes,
         s.g.nodes[n].op = "Mux", s.link[n] # NoTarval
  PROVE  s.link[n] # BadTarval
<1> DEFINE node == s.g.nodes[n]
<1>1. s.link[n] = conditional_tarval(s, node)
  BY DEF Consistent, Links, tarval
<1>2. PICK i \in {2, 3} : s.link[n] = get_Const_tarval(s.g.nodes[node.in[i]])
  BY <1>1, DecidedMux
<1>3. s.g.nodes[node.in[i]].mode = node.mode /\ node.mode # "bad"
  BY AllowedNodes
<1>. QED
  BY <1>2, <1>3 DEF get_Const_tarval, Tarval, TarvalB, BadTarval

\* Neither conditions nor comparisons are ever replaced.
LEMMA ConditionsStay ==
  ASSUME NEW src, NEW link, NEW g, Rewritten(src, link, g), NEW x \in DOMAIN src.nodes,
         src.nodes[x].op \in {"Cond", "Cmp"}
  PROVE  /\ ~Gone(src, g, x) /\ g.nodes[x].block = src.nodes[x].block
         /\ StandFor(src, link, g, g.nodes[x].in, src.nodes[x].in)
BY DEF Rewritten, OldNode, Valued, Decides, Pure

LEMMA NewNodesAreNoConditions ==
  ASSUME NEW src, NEW link, NEW g, Rewritten(src, link, g), NEW x \in DOMAIN src.nodes,
         NEW y, Stands(src, link, g, y, x), g.nodes[y].op = "Cond"
  PROVE  y = x /\ src.nodes[x].op = "Cond"
<1>1. CASE Gone(src, g, x)
  BY <1>1 DEF Stands, Rewritten
<1>2. CASE ~Gone(src, g, x)
  BY <1>2 DEF Stands, Gone
<1>. QED
  BY <1>1, <1>2

LEMMA ConditionalKeepsRewritten ==
  ASSUME NEW src, WellFormed(src), NEW s, Worklist(s),
         Consistent("conditional", [g |-> src, link |-> s.link]),
         Rewritten(src, s.link, s.g), NEW n \in DOMAIN src.nodes, NEW t, t = conditional_cleanup(s, n)
  PROVE  Worklist(t) /\ t.link = s.link /\ t.queue = s.queue /\ Rewritten(src, t.link, t.g)
<1> DEFINE node == s.g.nodes[n]
           old == src.nodes[n]
           val == Linked(s, n)
           c == node.in[1]
           cond == s.g.nodes[c]
           known == [g |-> src, link |-> s.link]
<1>1. /\ OldNode(src, s.link, s.g, n)
      /\ node.op \in {"Mux", "Proj"} => ~Gone(src, s.g, n) /\ node.op = old.op
      /\ node.mode = old.mode /\ node.block = old.block /\ node.attr = old.attr
  BY DEF Rewritten, OldNode, Gone
<1>2. DOMAIN s.link = DOMAIN src.nodes /\ \A x \in DOMAIN src.nodes : Linked(s, x) = s.link[x]
  BY DEF Consistent, Links, Linked
<1>3. old.in \in Seq(DOMAIN src.nodes)
  BY AllowedNodes
<1>4. ASSUME NEW b, NEW op, NEW mode, NEW attr,
             Valued(src, s.link, n) \/ Decides(src, s.link, n),
             Replaces(src, s.link, [op |-> op, mode |-> mode, block |-> b, in |-> <<>>, attr |-> attr], n),
             t = [s EXCEPT !.g = Replaced(s.g, n, b, op, mode, attr)]
      PROVE  Worklist(t) /\ t.link = s.link /\ t.queue = s.queue /\ Rewritten(src, t.link, t.g)
  <2>1. Rewritten(src, s.link, Replaced(s.g, n, b, op, mode, attr))
    BY <1>4, ReplacingKeepsRewritten
  <2>. QED
    BY <1>4, <2>1 DEF Worklist
<1>5. CASE node.op = "Mux" /\ val # NoTarval
  <2> DEFINE attr == IF val.mode = "b" THEN val.v = 1 ELSE val.v
  <2>1. Valued(src, s.link, n)
    BY <1>1, <1>2, <1>5, MuxesAreValued DEF Valued, Pure
  <2>2. t = [s EXCEPT !.g = Replaced(s.g, n, StartBlock, "Const", val.mode, attr)]
    BY <1>5 DEF conditional_cleanup, new_r_Const, Replaced
  <2>3. Replaces(src, s.link, [op |-> "Const", mode |-> val.mode, block |-> StartBlock, in |-> <<>>, attr |-> attr], n)
    BY <1>2, <2>1 DEF Replaces, Denotes
  <2>. QED
    BY <1>4, <2>1, <2>2, <2>3
<1>6. CASE node.op = "Proj" /\ node.in # <<>> /\ cond.op = "Cond" /\ Linked(s, c) \in Decided
  <2>1. StandFor(src, s.link, s.g, node.in, old.in) /\ old.op = "Proj"
    BY <1>1, <1>6 DEF OldNode
  <2>2. 1 \in DOMAIN old.in /\ old.in[1] \in DOMAIN src.nodes
    <3>1. node.in = [i \in DOMAIN old.in |-> node.in[i]]
      BY <2>1 DEF StandFor
    <3>2. CASE old.in = <<>>
      <4>1. node.in = [i \in {} |-> node.in[i]]
        BY <3>1, <3>2
      <4>2. [i \in {} |-> node.in[i]] = <<>>
        OBVIOUS
      <4>. QED
        BY <1>6, <4>1, <4>2
    <3>3. CASE old.in # <<>>
      BY <1>3, <3>3
    <3>. QED
      BY <3>2, <3>3
  <2>3. c = old.in[1] /\ src.nodes[c].op = "Cond"
    <3>1. Stands(src, s.link, s.g, c, old.in[1])
      BY <2>1, <2>2 DEF StandFor
    <3>. QED
      BY <1>6, <2>2, <3>1, NewNodesAreNoConditions
  <2>4. old.mode = "X" /\ src.nodes[c].block = old.block
    BY <2>1, <2>2, <2>3, EdgesOfConditions
  <2>5. s.link[c] = Linked(s, c) /\ s.link[c] # NoTarval /\ s.link[c] = conditional_tarval(known, src.nodes[c])
    BY <1>2, <1>6, <2>2, <2>3 DEF Decided, TarvalB, NoTarval, Tarval, Consistent, tarval
  <2> DEFINE q == src.nodes[c].in[1]
  <2>6. q \in DOMAIN src.nodes /\ src.nodes[q].op = "Cmp" /\ src.nodes[q].block = old.block
    <3>1. c \in DOMAIN src.nodes /\ src.nodes[c].op = "Cond" /\ s.link[c] # NoTarval /\ q = src.nodes[c].in[1]
      BY <2>2, <2>3, <2>5
    <3>2. src.nodes[c].block = old.block
      BY <2>4
    <3> HIDE DEF c, q, old
    <3>. QED
      BY <3>1, <3>2, DecidedCondition
  <2>7. cond.in[1] = q /\ s.g.nodes[q].block = old.block
    <3>0. c \in DOMAIN src.nodes /\ src.nodes[c].op \in {"Cond", "Cmp"} /\ src.nodes[q].op \in {"Cond", "Cmp"}
      BY <2>2, <2>3, <2>6
    <3>1. StandFor(src, s.link, s.g, cond.in, src.nodes[c].in)
      BY <3>0, ConditionsStay
    <3>2. ~Gone(src, s.g, q) /\ s.g.nodes[q].block = src.nodes[q].block
      <4> HIDE DEF q, c
      <4>. QED
        BY <2>6, <3>0, ConditionsStay
    <3>3. 1 \in DOMAIN src.nodes[c].in
      BY <2>1, <2>2, <2>3, EdgesOfConditions
    <3>. QED
      BY <2>6, <3>1, <3>2, <3>3 DEF StandFor, Stands
  <2>8. Decides(src, s.link, n)
    BY <1>6, <2>1, <2>3, <2>4, <2>5 DEF Decides
  <2>9. CASE s.link[c] = TarvalB(node.attr = "true")
    <3>1. t = [s EXCEPT !.g = Replaced(s.g, n, old.block, "Jmp", "X", 0)]
      BY <1>6, <2>5, <2>7, <2>9 DEF conditional_cleanup, Replaced, Decided
    <3>2. Replaces(src, s.link, [op |-> "Jmp", mode |-> "X", block |-> old.block, in |-> <<>>, attr |-> 0], n)
      BY <1>1, <2>3, <2>8, <2>9 DEF Replaces
    <3>. QED
      BY <1>4, <2>8, <3>1, <3>2
  <2>10. CASE s.link[c] # TarvalB(node.attr = "true")
    <3>1. t = [s EXCEPT !.g = Replaced(s.g, n, StartBlock, "Bad", "X", 0)]
      BY <1>6, <2>5, <2>10 DEF conditional_cleanup, Replaced, Decided
    <3>2. Replaces(src, s.link, [op |-> "Bad", mode |-> "X", block |-> StartBlock, in |-> <<>>, attr |-> 0], n)
      BY <1>1, <2>3, <2>8, <2>10 DEF Replaces
    <3>. QED
      BY <1>4, <2>8, <3>1, <3>2
  <2>. QED
    BY <2>9, <2>10
<1>7. CASE /\ ~(node.op = "Mux" /\ val # NoTarval)
           /\ ~(node.op = "Proj" /\ node.in # <<>> /\ cond.op = "Cond" /\ Linked(s, c) \in Decided)
  <2>1. t = s
    BY <1>7 DEF conditional_cleanup, Decided
  <2>. QED
    BY <2>1
<1>. QED
  BY <1>5, <1>6, <1>7

-----------------------------------------------------------------------------
(* What is known of a node is what it yields. *)

LEMMA ComparisonsHaveTruth ==
  \A relation, l, r : Compare(relation, l, r) \in BOOLEAN
BY Zenon DEF Compare

Typed(node, v) == v \in IF node.mode = "b" THEN BOOLEAN ELSE Int

\* v are values node n's operands may have: of their types, for constants the
\* constant, for the same operand the same, and as what is linked to them says.
Operands(g, link, n, v) ==
  LET in == g.nodes[n].in
  IN /\ \A i \in DOMAIN in : Typed(g.nodes[in[i]], v[i])
     /\ \A i \in DOMAIN in : g.nodes[in[i]].op = "Const" => v[i] = g.nodes[in[i]].attr
     /\ \A i, j \in DOMAIN in : in[i] = in[j] => v[i] = v[j]
     /\ \A i \in DOMAIN in : link[in[i]] \notin {NoTarval, BadTarval} => Denotes(link[in[i]], v[i])

LEMMA ComputedIsTyped ==
  ASSUME NEW g, WellFormed(g), NEW link, NEW n \in DOMAIN g.nodes, g.nodes[n].op \in Pure,
         NEW v, Operands(g, link, n, v)
  PROVE  Typed(g.nodes[n], Computed(g.nodes[n], v))
<1> DEFINE node == g.nodes[n]
<1>1. \A i \in DOMAIN node.in : Typed(g.nodes[node.in[i]], v[i])
  BY DEF Operands
<1>2. CASE node.op \in {"Add", "Sub", "Mul"}
  <2>1. v[1] \in Int /\ v[2] \in Int /\ node.mode # "b"
    BY <1>1, <1>2, AllowedNodes DEF Typed
  <2>2. v[1] + v[2] \in Int /\ v[1] - v[2] \in Int /\ v[1] * v[2] \in Int
    BY <2>1
  <2>3. wrap(v[1] + v[2]) \in Int /\ wrap(v[1] - v[2]) \in Int /\ wrap(v[1] * v[2]) \in Int
    BY <2>2, WrapInt
  <2>. QED
    BY <1>2, <2>1, <2>3 DEF Typed, Computed
<1>3. CASE node.op = "Minus"
  <2>1. v[1] \in Int /\ node.mode # "b"
    BY <1>1, <1>3, MinusNodes DEF Typed
  <2>2. wrap(-v[1]) \in Int
    BY <2>1, WrapInt
  <2>. QED
    BY <1>3, <2>1, <2>2 DEF Typed, Computed
<1>4. CASE node.op = "Cmp"
  <2>1. node.mode = "b" /\ node.attr \in Relations /\ v[1] \in Int /\ v[2] \in Int
    BY <1>1, <1>4, CmpNodes DEF Typed
  <2>2. Compare(node.attr, v[1], v[2]) \in BOOLEAN
    BY <2>1, ComparisonsHaveTruth
  <2>. QED
    BY <1>4, <2>1, <2>2 DEF Typed, Computed
<1>5. CASE node.op = "Mux"
  <2>1. DOMAIN node.in = {1, 2, 3} /\ \A i \in {2, 3} : g.nodes[node.in[i]].mode = node.mode
    BY <1>5, MuxNodes
  <2>2. Typed(node, v[2]) /\ Typed(node, v[3])
    BY <1>1, <2>1 DEF Typed
  <2>. QED
    BY <1>5, <2>2 DEF Computed
<1>. QED
  BY <1>2, <1>3, <1>4, <1>5 DEF Pure

LEMMA FoldedIsComputed ==
  ASSUME NEW g, WellFormed(g), NEW link, Consistent("folding", [g |-> g, link |-> link]),
         NEW n \in DOMAIN g.nodes, g.nodes[n].op \in Pure, NEW v, Operands(g, link, n, v),
         link[n] \notin {NoTarval, BadTarval}
  PROVE  Denotes(link[n], Computed(g.nodes[n], v))
<1> DEFINE node == g.nodes[n]
           s == [g |-> g, link |-> link]
           l == get_tarval(s, node, 1)
           r == get_tarval(s, node, 2)
<1>1. DOMAIN link = DOMAIN g.nodes /\ link[n] = folding_tarval(s, n) /\ s.g = g /\ s.link = link
  BY DEF Consistent, Links, tarval
<1>2. node.in \in Seq(DOMAIN g.nodes)
  BY AllowedNodes
<1>3. \A i \in DOMAIN node.in : node.in[i] \in DOMAIN g.nodes /\ get_tarval(s, node, i) = link[node.in[i]]
  BY <1>1, <1>2 DEF get_tarval, Linked
<1>4. \A i \in DOMAIN node.in : is_tarval_numeric(get_tarval(s, node, i)) =>
        get_tarval(s, node, i).v = v[i]
  BY <1>3 DEF Operands, is_tarval_numeric, Denotes, NoTarval, BadTarval, Tarval
<1>5. \A x : node.mode # "b" => Denotes(Tarval(node.mode, x), x)
  BY DEF Denotes, Tarval
<1> HIDE DEF s
<1>6. CASE node.op \in {"Add", "Sub", "Mul"}
  <2>1. /\ node.mode # "b" /\ DOMAIN node.in = {1, 2}
        /\ \A i \in {1, 2} : g.nodes[node.in[i]].mode # "b"
    BY <1>6, AllowedNodes
  <2>2. v[1] \in Int /\ v[2] \in Int /\ (node.in[1] = node.in[2] => v[1] = v[2])
    BY <2>1 DEF Operands, Typed
  <2>3. link[n] = fold_binary(node, l, r) /\ link[n] # NoTarval
    BY <1>1, <1>6 DEF folding_tarval
  <2>4. (is_tarval_numeric(l) => l.v = v[1]) /\ (is_tarval_numeric(r) => r.v = v[2])
    BY <1>4, <2>1
  <2> HIDE DEF l, r
  <2>5. CASE is_tarval_numeric(l) /\ is_tarval_numeric(r)
    <3>1. link[n] = Tarval(node.mode, Computed(node, v))
      BY <1>6, <2>3, <2>4, <2>5 DEF fold_binary, Computed
    <3>. QED
      BY <1>5, <2>1, <3>1
  <2>6. CASE ~(is_tarval_numeric(l) /\ is_tarval_numeric(r))
    <3>1. /\ link[n] = Tarval(node.mode, wrap(0))
          /\ \/ node.op = "Sub" /\ node.in[1] = node.in[2]
             \/ node.op = "Mul" /\ (is_tarval_with_num(l, 0) \/ is_tarval_with_num(r, 0))
      BY <1>6, <2>3, <2>6 DEF fold_binary
    <3>2. Computed(node, v) = wrap(0)
      <4>1. CASE node.op = "Sub" /\ node.in[1] = node.in[2]
        <5>1. v[1] - v[2] = 0
          BY <2>2, <4>1
        <5>. QED
          BY <4>1, <5>1 DEF Computed
      <4>2. CASE node.op = "Mul" /\ (is_tarval_with_num(l, 0) \/ is_tarval_with_num(r, 0))
        <5>1. v[1] = 0 \/ v[2] = 0
          BY <2>4, <4>2 DEF is_tarval_with_num
        <5>2. v[1] * v[2] = 0
          BY <2>2, <5>1
        <5>. QED
          BY <4>2, <5>2 DEF Computed
      <4>. QED
        BY <3>1, <4>1, <4>2
    <3>. QED
      BY <1>5, <2>1, <3>1, <3>2
  <2>. QED
    BY <2>5, <2>6
<1>7. CASE node.op = "Minus"
  <2>1. node.mode # "b" /\ DOMAIN node.in = {1}
    BY <1>7, AllowedNodes
  <2>2. is_tarval_numeric(l) /\ link[n] = Tarval(node.mode, wrap(-l.v))
    BY <1>1, <1>7 DEF folding_tarval
  <2>3. l.v = v[1]
    BY <1>4, <2>1, <2>2
  <2>. QED
    BY <1>5, <1>7, <2>1, <2>2, <2>3 DEF Computed
<1>8. CASE node.op \in {"Mux", "Cmp"}
  BY <1>1, <1>8 DEF folding_tarval
<1>. QED
  BY <1>6, <1>7, <1>8 DEF Pure

LEMMA ConditionalIsComputed ==
  ASSUME NEW g, WellFormed(g), NEW link, Consistent("conditional", [g |-> g, link |-> link]),
         NEW n \in DOMAIN g.nodes, g.nodes[n].op \in Pure, NEW v, Operands(g, link, n, v),
         link[n] \notin {NoTarval, BadTarval}
  PROVE  Denotes(link[n], Computed(g.nodes[n], v))
<1> DEFINE node == g.nodes[n]
           s == [g |-> g, link |-> link]
<1>1. DOMAIN link = DOMAIN g.nodes /\ link[n] = conditional_tarval(s, node) /\ s.g = g /\ s.link = link
  BY DEF Consistent, Links, tarval
<1>2. node.in \in Seq(DOMAIN g.nodes)
  BY AllowedNodes
<1>3. \A truth \in BOOLEAN : Denotes(TarvalB(truth), truth)
  BY DEF Denotes, TarvalB, Tarval
<1> HIDE DEF s
<1>4. CASE node.op = "Cmp"
  <2>1. /\ DOMAIN node.in = {1, 2} /\ node.attr \in Relations
        /\ \A i \in {1, 2} : g.nodes[node.in[i]].mode # "b"
    BY <1>4, CmpNodes
  <2>2. /\ \A i \in {1, 2} : g.nodes[node.in[i]].op = "Const" => v[i] = g.nodes[node.in[i]].attr
        /\ node.in[1] = node.in[2] => v[1] = v[2]
        /\ v[1] \in Int /\ v[2] \in Int
    BY <2>1 DEF Operands, Typed
  <2>3. link[n] = compare_tarval(s, node)
    BY <1>1, <1>4 DEF conditional_tarval
  <2>4. Compare(node.attr, v[1], v[2]) \in BOOLEAN /\ Computed(node, v) = Compare(node.attr, v[1], v[2])
    BY <1>4, <2>1, <2>2, ComparisonsHaveTruth DEF Computed
  <2>5. CASE g.nodes[node.in[1]].op = "Const" /\ g.nodes[node.in[2]].op = "Const"
    <3>1. \A i \in {1, 2} : get_Const_tarval(g.nodes[node.in[i]]).v = v[i]
      BY <2>1, <2>2, <2>5 DEF get_Const_tarval, Tarval
    <3>2. compare_tarval(s, node) =
            TarvalB(Compare(node.attr, get_Const_tarval(g.nodes[node.in[1]]).v,
                            get_Const_tarval(g.nodes[node.in[2]]).v))
      BY <1>1, <2>5 DEF compare_tarval
    <3>4. link[n] = TarvalB(Compare(node.attr, v[1], v[2]))
      BY <2>3, <3>1, <3>2
    <3>. QED
      BY <1>3, <2>4, <3>4
  <2>6. CASE ~(g.nodes[node.in[1]].op = "Const" /\ g.nodes[node.in[2]].op = "Const")
    <3>1. /\ node.in[1] = node.in[2]
          /\ \/ node.attr \in {"equal", "greater_equal"} /\ link[n] = TarvalB(TRUE)
             \/ node.attr = "not_equal" /\ link[n] = TarvalB(FALSE)
      BY <1>1, <2>3, <2>6 DEF compare_tarval
    <3>2. /\ node.attr \in {"equal", "greater_equal"} => Compare(node.attr, v[1], v[2]) = TRUE
          /\ node.attr = "not_equal" => Compare(node.attr, v[1], v[2]) = FALSE
      BY <2>2, <3>1 DEF Compare
    <3>. QED
      BY <1>3, <2>4, <3>1, <3>2
  <2>. QED
    BY <2>5, <2>6
<1>5. CASE node.op = "Mux"
  <2>1. /\ DOMAIN node.in = {1, 2, 3}
        /\ \A i \in {2, 3} : g.nodes[node.in[i]].op = "Const" /\ g.nodes[node.in[i]].mode = node.mode
    BY <1>5, MuxNodes
  <2>2. \A i \in {1, 2, 3} : node.in[i] \in DOMAIN g.nodes
    BY <1>2, <2>1
  <2>3. get_tarval(s, node, 1) = link[node.in[1]]
    BY <1>1, <2>1, <2>2 DEF get_tarval, Linked
  <2>4. ASSUME NEW truth \in BOOLEAN, get_tarval(s, node, 1) = TarvalB(truth)
        PROVE  v[1] = truth
    <3>1. TarvalB(truth) \notin {NoTarval, BadTarval}
      BY DEF TarvalB, NoTarval, BadTarval, Tarval
    <3>2. Denotes(TarvalB(truth), v[1])
      BY <2>1, <2>3, <2>4, <3>1 DEF Operands
    <3>. QED
      BY <3>2 DEF Denotes, TarvalB, Tarval
  <2>5. ASSUME NEW i \in {2, 3}
        PROVE  Denotes(get_Const_tarval(g.nodes[node.in[i]]), v[i])
    <3> DEFINE c == g.nodes[node.in[i]]
    <3>1. c.op = "Const" /\ c.attr \in (IF c.mode = "b" THEN BOOLEAN ELSE Int) /\ v[i] = c.attr
      BY <2>1, <2>2, AllowedNodes DEF Operands
    <3> HIDE DEF c
    <3>2. Denotes(get_Const_tarval(c), v[i])
      BY <3>1 DEF Denotes, get_Const_tarval, TarvalB, Tarval
    <3>. QED
      BY <3>2 DEF c
  <2>6. \/ /\ get_tarval(s, node, 1) = TarvalB(TRUE)
           /\ link[n] = get_Const_tarval(g.nodes[node.in[3]])
        \/ /\ get_tarval(s, node, 1) = TarvalB(FALSE)
           /\ link[n] = get_Const_tarval(g.nodes[node.in[2]])
    BY <1>1, <1>5, DecidedMux
  <2>. QED
    BY <1>5, <2>4, <2>5, <2>6 DEF Computed
<1>6. CASE node.op \in {"Add", "Sub", "Mul", "Minus"}
  BY <1>1, <1>6 DEF conditional_tarval
<1>. QED
  BY <1>4, <1>5, <1>6 DEF Pure

-----------------------------------------------------------------------------
(* The invariant. *)

Known == [g |-> source, link |-> work.link]

\* What was computed has a number or a truth value, as its node says.
ComputedValues ==
  \A n \in DOMAIN env :
    /\ n \in DOMAIN source.nodes /\ Typed(source.nodes[n], env[n])
    /\ Source!IsComputed(source.nodes[n]) \/ source.nodes[n].op = "Phi"

PassInv ==
  /\ pass \in {"folding", "conditional"} /\ source \in Inputs /\ Worklist(work)
  /\ Consistent(pass, Known)
  /\ Rewritten(source, work.link, work.g)
  /\ stage = "handle" => work.g = source
  /\ stage = "cleanup" => work.queue \in Seq(DOMAIN source.nodes)
  /\ stage # "run" => Source!Fresh

IInv == PassInv /\ ComputedValues /\ LinkedValuesHold

LEMMA InputsAreWellFormed ==
  ASSUME source \in Inputs
  PROVE  WellFormed(source) /\ WalkOrder(source) \in Seq(DOMAIN source.nodes)
BY InputsAssumption

LEMMA KnownValues ==
  ASSUME IInv, NEW x \in DOMAIN source.nodes, Source!IsKnown(x)
  PROVE  /\ Typed(source.nodes[x], Source!Value(x))
         /\ work.link[x] \notin {NoTarval, BadTarval} => Denotes(work.link[x], Source!Value(x))
<1> DEFINE node == source.nodes[x]
<1>1. WellFormed(source)
  BY InputsAreWellFormed DEF IInv, PassInv
<1>2. CASE node.op = "Const"
  <2>1. node.attr \in (IF node.mode = "b" THEN BOOLEAN ELSE Int) /\ Source!Value(x) = node.attr
    BY <1>1, <1>2, AllowedNodes DEF Source!Value
  <2>2. work.link[x] # NoTarval => work.link[x] = tarval(pass, Known, x)
    BY DEF IInv, PassInv, Consistent, Links, Known
  <2>3. tarval(pass, Known, x) = IF pass = "folding" THEN get_Const_tarval(node) ELSE NoTarval
    BY <1>2 DEF tarval, folding_tarval, conditional_tarval, Known
  <2>4. Denotes(get_Const_tarval(node), node.attr)
    <3> HIDE DEF node
    <3>. QED
      BY <2>1 DEF Denotes, get_Const_tarval, TarvalB, Tarval
  <2>. QED
    BY <2>1, <2>2, <2>3, <2>4 DEF Typed
<1>3. CASE node.op # "Const"
  BY <1>3 DEF Source!IsKnown, Source!Value, IInv, ComputedValues, LinkedValuesHold
<1>. QED
  BY <1>2, <1>3

LEMMA KnownOperands ==
  ASSUME IInv, NEW n \in DOMAIN source.nodes,
         \A i \in DOMAIN source.nodes[n].in : Source!IsKnown(source.nodes[n].in[i])
  PROVE  Operands(source, work.link, n,
                  [i \in DOMAIN source.nodes[n].in |-> Source!Value(source.nodes[n].in[i])])
<1> DEFINE in == source.nodes[n].in
           v == [i \in DOMAIN in |-> Source!Value(in[i])]
<1>1. in \in Seq(DOMAIN source.nodes)
  BY InputsAreWellFormed, AllowedNodes DEF IInv, PassInv
<1>2. \A i \in DOMAIN in : in[i] \in DOMAIN source.nodes /\ v[i] = Source!Value(in[i])
  BY <1>1
<1>3. \A i \in DOMAIN in : Typed(source.nodes[in[i]], v[i])
  BY <1>2, KnownValues
<1>4. \A i \in DOMAIN in : work.link[in[i]] \notin {NoTarval, BadTarval} => Denotes(work.link[in[i]], v[i])
  BY <1>2, KnownValues
<1>5. \A i \in DOMAIN in : source.nodes[in[i]].op = "Const" => v[i] = source.nodes[in[i]].attr
  BY <1>2 DEF Source!Value
<1>. QED
  BY <1>2, <1>3, <1>4, <1>5 DEF Operands

LEMMA InitHasInvariant ==
  ValueInit => IInv
<1> SUFFICES ASSUME ValueInit PROVE IInv
  OBVIOUS
<1>1. WellFormed(source)
  BY InputsAreWellFormed DEF ValueInit
<1>2. /\ Worklist(work) /\ work.g = source
      /\ work.link = [n \in DOMAIN source.nodes |-> NoTarval]
  BY DEF ValueInit, NewWorklist, Worklist
<1>3. Consistent(pass, Known)
  BY <1>2 DEF Consistent, Links, Known, NoTarval, Tarval
<1>4. Rewritten(source, work.link, work.g)
  BY <1>1, <1>2, UnchangedIsRewritten
<1>5. Source!Fresh /\ DOMAIN env = {}
  BY DEF ValueInit, Source!Fresh
<1>6. ComputedValues /\ LinkedValuesHold
  BY <1>5 DEF ComputedValues, LinkedValuesHold
<1>. QED
  BY <1>2, <1>3, <1>4, <1>5, <1>6 DEF IInv, PassInv, ValueInit

LEMMA HandleKeepsInvariant ==
  IInv /\ Handle => IInv'
<1> SUFFICES ASSUME IInv, Handle PROVE IInv'
  OBVIOUS
<1> DEFINE s == [work EXCEPT !.queue = Tail(@)]
           n == Head(work.queue)
           t == handle_value(pass, s, n)
<1>1. WellFormed(source) /\ work.g = source /\ Worklist(work) /\ Consistent(pass, Known)
  BY InputsAreWellFormed DEF IInv, PassInv, Handle
<1>2. Worklist(s) /\ s.g = source /\ s.link = work.link
  BY <1>1 DEF Worklist
<1>3. work' = Requeued(t, n)
  BY DEF Handle
<1> HIDE DEF s
<1>4. Consistent(pass, s)
  <2>1. Known.g = source /\ Known.link = work.link
    BY DEF Known
  <2>. QED
    BY <1>1, <1>2, <2>1, SameKnowledge
<1> HIDE DEF n
<1>5. /\ Worklist(t) /\ t.g = source
      /\ t.link = s.link \/ t.link = [s.link EXCEPT ![n] = tarval(pass, s, n)]
  <2>1. t = handle_value(pass, s, n)
    OBVIOUS
  <2> HIDE DEF t
  <2>. QED
    BY <1>2, <2>1, HandlingLearns
<1> HIDE DEF t
<1>6. Consistent(pass, t)
  BY <1>1, <1>2, <1>4, <1>5, LearningKeepsConsistent
<1>7. Worklist(work') /\ work'.g = source /\ work'.link = t.link
  BY <1>3, <1>5, RequeuingKeeps
<1>8. Consistent(pass, [g |-> source, link |-> work'.link])
  <2> DEFINE known == [g |-> source, link |-> work'.link]
  <2>1. known.g = t.g /\ known.link = t.link /\ WellFormed(t.g)
    BY <1>1, <1>5, <1>7
  <2> HIDE DEF known
  <2>2. Consistent(pass, known)
    BY <1>6, <2>1, SameKnowledge
  <2>. QED
    BY <2>2 DEF known
<1>9. Rewritten(source, work'.link, work'.g)
  BY <1>1, <1>7, UnchangedIsRewritten
<1>10. UNCHANGED <<pass, source, stage, at, env, event>> /\ stage = "handle"
  BY DEF Handle, runVars
<1>11. Source!Fresh /\ Source!Fresh' /\ DOMAIN env' = {}
  BY <1>10 DEF IInv, PassInv, Source!Fresh
<1>12. ComputedValues' /\ LinkedValuesHold'
  BY <1>11 DEF ComputedValues, LinkedValuesHold
<1>13. Consistent(pass, Known)'
  BY <1>8, <1>10 DEF Known
<1>14. Rewritten(source, work.link, work.g)'
  BY <1>9, <1>10
<1>. QED
  BY <1>7, <1>10, <1>11, <1>12, <1>13, <1>14 DEF IInv, PassInv

LEMMA BeginCleanupKeepsInvariant ==
  IInv /\ BeginCleanup => IInv'
<1> SUFFICES ASSUME IInv, BeginCleanup PROVE IInv'
  OBVIOUS
<1>1. /\ WellFormed(source) /\ work.g = source /\ Worklist(work) /\ Consistent(pass, Known)
      /\ WalkOrder(source) \in Seq(DOMAIN source.nodes)
  BY InputsAreWellFormed DEF IInv, PassInv, BeginCleanup
<1>2. /\ Worklist(work') /\ work'.g = source /\ work'.link = work.link
      /\ work'.queue \in Seq(DOMAIN source.nodes)
  BY <1>1 DEF BeginCleanup, Worklist
<1>3. UNCHANGED <<pass, source, at, env, event>> /\ stage = "handle" /\ stage' = "cleanup"
  BY DEF BeginCleanup, runVars
<1>4. Consistent(pass, Known)'
  BY <1>1, <1>2, <1>3 DEF Known
<1>5. Rewritten(source, work.link, work.g)'
  BY <1>1, <1>2, <1>3, UnchangedIsRewritten
<1>6. Source!Fresh' /\ DOMAIN env' = {}
  BY <1>3 DEF IInv, PassInv, Source!Fresh
<1>7. ComputedValues' /\ LinkedValuesHold'
  BY <1>6 DEF ComputedValues, LinkedValuesHold
<1>. QED
  BY <1>2, <1>3, <1>4, <1>5, <1>6, <1>7 DEF IInv, PassInv

LEMMA CleanupKeepsInvariant ==
  IInv /\ Cleanup => IInv'
<1> SUFFICES ASSUME IInv, Cleanup PROVE IInv'
  OBVIOUS
<1> DEFINE s == [work EXCEPT !.queue = Tail(@)]
           n == Head(work.queue)
<1>1. /\ WellFormed(source) /\ Worklist(work) /\ Consistent(pass, Known)
      /\ Rewritten(source, work.link, work.g)
      /\ work.queue \in Seq(DOMAIN source.nodes) /\ work.queue # <<>>
      /\ pass \in {"folding", "conditional"}
  BY InputsAreWellFormed DEF IInv, PassInv, Cleanup
<1>2. /\ Worklist(s) /\ s.g = work.g /\ s.link = work.link
      /\ s.queue \in Seq(DOMAIN source.nodes) /\ n \in DOMAIN source.nodes
  BY <1>1 DEF Worklist
<1>3. work' = cleanup_value(pass, s, n)
  BY DEF Cleanup
<1> HIDE DEF s, n
<1>4. Worklist(work') /\ work'.link = s.link /\ work'.queue = s.queue /\ Rewritten(source, work'.link, work'.g)
  <2>1. Consistent(pass, [g |-> source, link |-> s.link]) /\ Rewritten(source, s.link, s.g)
    BY <1>1, <1>2 DEF Known
  <2>2. CASE pass = "folding"
    <3>1. work' = folding_cleanup(s, n)
      BY <1>3, <2>2 DEF cleanup_value
    <3>. QED
      BY <1>1, <1>2, <2>1, <2>2, <3>1, FoldingKeepsRewritten
  <2>3. CASE pass = "conditional"
    <3>1. work' = conditional_cleanup(s, n)
      BY <1>3, <2>3 DEF cleanup_value
    <3>. QED
      BY <1>1, <1>2, <2>1, <2>3, <3>1, ConditionalKeepsRewritten
  <2>. QED
    BY <1>1, <2>2, <2>3
<1>5. UNCHANGED <<pass, source, stage, at, env, event>> /\ stage = "cleanup"
  BY DEF Cleanup, runVars
<1>6. Consistent(pass, Known)'
  BY <1>1, <1>2, <1>4, <1>5 DEF Known
<1>7. Rewritten(source, work.link, work.g)'
  BY <1>4, <1>5
<1>8. Source!Fresh' /\ DOMAIN env' = {}
  BY <1>5 DEF IInv, PassInv, Source!Fresh
<1>9. ComputedValues' /\ LinkedValuesHold'
  BY <1>8 DEF ComputedValues, LinkedValuesHold
<1>. QED
  BY <1>1, <1>2, <1>4, <1>5, <1>6, <1>7, <1>8, <1>9 DEF IInv, PassInv

\* The source and what is left of it run on the same machine.
LEMMA SameOperations ==
  /\ Source!Pure = Pure /\ After!Pure = Pure
  /\ \A node, v : Source!Computed(node, v) = Computed(node, v)
  /\ \A node, v : After!Computed(node, v) = Computed(node, v)
<1>1. \A n : Source!wrap(n) = wrap(n) /\ After!wrap(n) = wrap(n)
  BY DEF Source!wrap, After!wrap, wrap, Source!MaxInt, After!MaxInt, MaxInt
<1>2. \A relation, l, r : /\ Source!Compare(relation, l, r) <=> Compare(relation, l, r)
                          /\ After!Compare(relation, l, r) <=> Compare(relation, l, r)
  BY DEF Source!Compare, After!Compare, Compare
<1>3. Source!Pure = Pure /\ After!Pure = Pure
  BY DEF Source!Pure, After!Pure, Pure
<1>4. \A node, v : Source!Computed(node, v) = Computed(node, v)
  BY <1>1, <1>2 DEF Source!Computed, Computed
<1>5. \A node, v : After!Computed(node, v) = Computed(node, v)
  BY <1>1, <1>2 DEF After!Computed, Computed
<1>. QED
  BY <1>3, <1>4, <1>5

LEMMA RunningKeepsPassInv ==
  ASSUME IInv, SourceRuns
  PROVE  PassInv' /\ source' = source /\ work' = work /\ pass' = pass
BY DEF IInv, PassInv, SourceRuns, passVars, Known

\* The value of a node that has effects is never linked to it.
LEMMA EffectsHaveNoValue ==
  ASSUME IInv, NEW n \in DOMAIN source.nodes, Source!IsComputed(source.nodes[n]), source.nodes[n].op \notin Pure
  PROVE  work.link[n] = NoTarval /\ source.nodes[n].mode # "b"
<1> DEFINE node == source.nodes[n]
<1>1. node.op \notin {"Const", "Phi", "Cond", "Mux", "Cmp", "Minus", "Add", "Sub", "Mul"}
  BY DEF Source!IsComputed, Pure
<1>2. node.mode # "b"
  BY <1>1, InputsAreWellFormed, AllowedNodes DEF IInv, PassInv
<1>3. tarval(pass, Known, n) = NoTarval
  BY <1>1 DEF tarval, folding_tarval, conditional_tarval, Known
<1>4. work.link[n] # NoTarval => work.link[n] = tarval(pass, Known, n)
  BY DEF IInv, PassInv, Consistent, Links, Known
<1>. QED
  BY <1>2, <1>3, <1>4

LEMMA ComputeKeepsInvariant ==
  ASSUME IInv, SourceRuns, NEW n \in DOMAIN source.nodes, Source!Compute(n)
  PROVE  IInv'
<1> DEFINE node == source.nodes[n]
           v == [i \in DOMAIN node.in |-> Source!Value(node.in[i])]
<1>1. WellFormed(source) /\ Consistent(pass, Known) /\ pass \in {"folding", "conditional"}
  BY InputsAreWellFormed DEF IInv, PassInv
<1>2. Source!IsComputed(node) /\ \A i \in DOMAIN node.in : Source!IsKnown(node.in[i])
  BY DEF Source!Compute
<1>3. PICK y : /\ env' = [m \in DOMAIN env \cup {n} |-> IF m = n THEN y ELSE env[m]]
               /\ \/ node.op \in Pure /\ y = Computed(node, v)
                  \/ node.op \notin Pure /\ y \in Results
  <2> DEFINE yields(y) == env' = [m \in DOMAIN env \cup {n} |-> IF m = n THEN y ELSE env[m]]
  <2>1. \/ node.op \in Pure /\ yields(Computed(node, v))
        \/ node.op \notin Pure /\ \E r \in Results : yields(r)
    BY SameOperations DEF Source!Compute
  <2> HIDE DEF yields, v
  <2>2. PICK y : /\ yields(y)
                 /\ \/ node.op \in Pure /\ y = Computed(node, v)
                    \/ node.op \notin Pure /\ y \in Results
    BY <2>1
  <2>. QED
    BY <2>2 DEF yields
<1>4. Typed(node, y) /\ (work.link[n] \notin {NoTarval, BadTarval} => Denotes(work.link[n], y))
  <2>1. CASE node.op \in Pure
    <3>1. Operands(source, work.link, n, v) /\ y = Computed(node, v)
      BY <1>2, <1>3, <2>1, KnownOperands
    <3>2. Typed(node, y)
      BY <1>1, <2>1, <3>1, ComputedIsTyped
    <3>3. ASSUME work.link[n] \notin {NoTarval, BadTarval}
          PROVE  Denotes(work.link[n], y)
      <4> HIDE DEF v
      <4>1. CASE pass = "folding"
        <5>1. Consistent("folding", [g |-> source, link |-> work.link])
          BY <1>1, <4>1 DEF Known
        <5>. QED
          BY <1>1, <2>1, <3>1, <3>3, <5>1, FoldedIsComputed
      <4>2. CASE pass = "conditional"
        <5>1. Consistent("conditional", [g |-> source, link |-> work.link])
          BY <1>1, <4>2 DEF Known
        <5>. QED
          BY <1>1, <2>1, <3>1, <3>3, <5>1, ConditionalIsComputed
      <4>. QED
        BY <1>1, <4>1, <4>2
    <3>. QED
      BY <3>2, <3>3
  <2>2. CASE node.op \notin Pure
    <3>1. y \in Int
      BY <1>3, <2>2, ResultsAssumption
    <3>. QED
      BY <1>2, <2>2, <3>1, EffectsHaveNoValue DEF Typed
  <2>. QED
    BY <2>1, <2>2
<1>5. PassInv' /\ source' = source /\ work' = work
  BY RunningKeepsPassInv
<1>6. /\ DOMAIN env' = DOMAIN env \cup {n} /\ env'[n] = y
      /\ \A m \in DOMAIN env : m # n => env'[m] = env[m]
  BY <1>3
<1>7. ComputedValues /\ LinkedValuesHold
  BY DEF IInv
<1>8. Source!IsComputed(source.nodes[n])' /\ \A m \in DOMAIN env : Source!IsComputed(source.nodes[m])' = Source!IsComputed(source.nodes[m])
  BY <1>2, <1>5 DEF Source!IsComputed
<1>9. ComputedValues'
  BY <1>4, <1>5, <1>6, <1>7, <1>8 DEF ComputedValues, Source!IsComputed
<1>10. LinkedValuesHold'
  BY <1>4, <1>5, <1>6, <1>7 DEF LinkedValuesHold
<1>. QED
  BY <1>5, <1>9, <1>10 DEF IInv

\* Every operand of a Phi that has a value has it, too.
LEMMA PhisAgree ==
  ASSUME NEW s, NEW node, node.in \in Seq(DOMAIN s.g.nodes), phi_tarval(s, node) \notin {NoTarval, BadTarval},
         NEW k \in DOMAIN node.in
  PROVE  Linked(s, node.in[k]) = phi_tarval(s, node)
<1> DEFINE tv(i) == Linked(s, node.in[i])
<1> HIDE DEF tv
<1>1. phi_tarval(s, node) =
        IF \E i \in DOMAIN node.in : (tv(i) = BadTarval \/ tv(i) # tv(1)) /\ \A j \in 1..i : tv(j) # NoTarval
        THEN BadTarval ELSE IF \A i \in DOMAIN node.in : tv(i) # NoTarval THEN tv(1) ELSE NoTarval
  BY DEF phi_tarval, tv
<1>2. phi_tarval(s, node) = tv(1) /\ \A i \in DOMAIN node.in : tv(i) # NoTarval
  BY <1>1
<1>3. \A j \in 1..k : j \in DOMAIN node.in
  OBVIOUS
<1>4. tv(k) = tv(1)
  BY <1>1, <1>2, <1>3
<1>. QED
  BY <1>2, <1>4 DEF tv

LEMMA EnterKeepsInvariant ==
  ASSUME IInv, SourceRuns, NEW b \in DOMAIN source.blocks, NEW k \in DOMAIN source.blocks[b].preds,
         Source!Enter(b, k)
  PROVE  IInv'
<1> DEFINE phis == {n \in DOMAIN source.nodes : source.nodes[n].block = b /\ source.nodes[n].op = "Phi"}
           kept == {n \in DOMAIN env : source.nodes[n].block # b}
<1>1. WellFormed(source) /\ Consistent(pass, Known) /\ ComputedValues /\ LinkedValuesHold
  BY InputsAreWellFormed DEF IInv, PassInv
<1>2. /\ env' = [n \in kept \cup phis |-> IF n \in phis THEN Source!Value(source.nodes[n].in[k]) ELSE env[n]]
      /\ \A n \in phis : Source!IsKnown(source.nodes[n].in[k])
  BY DEF Source!Enter
<1>3. PassInv' /\ source' = source /\ work' = work
  BY RunningKeepsPassInv
<1>4. ASSUME NEW n \in phis
      PROVE  /\ Typed(source.nodes[n], Source!Value(source.nodes[n].in[k]))
             /\ work.link[n] \notin {NoTarval, BadTarval} =>
                  Denotes(work.link[n], Source!Value(source.nodes[n].in[k]))
  <2> DEFINE node == source.nodes[n]
             x == node.in[k]
  <2>1. /\ n \in DOMAIN source.nodes /\ node.op = "Phi" /\ node.block = b
    OBVIOUS
  <2>2. /\ node.in \in Seq(DOMAIN source.nodes) /\ Len(node.in) = Len(source.blocks[b].preds)
        /\ \A i \in DOMAIN node.in : source.nodes[node.in[i]].mode = node.mode
    BY <1>1, <2>1, AllowedNodes
  <2>3. source.blocks[b].preds \in Seq(DOMAIN source.nodes)
    BY <1>1 DEF WellFormed
  <2>4. k \in DOMAIN node.in /\ x \in DOMAIN source.nodes /\ Source!IsKnown(x)
    BY <1>2, <2>2, <2>3
  <2>5. /\ Typed(source.nodes[x], Source!Value(x))
        /\ work.link[x] \notin {NoTarval, BadTarval} => Denotes(work.link[x], Source!Value(x))
    BY <2>4, KnownValues
  <2>6. ASSUME work.link[n] \notin {NoTarval, BadTarval}
        PROVE  work.link[x] = work.link[n]
    <3>1. /\ DOMAIN work.link = DOMAIN source.nodes /\ work.link[n] = tarval(pass, Known, n)
          /\ Known.g = source /\ Known.link = work.link
      BY <1>1, <2>1, <2>6 DEF Consistent, Links, Known
    <3>2. tarval(pass, Known, n) = phi_tarval(Known, node)
      BY <2>1, <3>1 DEF tarval, folding_tarval, conditional_tarval
    <3>3. Linked(Known, x) = work.link[n]
      BY <2>2, <2>4, <2>6, <3>1, <3>2, PhisAgree
    <3>. QED
      BY <2>4, <3>1, <3>3 DEF Linked
  <2>. QED
    BY <2>2, <2>4, <2>5, <2>6 DEF Typed
<1>5. ASSUME NEW n \in DOMAIN env'
      PROVE  \/ n \in phis /\ env'[n] = Source!Value(source.nodes[n].in[k])
             \/ n \in DOMAIN env /\ env'[n] = env[n]
  BY <1>2
<1>6. \A n : source.nodes[n].op = "Phi" \/ Source!IsComputed(source.nodes[n]) =>
        source'.nodes[n].op = "Phi" \/ Source!IsComputed(source.nodes[n])'
  BY <1>3 DEF Source!IsComputed
<1>7. ComputedValues'
  BY <1>1, <1>3, <1>4, <1>5, <1>6 DEF ComputedValues
<1>8. LinkedValuesHold'
  BY <1>1, <1>3, <1>4, <1>5 DEF LinkedValuesHold
<1>. QED
  BY <1>3, <1>7, <1>8 DEF IInv

\* What the passes know, what is left of the graph, and what was computed fit together.
THEOREM Invariance == ValueSpec => []IInv
<1>1. ASSUME IInv, [ValueNext]_valueVars
      PROVE  IInv'
  <2>1. CASE SourceRuns
    BY <1>1, <2>1, ComputeKeepsInvariant, EnterKeepsInvariant DEF SourceRuns
  <2>2. CASE Finish
    <3>1. /\ UNCHANGED <<pass, source, work, at, env, event>> /\ stage' = "run"
      BY <2>2 DEF Finish, runVars
    <3>. QED
      BY <1>1, <3>1 DEF IInv, PassInv, ComputedValues, LinkedValuesHold, Known, Source!IsComputed
  <2>3. CASE UNCHANGED valueVars
    BY <1>1, <2>3 DEF valueVars, IInv, PassInv, ComputedValues, LinkedValuesHold, Known, Source!IsComputed, Source!Fresh
  <2>. QED
    BY <1>1, <2>1, <2>2, <2>3, HandleKeepsInvariant, BeginCleanupKeepsInvariant, CleanupKeepsInvariant
    DEF ValueNext
<1>. QED
  BY <1>1, InitHasInvariant, PTL DEF ValueSpec

(* In every run of every graph a value that folding or conditional linked  *)
(* to a node is what the node yields: handling Phis before what they       *)
(* depend on, or a node once and not again, never leaves a wrong value     *)
(* behind.                                                                 *)
THEOREM ValuesHold == ValueSpec => []LinkedValuesHold
<1>1. IInv => LinkedValuesHold
  BY DEF IInv
<1>. QED
  BY <1>1, Invariance, PTL

-----------------------------------------------------------------------------
(* What is left runs as the source does. *)

Alive(g, e) == [n \in {m \in DOMAIN e : g.nodes[m].op # "Deleted"} |-> e[n]]

LEMMA AliveGives ==
  ASSUME NEW src, NEW link, NEW g, Rewritten(src, link, g), NEW e,
         \A n \in DOMAIN e : n \in DOMAIN src.nodes /\ src.nodes[n].op # "Deleted",
         NEW l, l = Alive(g, e)
  PROVE  /\ DOMAIN l = {n \in DOMAIN e : ~Gone(src, g, n)}
         /\ \A n \in DOMAIN l : l[n] = e[n]
         /\ l = [n \in DOMAIN l |-> l[n]]
<1>1. \A n \in DOMAIN e : g.nodes[n].op # "Deleted" <=> ~Gone(src, g, n)
  BY DEF Rewritten, OldNode, Gone
<1>. QED
  BY <1>1 DEF Alive

LEMMA ComputedAreNodes ==
  ASSUME ComputedValues
  PROVE  \A n \in DOMAIN env : n \in DOMAIN source.nodes /\ source.nodes[n].op # "Deleted"
BY DEF ComputedValues, Source!IsComputed

LEMMA LeftGives ==
  ASSUME IInv
  PROVE  /\ DOMAIN Left = {n \in DOMAIN env : ~Gone(source, work.g, n)}
         /\ \A n \in DOMAIN Left : Left[n] = env[n]
         /\ Left = [n \in DOMAIN Left |-> Left[n]]
<1>1. Left = Alive(work.g, env) /\ Rewritten(source, work.link, work.g)
  BY DEF Left, Alive, IInv, PassInv
<1>2. \A n \in DOMAIN env : n \in DOMAIN source.nodes /\ source.nodes[n].op # "Deleted"
  BY ComputedAreNodes DEF IInv
<1>. QED
  BY <1>1, <1>2, AliveGives

\* The nodes that are gone, and what they were.
LEMMA OldNodes ==
  ASSUME IInv, NEW x \in DOMAIN source.nodes
  PROVE  /\ x \in DOMAIN work.g.nodes
         /\ work.g.nodes[x].mode = source.nodes[x].mode /\ work.g.nodes[x].block = source.nodes[x].block
         /\ work.g.nodes[x].attr = source.nodes[x].attr
         /\ Gone(source, work.g, x) =>
              /\ work.g.nodes[x].op = "Deleted"
              /\ Valued(source, work.link, x) \/ Decides(source, work.link, x)
         /\ ~Gone(source, work.g, x) =>
              /\ work.g.nodes[x].op = source.nodes[x].op
              /\ StandFor(source, work.link, work.g, work.g.nodes[x].in, source.nodes[x].in)
<1>1. Rewritten(source, work.link, work.g) /\ WellFormed(source)
  BY InputsAreWellFormed DEF IInv, PassInv
<1>2. /\ DOMAIN source.nodes = 1..Len(source.nodes) /\ Len(source.nodes) \in Nat
      /\ DOMAIN work.g.nodes = 1..Len(work.g.nodes) /\ Len(work.g.nodes) \in Nat
      /\ Len(source.nodes) <= Len(work.g.nodes)
  BY <1>1 DEF Rewritten, Shape, WellFormed
<1>3. x \in DOMAIN work.g.nodes
  BY <1>2
<1>4. OldNode(source, work.link, work.g, x)
  BY <1>1 DEF Rewritten
<1>. QED
  BY <1>3, <1>4 DEF OldNode, Gone

\* What stands for a node has its value.
LEMMA KnownAfter ==
  ASSUME IInv, NEW x \in DOMAIN source.nodes, Source!IsKnown(x),
         NEW y, Stands(source, work.link, work.g, y, x)
  PROVE  After!IsKnown(y) /\ After!Value(y) = Source!Value(x)
<1>1. CASE ~Gone(source, work.g, x)
  <2>1. /\ y = x /\ work.g.nodes[x].op = source.nodes[x].op
        /\ work.g.nodes[x].attr = source.nodes[x].attr
    BY <1>1, OldNodes DEF Stands
  <2>2. x \in DOMAIN env => x \in DOMAIN Left /\ Left[x] = env[x]
    BY <1>1, LeftGives
  <2>. QED
    BY <2>1, <2>2 DEF Source!IsKnown, Source!Value, After!IsKnown, After!Value
<1>2. CASE Gone(source, work.g, x)
  <2>1. Replaces(source, work.link, work.g.nodes[y], x)
    BY <1>2 DEF Stands
  <2>2. source.nodes[x].op # "Const" /\ x \in DOMAIN env
    BY <1>2, OldNodes DEF Source!IsKnown, Valued, Decides, Pure
  <2>3. ~Decides(source, work.link, x)
    BY <2>2 DEF IInv, ComputedValues, Source!IsComputed, Decides
  <2>4. /\ Valued(source, work.link, x) /\ work.g.nodes[y].op = "Const"
        /\ Denotes(work.link[x], work.g.nodes[y].attr)
    BY <2>1, <2>3 DEF Replaces
  <2>5. Denotes(work.link[x], env[x])
    BY <2>2, <2>4 DEF IInv, LinkedValuesHold, Valued
  <2>6. work.g.nodes[y].attr = env[x]
    BY <2>4, <2>5 DEF Denotes
  <2>. QED
    BY <2>2, <2>4, <2>6 DEF Source!Value, After!IsKnown, After!Value
<1>. QED
  BY <1>1, <1>2

LEMMA StandForGives ==
  ASSUME NEW src, NEW link, NEW g, NEW xs \in Seq(DOMAIN src.nodes), NEW ys, StandFor(src, link, g, ys, xs)
  PROVE  /\ DOMAIN ys = DOMAIN xs
         /\ \A i \in DOMAIN xs : xs[i] \in DOMAIN src.nodes /\ Stands(src, link, g, ys[i], xs[i])
<1>1. \A i \in DOMAIN xs : xs[i] \in DOMAIN src.nodes
  OBVIOUS
<1>. QED
  BY <1>1 DEF StandFor

LEMMA FreshAfter ==
  Source!Fresh => After!Fresh
<1> SUFFICES ASSUME Source!Fresh PROVE After!Fresh
  OBVIOUS
<1>1. at = StartBlock /\ env = <<>> /\ event = [node |-> 0, operands |-> <<>>]
  BY DEF Source!Fresh, Source!StartBlock, StartBlock, Source!NoEvent
<1>2. Left = <<>>
  BY <1>1 DEF Left
<1>. QED
  BY <1>1, <1>2 DEF After!Fresh, After!StartBlock, StartBlock, After!NoEvent

\* Where the source computes a node that is left, so does what is left; where
\* it computes one that is gone, nobody sees it.
LEMMA ComputeKeepsMeaning ==
  ASSUME IInv, IInv', SourceRuns, NEW n \in DOMAIN source.nodes, Source!Compute(n)
  PROVE  After!Compute(n) \/ UNCHANGED After!runVars
<1> DEFINE old == source.nodes[n]
           node == work.g.nodes[n]
           v == [i \in DOMAIN old.in |-> Source!Value(old.in[i])]
           w == [i \in DOMAIN node.in |-> After!Value(node.in[i])]
<1>1. source' = source /\ work' = work /\ at' = at
  BY DEF SourceRuns, passVars, Source!Compute
<1>2. /\ Source!IsComputed(old) /\ old.block = at /\ n \notin DOMAIN env
      /\ \A i \in DOMAIN old.in : Source!IsKnown(old.in[i])
  BY DEF Source!Compute
<1>3. \/ /\ old.op \in Pure /\ event' = event
         /\ env' = [m \in DOMAIN env \cup {n} |-> IF m = n THEN Computed(old, v) ELSE env[m]]
      \/ /\ old.op \notin Pure /\ event' = [node |-> n, operands |-> v]
         /\ \E r \in Results : env' = [m \in DOMAIN env \cup {n} |-> IF m = n THEN r ELSE env[m]]
  BY SameOperations DEF Source!Compute
<1>4. /\ DOMAIN Left = {m \in DOMAIN env : ~Gone(source, work.g, m)}
      /\ \A m \in DOMAIN Left : Left[m] = env[m]
      /\ Left = [m \in DOMAIN Left |-> Left[m]]
  BY LeftGives
<1>5. /\ DOMAIN Left' = {m \in DOMAIN env' : ~Gone(source, work.g, m)}
      /\ \A m \in DOMAIN Left' : Left'[m] = env'[m]
      /\ Left' = [m \in DOMAIN Left' |-> Left'[m]]
  <2>1. Left' = Alive(work.g, env') /\ Rewritten(source, work.link, work.g)
    BY <1>1 DEF Left, Alive, IInv, PassInv
  <2>2. \A m \in DOMAIN env' : m \in DOMAIN source.nodes /\ source.nodes[m].op # "Deleted"
    BY <1>1 DEF IInv, ComputedValues, Source!IsComputed
  <2>. QED
    BY <2>1, <2>2, AliveGives
<1>6. PICK y : /\ env' = [m \in DOMAIN env \cup {n} |-> IF m = n THEN y ELSE env[m]]
               /\ \/ old.op \in Pure /\ event' = event /\ y = Computed(old, v)
                  \/ old.op \notin Pure /\ event' = [node |-> n, operands |-> v] /\ y \in Results
  <2> HIDE DEF v, old
  <2>. QED
    BY <1>3
<1>7. CASE Gone(source, work.g, n)
  <2>1. ~Decides(source, work.link, n) /\ old.op # "Phi"
    BY <1>2 DEF Decides, Source!IsComputed
  <2>2. old.op \in Pure
    BY <1>7, <2>1, OldNodes DEF Valued
  <2>3. event' = event
    BY <1>3, <2>2
  <2>4. DOMAIN Left' = DOMAIN Left /\ \A m \in DOMAIN Left : Left'[m] = Left[m]
    BY <1>4, <1>5, <1>6, <1>7
  <2>5. Left' = Left
    BY <1>4, <1>5, <2>4
  <2>. QED
    BY <1>1, <2>3, <2>5 DEF After!runVars
<1>8. CASE ~Gone(source, work.g, n)
  <2>1. /\ n \in DOMAIN work.g.nodes /\ node.op = old.op /\ node.mode = old.mode /\ node.block = old.block
        /\ node.attr = old.attr /\ StandFor(source, work.link, work.g, node.in, old.in)
    BY <1>8, OldNodes
  <2>2. old.in \in Seq(DOMAIN source.nodes)
    BY InputsAreWellFormed, AllowedNodes DEF IInv, PassInv
  <2>3. /\ DOMAIN node.in = DOMAIN old.in
        /\ \A i \in DOMAIN old.in : old.in[i] \in DOMAIN source.nodes
                                    /\ Stands(source, work.link, work.g, node.in[i], old.in[i])
    <3> HIDE DEF node, old
    <3>. QED
      BY <2>1, <2>2, StandForGives
  <2>4. \A i \in DOMAIN old.in : After!IsKnown(node.in[i]) /\ After!Value(node.in[i]) = Source!Value(old.in[i])
    BY <1>2, <2>3, KnownAfter
  <2>5. w = v
    BY <2>3, <2>4
  <2>6. After!IsComputed(node)
    BY <1>2, <2>1 DEF Source!IsComputed, After!IsComputed
  <2>7. node.block = at /\ n \notin DOMAIN Left /\ \A i \in DOMAIN node.in : After!IsKnown(node.in[i])
    BY <1>2, <1>4, <2>1, <2>3, <2>4
  <2>8. Left' = [m \in DOMAIN Left \cup {n} |-> IF m = n THEN y ELSE Left[m]]
    <3>1. DOMAIN Left' = DOMAIN Left \cup {n}
      BY <1>4, <1>5, <1>6, <1>8
    <3>2. \A m \in DOMAIN Left' : Left'[m] = IF m = n THEN y ELSE Left[m]
      BY <1>4, <1>5, <1>6, <3>1
    <3>. QED
      BY <1>5, <3>1, <3>2
  <2>9. CASE old.op \in Pure
    <3>1. y = Computed(old, v) /\ event' = event
      BY <1>6, <2>9
    <3>2. Computed(old, v) = After!Computed(node, w)
      <4>1. Computed(old, v) = Computed(node, v)
        BY <2>1 DEF Computed
      <4> HIDE DEF v, w, old, node
      <4>. QED
        BY <2>5, <4>1, SameOperations
    <3>3. node.op \in After!Pure
      BY <2>1, <2>9, SameOperations
    <3>. QED
      BY <1>1, <2>6, <2>7, <2>8, <3>1, <3>2, <3>3 DEF After!Compute
  <2>10. CASE old.op \notin Pure
    <3>1. y \in Results /\ event' = [node |-> n, operands |-> w]
      BY <1>6, <2>5, <2>10
    <3>2. node.op \notin After!Pure
      BY <2>1, <2>10, SameOperations
    <3>. QED
      BY <1>1, <2>6, <2>7, <2>8, <3>1, <3>2 DEF After!Compute
  <2>. QED
    BY <2>9, <2>10
<1>. QED
  BY <1>7, <1>8

\* Control takes an edge of the source: what stands for the edge is taken, too.
LEMMA TakenAfter ==
  ASSUME IInv, NEW q \in DOMAIN source.nodes, Source!IsTaken(source.nodes[q]),
         NEW y, Stands(source, work.link, work.g, y, q)
  PROVE  work.g.nodes[y].block = source.nodes[q].block /\ After!IsTaken(work.g.nodes[y])
<1> DEFINE old == source.nodes[q]
           node == work.g.nodes[y]
           c == old.in[1]
           condition == source.nodes[c].in[1]
<1>1. /\ WellFormed(source) /\ Rewritten(source, work.link, work.g) /\ Consistent(pass, Known)
      /\ pass \in {"folding", "conditional"}
  BY InputsAreWellFormed DEF IInv, PassInv
<1>2. CASE old.op \in {"Jmp", "Return"}
  <2>1. ~Gone(source, work.g, q)
    BY <1>2, OldNodes DEF Valued, Decides, Pure
  <2>2. y = q /\ node.op = old.op /\ node.block = old.block
    BY <2>1, OldNodes DEF Stands
  <2>. QED
    BY <1>2, <2>2 DEF After!IsTaken
<1>3. CASE old.op = "Proj" /\ old.mode = "X"
  <2>1. DOMAIN old.in = {1} /\ source.nodes[c].op = "Cond"
    BY <1>1, <1>3, AllowedNodes
  <2>2. /\ c \in DOMAIN source.nodes /\ old.attr \in {"true", "false"}
        /\ DOMAIN source.nodes[c].in = {1} /\ condition \in DOMAIN source.nodes
    BY <1>1, <1>3, <2>1, EdgesOfConditions
  <2>3. Source!IsKnown(condition) /\ Source!Value(condition) = (old.attr = "true")
    BY <1>3 DEF Source!IsTaken
  <2>4. CASE ~Gone(source, work.g, q)
    <3>1. /\ y = q /\ node.op = "Proj" /\ node.mode = "X" /\ node.attr = old.attr /\ node.block = old.block
          /\ StandFor(source, work.link, work.g, node.in, old.in)
      BY <1>3, <2>4, OldNodes DEF Stands
    <3>2. ~Gone(source, work.g, c) /\ StandFor(source, work.link, work.g, work.g.nodes[c].in, source.nodes[c].in)
      BY <1>1, <2>1, <2>2, ConditionsStay
    <3>3. node.in[1] = c
      BY <2>1, <3>1, <3>2 DEF StandFor, Stands
    <3>4. Stands(source, work.link, work.g, work.g.nodes[c].in[1], condition)
      BY <2>2, <3>2 DEF StandFor
    <3>5. /\ After!IsKnown(work.g.nodes[c].in[1])
          /\ After!Value(work.g.nodes[c].in[1]) = Source!Value(condition)
      BY <2>2, <2>3, <3>4, KnownAfter
    <3> HIDE DEF node, c, condition
    <3>6. After!IsTaken(node)
      BY <2>3, <3>1, <3>3, <3>5 DEF After!IsTaken
    <3>. QED
      BY <3>1, <3>6 DEF node
  <2>5. CASE Gone(source, work.g, q)
    <3>1. Decides(source, work.link, q) /\ ~Valued(source, work.link, q)
      BY <1>3, <2>5, OldNodes DEF Valued, Pure
    <3>2. IF work.link[c] = TarvalB(old.attr = "true")
          THEN node.op = "Jmp" /\ node.block = old.block ELSE node.op = "Bad"
      BY <2>5, <3>1 DEF Stands, Replaces
    <3>3. work.link[c] \in {TarvalB(TRUE), TarvalB(FALSE)}
      BY <3>1 DEF Decides, Decided
    <3>4. \A truth \in BOOLEAN : TarvalB(truth) \notin {NoTarval, BadTarval}
      BY DEF TarvalB, NoTarval, BadTarval, Tarval
    <3>5. pass = "conditional"
      <4>1. tarval("folding", Known, c) = NoTarval
        BY <2>1 DEF tarval, folding_tarval, Known
      <4>2. work.link[c] # NoTarval => work.link[c] = tarval(pass, Known, c)
        BY <1>1, <2>2 DEF Consistent, Links, Known
      <4>. QED
        BY <1>1, <3>3, <3>4, <4>1, <4>2
    <3>6. work.link[c] = work.link[condition]
      <4>1. Consistent("conditional", [g |-> source, link |-> work.link])
        BY <1>1, <3>5 DEF Known
      <4>2. work.link[c] # NoTarval
        BY <3>3, <3>4
      <4>3. condition = source.nodes[c].in[1]
        OBVIOUS
      <4> HIDE DEF c, condition
      <4>. QED
        BY <1>1, <2>1, <2>2, <4>1, <4>2, <4>3, DecidedCondition
    <3>7. Denotes(work.link[c], Source!Value(condition))
      BY <2>2, <2>3, <3>3, <3>4, <3>6, KnownValues
    <3>8. work.link[c] = TarvalB(old.attr = "true")
      <4> HIDE DEF old, c, condition
      <4>1. CASE work.link[c] = TarvalB(TRUE)
        BY <2>3, <3>7, <4>1 DEF Denotes, TarvalB, Tarval
      <4>2. CASE work.link[c] = TarvalB(FALSE)
        BY <2>3, <3>7, <4>2 DEF Denotes, TarvalB, Tarval
      <4>. QED
        BY <3>3, <4>1, <4>2
    <3>. QED
      BY <3>2, <3>8 DEF After!IsTaken
  <2>. QED
    BY <2>4, <2>5
<1>. QED
  BY <1>2, <1>3 DEF Source!IsTaken

LEMMA EnterKeepsMeaning ==
  ASSUME IInv, IInv', SourceRuns, NEW b \in DOMAIN source.blocks, NEW k \in DOMAIN source.blocks[b].preds,
         Source!Enter(b, k)
  PROVE  b \in DOMAIN work.g.blocks /\ k \in DOMAIN work.g.blocks[b].preds /\ After!Enter(b, k)
<1> DEFINE g == work.g
           q == source.blocks[b].preds[k]
           phis == {n \in DOMAIN source.nodes : source.nodes[n].block = b /\ source.nodes[n].op = "Phi"}
           kept == {n \in DOMAIN env : source.nodes[n].block # b}
           phis2 == {n \in DOMAIN g.nodes : g.nodes[n].block = b /\ g.nodes[n].op = "Phi"}
           kept2 == {n \in DOMAIN Left : g.nodes[n].block # b}
<1>1. /\ WellFormed(source) /\ Rewritten(source, work.link, g)
      /\ source' = source /\ work' = work
  BY InputsAreWellFormed DEF IInv, PassInv, SourceRuns, passVars
<1>2. /\ source.nodes[q].block = at /\ Source!IsTaken(source.nodes[q])
      /\ \A n \in DOMAIN source.nodes :
           source.nodes[n].block = at /\ Source!IsComputed(source.nodes[n]) => n \in DOMAIN env
      /\ \A n \in phis : Source!IsKnown(source.nodes[n].in[k])
      /\ at' = b /\ event' = event
      /\ env' = [n \in kept \cup phis |-> IF n \in phis THEN Source!Value(source.nodes[n].in[k]) ELSE env[n]]
  BY DEF Source!Enter
<1>3. /\ DOMAIN Left = {m \in DOMAIN env : ~Gone(source, g, m)}
      /\ \A m \in DOMAIN Left : Left[m] = env[m]
  BY LeftGives
<1>4. /\ DOMAIN Left' = {m \in DOMAIN env' : ~Gone(source, g, m)}
      /\ \A m \in DOMAIN Left' : Left'[m] = env'[m]
      /\ Left' = [m \in DOMAIN Left' |-> Left'[m]]
  <2>1. Left' = Alive(g, env')
    BY <1>1 DEF Left, Alive
  <2>2. \A m \in DOMAIN env' : m \in DOMAIN source.nodes /\ source.nodes[m].op # "Deleted"
    BY <1>1 DEF IInv, ComputedValues, Source!IsComputed
  <2>. QED
    BY <1>1, <2>1, <2>2, AliveGives
<1>5. /\ b \in DOMAIN g.blocks /\ k \in DOMAIN g.blocks[b].preds /\ q \in DOMAIN source.nodes
      /\ Stands(source, work.link, g, g.blocks[b].preds[k], q)
  <2>1. source.blocks[b].preds \in Seq(DOMAIN source.nodes)
    BY <1>1 DEF WellFormed
  <2>2. b \in DOMAIN g.blocks /\ StandFor(source, work.link, g, g.blocks[b].preds, source.blocks[b].preds)
    BY <1>1 DEF Rewritten
  <2>3. /\ DOMAIN g.blocks[b].preds = DOMAIN source.blocks[b].preds
        /\ \A i \in DOMAIN source.blocks[b].preds :
             /\ source.blocks[b].preds[i] \in DOMAIN source.nodes
             /\ Stands(source, work.link, g, g.blocks[b].preds[i], source.blocks[b].preds[i])
    <3> HIDE DEF g
    <3>. QED
      BY <2>1, <2>2, StandForGives
  <2>. QED
    BY <2>2, <2>3
<1>6. g.nodes[g.blocks[b].preds[k]].block = at /\ After!IsTaken(g.nodes[g.blocks[b].preds[k]])
  BY <1>2, <1>5, TakenAfter
<1>7. ASSUME NEW n \in DOMAIN g.nodes, g.nodes[n].op \notin {"Const", "Jmp", "Bad", "Deleted"}
      PROVE  /\ n \in DOMAIN source.nodes /\ ~Gone(source, g, n)
             /\ g.nodes[n].op = source.nodes[n].op /\ g.nodes[n].block = source.nodes[n].block
             /\ g.nodes[n].mode = source.nodes[n].mode
  <2>1. /\ DOMAIN g.nodes = 1..Len(g.nodes) /\ Len(g.nodes) \in Nat
        /\ DOMAIN source.nodes = 1..Len(source.nodes) /\ Len(source.nodes) \in Nat
    BY <1>1 DEF Rewritten, Shape, WellFormed
  <2>2. n \in DOMAIN source.nodes
    BY <1>1, <1>7, <2>1 DEF Rewritten
  <2>. QED
    BY <1>7, <2>2, OldNodes
<1>8. \A n \in DOMAIN g.nodes : g.nodes[n].block = at /\ After!IsComputed(g.nodes[n]) => n \in DOMAIN Left
  <2> SUFFICES ASSUME NEW n \in DOMAIN g.nodes, g.nodes[n].block = at, After!IsComputed(g.nodes[n])
               PROVE  n \in DOMAIN Left
    OBVIOUS
  <2>1. g.nodes[n].op \notin {"Const", "Jmp", "Bad", "Deleted"}
    BY DEF After!IsComputed
  <2>2. Source!IsComputed(source.nodes[n])
    BY <1>7, <2>1 DEF After!IsComputed, Source!IsComputed
  <2>. QED
    BY <1>2, <1>3, <1>7, <2>1, <2>2
<1>9. phis2 = {n \in phis : ~Gone(source, g, n)}
  <2>1. ASSUME NEW n \in phis, ~Gone(source, g, n)
        PROVE  n \in phis2
    BY <2>1, OldNodes
  <2>2. ASSUME NEW n \in phis2
        PROVE  n \in phis /\ ~Gone(source, g, n)
    BY <1>7
  <2>. QED
    BY <2>1, <2>2
<1>10. kept2 = {n \in kept : ~Gone(source, g, n)}
  <2>1. \A n \in DOMAIN env : g.nodes[n].block = source.nodes[n].block
    BY ComputedAreNodes, OldNodes DEF IInv
  <2>. QED
    BY <1>3, <2>1
<1>11. ASSUME NEW n \in phis2
       PROVE  /\ After!IsKnown(g.nodes[n].in[k])
              /\ After!Value(g.nodes[n].in[k]) = Source!Value(source.nodes[n].in[k])
  <2> DEFINE in == source.nodes[n].in
  <2>1. n \in DOMAIN source.nodes /\ source.nodes[n].op = "Phi" /\ source.nodes[n].block = b /\ ~Gone(source, g, n)
    BY <1>9
  <2>2. StandFor(source, work.link, g, g.nodes[n].in, in)
    BY <2>1, OldNodes
  <2>3. in \in Seq(DOMAIN source.nodes) /\ k \in DOMAIN in
    <3>1. in \in Seq(DOMAIN source.nodes) /\ Len(in) = Len(source.blocks[b].preds)
      BY <1>1, <2>1, AllowedNodes
    <3>2. source.blocks[b].preds \in Seq(DOMAIN source.nodes)
      BY <1>1 DEF WellFormed
    <3>. QED
      BY <3>1, <3>2
  <2>4. in[k] \in DOMAIN source.nodes /\ Stands(source, work.link, g, g.nodes[n].in[k], in[k])
    <3> HIDE DEF in, g
    <3>. QED
      BY <2>2, <2>3, StandForGives
  <2>5. Source!IsKnown(in[k])
    BY <1>2, <1>9
  <2>. QED
    BY <2>4, <2>5, KnownAfter
<1>12. Left' = [n \in kept2 \cup phis2 |-> IF n \in phis2 THEN After!Value(g.nodes[n].in[k]) ELSE Left[n]]
  <2>1. DOMAIN env' = kept \cup phis
    BY <1>2
  <2>2. DOMAIN Left' = kept2 \cup phis2
    <3> HIDE DEF kept, phis, kept2, phis2
    <3>. QED
      BY <1>4, <1>9, <1>10, <2>1
  <2>3. ASSUME NEW n \in kept2 \cup phis2
        PROVE  Left'[n] = IF n \in phis2 THEN After!Value(g.nodes[n].in[k]) ELSE Left[n]
    <3>1. Left'[n] = env'[n] /\ n \in kept \cup phis /\ (n \in phis2 <=> n \in phis)
      BY <1>4, <1>9, <1>10, <2>2
    <3>2. env'[n] = IF n \in phis THEN Source!Value(source.nodes[n].in[k]) ELSE env[n]
      BY <1>2, <3>1
    <3>3. n \notin phis2 => Left[n] = env[n]
      BY <1>3
    <3>. QED
      BY <1>11, <3>1, <3>2, <3>3
  <2> HIDE DEF kept2, phis2
  <2>. QED
    BY <1>4, <2>2, <2>3
<1>. QED
  BY <1>1, <1>2, <1>5, <1>6, <1>8, <1>11, <1>12 DEF After!Enter

(* Whatever graph folding or conditional gets, the graph it leaves performs *)
(* the same operations on the same operands and takes the same edges: each *)
(* step of the source is one of what is left, or is not seen, where the    *)
(* node was replaced by its value.                                         *)
THEOREM MeaningKept == ValueSpec => KeepsMeaning
<1>1. ValueInit => After!Fresh
  BY FreshAfter DEF ValueInit
<1>2. ASSUME IInv, IInv', [ValueNext]_valueVars
      PROVE  [After!Next]_After!runVars
  <2>1. CASE Handle \/ BeginCleanup \/ Cleanup
    <3>1. /\ stage \in {"handle", "cleanup"} /\ UNCHANGED <<at, env, event>>
      BY <2>1 DEF Handle, BeginCleanup, Cleanup, runVars
    <3>2. Source!Fresh
      BY <1>2, <3>1 DEF IInv, PassInv
    <3>3. After!Fresh
      BY <3>2, FreshAfter
    <3>4. Left = <<>> /\ Left' = <<>>
      BY <3>1, <3>2 DEF Left, Source!Fresh
    <3>5. After!Fresh'
      BY <3>1, <3>3, <3>4 DEF After!Fresh, After!StartBlock, After!NoEvent
    <3>. QED
      BY <3>3, <3>5 DEF After!Next, After!Rewrite
  <2>2. CASE Finish \/ UNCHANGED valueVars
    <3>1. UNCHANGED <<work, at, env, event>>
      BY <2>2 DEF Finish, runVars, valueVars
    <3>. QED
      BY <3>1 DEF After!runVars, Left
  <2>3. CASE SourceRuns
    <3>1. CASE \E n \in DOMAIN source.nodes : Source!Compute(n)
      <4>1. PICK n \in DOMAIN source.nodes : Source!Compute(n)
        BY <3>1
      <4>2. n \in DOMAIN work.g.nodes
        BY <1>2, OldNodes
      <4>. QED
        BY <1>2, <2>3, <4>1, <4>2, ComputeKeepsMeaning DEF After!Next
    <3>2. CASE \E b \in DOMAIN source.blocks : \E k \in DOMAIN source.blocks[b].preds : Source!Enter(b, k)
      BY <1>2, <2>3, <3>2, EnterKeepsMeaning DEF After!Next
    <3>. QED
      BY <2>3, <3>1, <3>2 DEF SourceRuns
  <2>. QED
    BY <1>2, <2>1, <2>2, <2>3 DEF ValueNext
<1>. QED
  BY <1>1, <1>2, Invariance, PTL DEF ValueSpec, KeepsMeaning, After!Spec
=============================================================================
