---------------------------- MODULE MCGenerator ----------------------------
(***************************************************************************)
(* Functions small enough to see through, one per difficulty:              *)
(*   ShortCircuit  if (x < k && f(y) < x) ...: a comparison kept in a phi, *)
(*                 beside a phi for a local variable                       *)
(*   KnownResult   the same with a constant as the second operand          *)
(*   Loop          p is used after the loop that also changes it           *)
(*   BothWays      both branches of a condition lead to the same block     *)
(*   Dominated     a constant needed in a register again and again         *)
(*   Swap          phis of one block that feed each other in a circle      *)
(*   Siblings      a constant needed in a register in two branches         *)
(***************************************************************************)
EXTENDS Generator, TLC

ShortCircuit ==
  [entry |-> "b0",
   kind  |-> [x |-> "param", y |-> "param", k |-> "const", a |-> "op",
              c1 |-> "cmp", c2 |-> "cmp", f |-> "flags", v |-> "phi", w |-> "op"],
   block |-> [x |-> "b0", y |-> "b0", k |-> "b0", a |-> "b1",
              c1 |-> "b0", c2 |-> "b1", f |-> "b2", v |-> "b2", w |-> "b3"],
   in    |-> [a |-> <<"y">>, c1 |-> <<"x", "k">>, c2 |-> <<"a", "x">>, w |-> <<"v", "y">>],
   from  |-> [f |-> <<"b0", FALSE>> :> "c1" @@ <<"b1", FALSE>> :> "c2",
              v |-> <<"b0", FALSE>> :> "k" @@ <<"b1", FALSE>> :> "a"],
   exit  |-> "b0" :> <<"cond", "c1">> @@ "b1" :> <<"jmp">> @@ "b2" :> <<"cond", "f">>
             @@ "b3" :> <<"ret", "w">> @@ "b4" :> <<"ret", "v">>,
   succ  |-> <<"b0", TRUE>> :> "b1" @@ <<"b0", FALSE>> :> "b2" @@ <<"b1", FALSE>> :> "b2"
             @@ <<"b2", TRUE>> :> "b3" @@ <<"b2", FALSE>> :> "b4"]

KnownResult ==
  [ShortCircuit EXCEPT
     !.kind = "t" :> "const" @@ @, !.block = "t" :> "b0" @@ @,
     !.from = [@ EXCEPT !["f"] = [@ EXCEPT ![<<"b1", FALSE>>] = "t"]]]

LoopWith(kinds, in, from) ==
  [entry |-> "b0",
   kind  |-> kinds,
   block |-> [n \in DOMAIN kinds |->
                IF kinds[n] \in {"const", "param"} THEN "b0"
                ELSE IF kinds[n] = "op" THEN "b2" ELSE "b1"],
   in    |-> in,
   from  |-> from,
   exit  |-> "b0" :> <<"jmp">> @@ "b1" :> <<"cond", "c">> @@ "b2" :> <<"jmp">>
             @@ "b3" :> <<"ret", "p">>,
   succ  |-> <<"b0", FALSE>> :> "b1" @@ <<"b1", TRUE>> :> "b2" @@ <<"b1", FALSE>> :> "b3"
             @@ <<"b2", FALSE>> :> "b1"]

Closing(first, next) == <<"b0", FALSE>> :> first @@ <<"b2", FALSE>> :> next

Loop ==
  LoopWith([x |-> "param", k |-> "const", p |-> "phi", c |-> "cmp", n |-> "op"],
           [c |-> <<"p", "x">>, n |-> <<"p", "k">>],
           [p |-> Closing("k", "n")])

Swap ==
  LoopWith([x |-> "param", y |-> "param", p |-> "phi", q |-> "phi", c |-> "cmp"],
           [c |-> <<"p", "q">>],
           [p |-> Closing("x", "q"), q |-> Closing("y", "p")])

BothWays ==
  [entry |-> "b0",
   kind  |-> [x |-> "param", y |-> "param", k |-> "const", c |-> "cmp", p |-> "phi", q |-> "phi",
              n |-> "op"],
   block |-> [x |-> "b0", y |-> "b0", k |-> "b0", c |-> "b0", p |-> "b1", q |-> "b1", n |-> "b1"],
   in    |-> [c |-> <<"x", "y">>, n |-> <<"q", "p">>],
   from  |-> [p |-> <<"b0", TRUE>> :> "x" @@ <<"b0", FALSE>> :> "k",
              q |-> <<"b0", TRUE>> :> "y" @@ <<"b0", FALSE>> :> "x"],
   exit  |-> "b0" :> <<"cond", "c">> @@ "b1" :> <<"ret", "n">>,
   succ  |-> <<"b0", TRUE>> :> "b1" @@ <<"b0", FALSE>> :> "b1"]

Branches(kinds, block, in) ==
  [entry |-> "b0", kind |-> kinds, block |-> block, in |-> in, from |-> <<>>,
   exit  |-> "b0" :> <<"cond", "c">> @@ "b1" :> <<"ret", "m">> @@ "b2" :> <<"ret", "n">>,
   succ  |-> <<"b0", TRUE>> :> "b1" @@ <<"b0", FALSE>> :> "b2"]

Dominated ==
  Branches([x |-> "param", k |-> "const", c |-> "cmp", l |-> "conv", m |-> "conv", n |-> "op"],
           [x |-> "b0", k |-> "b0", c |-> "b0", l |-> "b0", m |-> "b1", n |-> "b2"],
           [c |-> <<"k", "x">>, l |-> <<"k">>, m |-> <<"l">>, n |-> <<"k", "l">>])

Siblings ==
  Branches([x |-> "param", y |-> "param", k |-> "const", c |-> "cmp", m |-> "conv", n |-> "conv"],
           [x |-> "b0", y |-> "b0", k |-> "b0", c |-> "b0", m |-> "b1", n |-> "b2"],
           [c |-> <<"x", "y">>, m |-> <<"k">>, n |-> <<"k">>])

MCGraphs == {ShortCircuit, KnownResult, Loop, BothWays, Dominated}
ASSUME MCGraphsUncrossed == \A g \in MCGraphs : Uncrossed(g)
ASSUME MCGraphsLoadOnce == \A g \in MCGraphs : LoadsOnce(g)
ASSUME MCGraphsStrict == \A g \in MCGraphs \cup {Swap, Siblings} : Strict(g)
ASSUME MCGraphsCovered == ~Uncrossed(Swap) /\ ~LoadsOnce(Siblings)

MCSwap == {Swap}
MCSiblings == {Siblings}
=============================================================================
