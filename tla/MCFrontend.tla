----------------------------- MODULE MCFrontend -----------------------------
(***************************************************************************)
(* Small programs through the front end and the optimizer; two passes of   *)
(* the optimizer node by node, the symbol table and the symbol pools on    *)
(* their own.                                                              *)
(* A program is a class A with a method f whose body varies, called by the *)
(* main method of a class B, or a program whose members vary.              *)
(***************************************************************************)
EXTENDS Optimizer, ValuePasses, SymbolPool

CONSTANTS
  d1, d2, \* declarations
  Sets    \* the sets of programs: see ProgramsOf

VARIABLE part \* what the behaviour is about: "program", "optimizer", "values", "table" or "pools"

vars == <<part, ast, phase, info, consts, graphs, opt, valueVars, nested_scopes, bytes, pools, symbols>>

Order == <<"A", "B", "Empty", "System", "_1", "a", "args", "b", "exit", "f", "flush", "g", "h", "id",
           "in", "java.io.InputStream", "java.io.PrintStream", "java.lang.String",
           "java.lang.System", "main", "n", "out", "println", "read", "v", "write", "x", "y",
           "z">>
ReadInput == <<3>>
PoolTexts == {<<>>, <<1>>, <<1, 0, 1>>}
LiteralDigits == [l \in {"0", "1", "2", "3", "4", "7", "8", "9"} |->
  CASE l = "0" -> <<0>> [] l = "1" -> <<1>> [] l = "2" -> <<2>> [] l = "3" -> <<3>> [] l = "4" -> <<4>>
    [] l = "7" -> <<7>> [] l = "8" -> <<8>> [] l = "9" -> <<9>>]

-----------------------------------------------------------------------------
int == type("int", 0)
bool == type("boolean", 0)
void == type("void", 0)
Name(n) == variable_access(nullptr, n)
Dot(e, n) == variable_access(e, n)
Lit(l) == integer_constant(l, FALSE)
Neg(l) == integer_constant(l, TRUE)
Bin(op, l, r) == binary_expression(op, l, r)
Set(l, r) == Bin("assign", l, r)
Call(n, args) == method_invocation(nullptr, n, args)
Do(e) == expression_statement(e)
Output(e) == method_invocation(Dot(Name("System"), "out"), "println", <<e>>)
Local(t, n, e) == local_variable_statement(var_decl(t, n), e)
If(c, s, t) == if_statement(c, s, t)
While(c, s) == while_statement(c, s)
Ret(e) == return_statement(e)
B(ss) == block(ss)
True == boolean_constant(TRUE)

\* class A { int[] a; boolean b; A n; int x; f; g prints and counts; v does nothing }
Fields == <<var_decl(type("int", 1), "a"), var_decl(bool, "b"), var_decl(type("A", 0), "n"),
            var_decl(int, "x")>>
G == instance_method("g", int, <<var_decl(int, "z")>>,
       B(<<Do(Output(Name("z"))), Do(Set(Name("x"), Bin("plus", Name("x"), Name("z")))),
           Ret(Name("x"))>>))
Nothing == instance_method("v", void, <<>>, B(<<>>))
F(body) == instance_method("f", int, <<var_decl(int, "y")>>, body)
NewA == object_instantiation("A")
MainBody == B(<<Do(Output(method_invocation(NewA, "f", <<Lit("2")>>)))>>)
MainClass(body) == class_declaration("B", <<>>, <<>>, <<main_method("main", "args", body)>>)
WithBody(body) ==
  program(<<class_declaration("A", Fields, <<F(body), G, Nothing>>, <<>>), MainClass(MainBody)>>)

\* Expressions: leaves, then one operator, then a few of those under a second one.
Leaves ==
  {Lit("1"), Lit("0"), Neg("8"), Name("x"), Name("y"), Name("a"), Name("n"), True, this_ref, null_constant,
   Call("g", <<Lit("1")>>), Call("v", <<>>)}
Operators == {"assign", "logical_or", "logical_and", "equal", "less_than", "minus", "divide"}
Small ==
  {Lit("2"), Neg("1"), Neg("8"), Name("y"), Set(Name("y"), Lit("3")), Set(Name("x"), Neg("7")),
   Call("g", <<Name("y")>>), Set(Dot(Name("n"), "x"), Lit("7")),
   Set(Name("n"), NewA), Set(Name("a"), array_instantiation(type("int", 1), Lit("2"))),
   array_access(Name("a"), Lit("1")), Dot(Name("n"), "x")}
Composed ==
  {Bin(op, l, r) : op \in {"assign", "plus", "multiply", "divide", "modulo", "not_equal", "greater_equal"},
                   l \in Small, r \in Small}
\* Parts of the left side that have effects of their own.
Parts == {Name("x"), Name("y"), Lit("1"), Call("g", <<Lit("1")>>), Set(Name("x"), Lit("1")), Set(Name("y"), Lit("0"))}
ElementBodies ==
  {B(<<Do(Set(Name("a"), array_instantiation(type("int", 1), Lit("2")))),
       Do(Set(array_access(Name("a"), i), v)), Ret(array_access(Name("a"), Lit("1")))>>) : i \in Parts, v \in Parts}
Unary == {unary_expression(op, e) : op \in {"minus", "logical_not"}, e \in Leaves}
Choice(e) == B(<<If(e, Ret(Lit("1")), Ret(Name("x")))>>)
ExpressionBodies ==
  {B(<<Ret(e)>>) : e \in Leaves \cup Unary \cup {Bin(op, l, r) : op \in Operators, l \in Leaves, r \in Leaves}}
ConditionLeaves ==
  {True, Name("b"), Set(Name("b"), True), Bin("less_than", Call("g", <<Lit("1")>>), Lit("2")),
   Bin("equal", Set(Name("x"), Lit("1")), Name("y"))}
Logical(S) == {Bin(op, l, r) : op \in {"logical_or", "logical_and", "equal"}, l \in S, r \in S}
ConditionBodies ==
  {Choice(e) : e \in Logical(ConditionLeaves) \cup {unary_expression("logical_not", e) : e \in Logical(ConditionLeaves)}}
  \cup {Choice(Bin(op, l, r)) : op \in {"logical_or", "logical_and"}, l \in Logical({Name("b"), Set(Name("b"), True)}),
                                r \in ConditionLeaves}

\* Scopes: declarations of a name, uses of it, and blocks around them.
Declarations == {Local(int, n, e) : n \in {"y", "z", "x"}, e \in {Lit("3"), Name("z")}}
                  \cup {Local(void, "z", nullptr), Local(type("B", 1), "z", nullptr),
                        Local(type("C", 0), "z", null_constant)}
Uses == {Do(Set(Name("z"), Name("x"))), Do(Set(Dot(this_ref, "x"), Name("y"))),
         Local(bool, "z", nullptr)}
Scoped == Declarations \cup Uses
          \cup {B(<<d>>) : d \in Declarations} \cup {B(<<Local(int, n, Lit("3")), u>>) : n \in {"y", "z"}, u \in Uses}
          \cup {If(Bin("equal", Name("x"), Lit("0")), B(<<d>>), nullptr) : d \in Declarations}
ScopeBodies == {B(<<d, e, Ret(Bin("plus", Name("z"), Name("x")))>>) : d \in Scoped, e \in Scoped}

\* Control flow: statements that count, wait for a bound, return or do neither.
Less == Bin("less_than", Name("x"), Name("y"))
Count == Do(Call("g", <<Lit("1")>>))
Simple == {Count, Ret(Name("x")), empty_statement, Do(Set(Name("y"), Bin("minus", Name("y"), Lit("1"))))}
Branching(S) == {If(Less, s, t) : s \in S, t \in S \cup {nullptr}} \cup {While(Less, s) : s \in S}
Nested(S) == Branching(S) \cup {B(<<s, t>>) : s \in S, t \in S}
ControlBodies ==
  {B(<<s, t>>) : s \in Nested(Simple), t \in Branching(Simple) \cup {Ret(Name("y"))}}
  \cup {B(<<s, Ret(Name("y"))>>) : s \in Nested({Count, If(Less, Ret(Name("x")), nullptr),
                                               While(Less, Count), B(<<Count, Ret(Name("y"))>>)})}
  \cup {B(<<s>>) : s \in Simple \cup {Ret(nullptr), While(True, Ret(Lit("1"))), While(Lit("1"), Count)}}

\* The main method: what is known there, and what the library does.
Out == Dot(Name("System"), "out")
In(e) == method_invocation(Dot(Name("System"), "in"), "read", e)
OnSystem(n, args) == Do(method_invocation(Name("System"), n, args))
MainStatements ==
  {Do(Output(Name("args"))), Local(int, "args", nullptr), Do(Output(Dot(NewA, "x"))), Ret(nullptr),
   Ret(Lit("1")), Do(Output(Name("x"))), Do(Call("f", <<>>)), Do(this_ref), Do(Output(In(<<>>))),
   Do(method_invocation(Out, "write", <<Neg("1")>>)), Do(method_invocation(Out, "flush", <<>>)),
   OnSystem("exit", <<Lit("1")>>), OnSystem("id", <<In(<<>>)>>), OnSystem("id", <<>>),
   OnSystem("in", <<>>), Do(Set(Name("System"), Name("System"))), Do(Set(Lit("1"), Lit("2"))),
   Local(type("A", 0), "System", NewA), Do(Output(Dot(Name("System"), "x"))),
   Do(array_instantiation(type("int", 1), Neg("1"))), Do(object_instantiation("C")),
   Do(array_access(Lit("1"), Lit("1"))), Do(Dot(Lit("1"), "x")),
   Do(Output(array_access(array_instantiation(type("A", 2), Lit("1")), True))),
   Do(Output(Lit("8"))), Do(Output(Neg("9"))), Do(Set(Dot(Name("System"), "in"), null_constant)),
   Do(method_invocation(NewA, "f", <<True>>)), Do(method_invocation(null_constant, "f", <<>>)),
   Do(unary_expression("minus", True)), Do(Set(Dot(NewA, "n"), NewA)),
   Do(array_instantiation(type("void", 1), Lit("1")))}
MainPrograms ==
  {program(<<class_declaration("A", Fields, <<F(B(<<Ret(Name("x"))>>)), G, Nothing>>, <<>>),
             MainClass(B(<<s, t>>))>>) : s \in MainStatements, t \in MainStatements}

\* Classes: members that repeat a name, a class that does, and main methods.
Method(n, t, body) == instance_method(n, t, <<>>, B(body))
FieldSets == {<<>>, <<var_decl(int, "a"), var_decl(int, "b")>>, <<var_decl(int, "a"), var_decl(bool, "a")>>,
              <<var_decl(void, "a")>>, <<var_decl(type("B", 1), "a")>>}
MethodSets == {<<>>, <<Method("a", int, <<Ret(Name("a"))>>)>>, <<Method("a", void, <<Ret(nullptr)>>), Method("b", void, <<>>)>>,
               <<Method("b", type("C", 0), <<Ret(null_constant)>>)>>,
               <<Method("b", type("B", 1), <<Ret(null_constant)>>)>>,
               <<Method("b", void, <<>>), Method("b", int, <<Ret(Lit("1"))>>)>>}
NoBody == B(<<>>)
MainSets == {<<>>, <<main_method("main", "a", NoBody)>>, <<main_method("b", "a", NoBody)>>,
             <<main_method("main", "a", NoBody), main_method("main", "b", NoBody)>>}
ClassPrograms ==
  {program(<<class_declaration(n, fs, ms, mains)>> \o rest) :
     n \in {"A", "B"}, fs \in FieldSets, ms \in MethodSets, mains \in MainSets,
     rest \in {<<>>, <<class_declaration("B", <<>>, <<Method("b", int, <<Ret(Call("b", <<>>))>>)>>,
                                         <<>>)>>,
               <<MainClass(B(<<Local(type("A", 0), "a", nullptr), Do(Output(method_invocation(NewA, "a", <<>>)))>>))>>}}

ProgramsOf(set) ==
  CASE set = "expressions" -> {WithBody(b) : b \in ExpressionBodies}
    [] set = "composed" -> {WithBody(b) : b \in {B(<<Ret(e)>>) : e \in Composed} \cup ElementBodies}
    [] set = "conditions" -> {WithBody(b) : b \in ConditionBodies}
    [] set = "scopes" -> {WithBody(b) : b \in ScopeBodies}
    [] set = "control" -> {WithBody(b) : b \in ControlBodies}
    [] set = "main" -> MainPrograms
    [] set = "classes" -> ClassPrograms

\* What the optimizer has something to do with: constants and conditions, fields
\* that are read and written, objects nobody reads, empty blocks.
Z == Name("z")
X == Name("x")
Y == Name("y")
Less3 == Bin("less_than", Y, Lit("3"))
NX == Dot(Name("n"), "x")
SetTo(l, r) == Do(Set(l, r))
Prints(e) == Do(Output(e))
Setups ==
  {SetTo(Z, Bin("multiply", Z, Lit("2"))), SetTo(Z, Bin("minus", Name("y"), Name("y"))),
   SetTo(Z, Bin("multiply", Name("y"), Lit("0"))),
   B(<<SetTo(Name("n"), this_ref), SetTo(X, Z), SetTo(NX, Lit("2"))>>),
   B(<<SetTo(Name("n"), NewA), SetTo(X, Z), SetTo(NX, Lit("2"))>>),
   B(<<If(Less3, SetTo(Name("n"), this_ref), SetTo(Name("n"), NewA)), SetTo(X, Z), SetTo(NX, Lit("2"))>>),
   SetTo(Dot(NewA, "x"), Z), SetTo(X, Z),
   If(Bin("less_than", Z, Name("y")), SetTo(Z, X), SetTo(X, Z)),
   If(Bin("less_than", Z, Lit("3")), SetTo(Z, Lit("1")), SetTo(Z, Lit("2")))}
Effects ==
  {If(Bin("less_than", Z, Name("y")), SetTo(X, Lit("1")), nullptr), SetTo(NX, X),
   B(<<SetTo(X, Lit("1")), Prints(X), SetTo(X, X)>>), B(<<Count, SetTo(Z, X)>>),
   If(Bin("equal", Name("y"), Lit("2")), B(<<>>), nullptr),
   If(Bin("less_than", Bin("plus", Z, Lit("1")), Lit("7")), B(<<>>), Prints(Lit("1"))),
   While(Bin("less_than", Z, Lit("7")), B(<<SetTo(Z, Bin("plus", Z, Name("y"))), SetTo(X, Z)>>)),
   If(Bin("logical_and", Name("b"), Bin("equal", Z, Lit("3"))), Prints(Z), Prints(X))}
\* Methods that call themselves in the end: with a parameter more, with both exchanged,
\* on another object, from two places, with a parameter nothing uses, and not in the end.
Plus(e, l) == Bin("plus", e, Lit(l))
Again(e, f) == Ret(Call("f", <<e, f>>))
TailBodies ==
  {B(<<If(Less3, B(<<SetTo(X, Y), Again(Z, Plus(Y, "2"))>>), nullptr), Ret(Plus(X, "1"))>>),
   B(<<Prints(Z), If(Less3, Again(Z, Y), nullptr), Ret(Bin("minus", Z, Y))>>),
   B(<<If(Less3, B(<<SetTo(X, Z), SetTo(Name("n"), NewA), SetTo(NX, Y),
                     Ret(method_invocation(Name("n"), "f", <<Plus(Y, "1"), Z>>))>>), nullptr), Ret(Bin("plus", X, Z))>>),
   B(<<If(Less3, If(Bin("less_than", Z, Lit("4")), Again(Y, Plus(Z, "1")), Again(Plus(Y, "1"), Z)), Prints(Z)), Ret(Y)>>),
   B(<<If(Less3, Again(Plus(Y, "1"), Lit("1")), nullptr), Ret(Y)>>),
   B(<<If(Less3, B(<<Prints(Call("f", <<Plus(Y, "1"), Z>>)), Ret(Z)>>), nullptr), Ret(Y)>>)}
\* f and h call each other; f calls in a loop, with what a call returned,
\* and a method that returns in two places.
H(body) == instance_method("h", int, <<var_decl(int, "y")>>, body)
CallH(e) == Call("h", <<e>>)
CallBodies ==
  {<<B(<<If(Bin("less_than", X, Lit("1")), Ret(Plus(CallH(Y), "1")), nullptr), Ret(X)>>),
     B(<<SetTo(X, Plus(X, "1")), Prints(Y), Ret(Call("f", <<Y, Y>>))>>)>>,
   <<B(<<While(Bin("less_than", CallH(Z), Lit("4")), SetTo(Y, X)), Ret(Y)>>), B(<<SetTo(X, Plus(X, "2")), Ret(X)>>)>>,
   <<B(<<Ret(CallH(CallH(Y)))>>),
     B(<<If(Bin("less_than", X, Lit("1")), B(<<SetTo(X, Lit("1")), Ret(Y)>>), nullptr), Prints(Y), Ret(X)>>)>>}
WithMethods(methods) ==
  program(<<class_declaration("A", Fields, methods, <<>>),
            MainClass(B(<<Do(Output(method_invocation(NewA, "f", <<Lit("2"), Lit("3")>>)))>>))>>)
F2(body) == instance_method("f", int, <<var_decl(int, "y"), var_decl(int, "z")>>, body)
TailPrograms == {WithMethods(<<F2(body)>>) : body \in TailBodies}
CallPrograms == {WithMethods(<<F2(b[1]), H(b[2])>>) : b \in CallBodies}
OptimizerPrograms ==
  {WithBody(B(<<Local(int, "z", Lit("3")), s, t, Prints(Z), Ret(X)>>)) : s \in Setups, t \in Effects}
    \cup TailPrograms \cup CallPrograms
OptimizerRequests ==
  {[option |-> "none"],
   [option |-> "opts-ordered", names |-> <<"gc", "tailrec", "control_flow", "conditional", "load_store", "folding">>],
   [option |-> "O", level |-> 1]}

-----------------------------------------------------------------------------
(* Graphs for the passes on values, and what operations may yield.         *)

NodeOf(op, mode, b, in, attr) == [op |-> op, mode |-> mode, block |-> b, in |-> in, attr |-> attr]
Graph(ns, preds) ==
  [NewGraph EXCEPT !.nodes = ns, !.node = Len(ns),
                   !.blocks = [b \in DOMAIN preds |-> [NoBlock EXCEPT !.preds = preds[b], !.mature = TRUE]]]

\* i = 3; while (i < y) i = (y - y) * i + 3; g(-i); return i;
\* The Phi and what is added to in the loop depend on each other.
LoopGraph == Graph(<<
  NodeOf("Variable", "M", 1, <<>>, -1), NodeOf("Argument", "Is", 1, <<>>, 0), NodeOf("Const", "Is", 1, <<>>, 3),
  NodeOf("Jmp", "X", 1, <<>>, 0),
  NodeOf("Phi", "Is", 3, <<3, 10>>, 0), NodeOf("Cmp", "b", 3, <<5, 2>>, "less_than"), NodeOf("Cond", "T", 3, <<6>>, 0),
  NodeOf("Proj", "X", 3, <<7>>, "true"), NodeOf("Proj", "X", 3, <<7>>, "false"),
  NodeOf("Add", "Is", 4, <<11, 3>>, 0), NodeOf("Mul", "Is", 4, <<12, 5>>, 0), NodeOf("Sub", "Is", 4, <<2, 2>>, 0),
  NodeOf("Jmp", "X", 4, <<>>, 0),
  NodeOf("Minus", "Is", 5, <<5>>, 0), NodeOf("Call", "T", 5, <<1, 14>>, 0), NodeOf("Proj", "M", 5, <<15>>, "M"),
  NodeOf("Return", "X", 5, <<16, 5>>, 0)>>,
  << <<>>, <<17>>, <<4, 13>>, <<8>>, <<9>> >>)

\* y >= y decides a branch; 3 < -8 decides what two Muxes select, one by way of
\* the other, and no branch; neither Phi is decided.
BranchGraph == Graph(<<
  NodeOf("Variable", "M", 1, <<>>, -1), NodeOf("Argument", "Is", 1, <<>>, 0),
  NodeOf("Const", "Is", 1, <<>>, 3), NodeOf("Const", "Is", 1, <<>>, -8),
  NodeOf("Cmp", "b", 1, <<3, 4>>, "less_than"), NodeOf("Const", "Bs", 1, <<>>, 0), NodeOf("Const", "Bs", 1, <<>>, 1),
  NodeOf("Mux", "Bs", 1, <<5, 6, 7>>, 0), NodeOf("Cmp", "b", 1, <<2, 2>>, "greater_equal"), NodeOf("Cond", "T", 1, <<9>>, 0),
  NodeOf("Proj", "X", 1, <<10>>, "true"), NodeOf("Proj", "X", 1, <<10>>, "false"),
  NodeOf("Jmp", "X", 3, <<>>, 0), NodeOf("Jmp", "X", 4, <<>>, 0),
  NodeOf("Phi", "Bs", 5, <<7, 6>>, 0), NodeOf("Const", "b", 1, <<>>, TRUE), NodeOf("Const", "b", 1, <<>>, FALSE),
  NodeOf("Mux", "b", 5, <<5, 16, 17>>, 0), NodeOf("Mux", "b", 5, <<18, 16, 17>>, 0), NodeOf("Cond", "T", 5, <<19>>, 0),
  NodeOf("Proj", "X", 5, <<20>>, "true"), NodeOf("Proj", "X", 5, <<20>>, "false"), NodeOf("Jmp", "X", 6, <<>>, 0),
  NodeOf("Phi", "b", 7, <<16, 9>>, 0), NodeOf("Cond", "T", 7, <<24>>, 0),
  NodeOf("Proj", "X", 7, <<25>>, "true"), NodeOf("Proj", "X", 7, <<25>>, "false"),
  NodeOf("Return", "X", 8, <<30>>, 0), NodeOf("Call", "T", 8, <<1, 15, 8>>, 0), NodeOf("Proj", "M", 8, <<29>>, "M")>>,
  << <<>>, <<28>>, <<11>>, <<12>>, <<14, 13>>, <<21>>, <<22, 23>>, <<26, 27>> >>)

ValueGraphs == {LoopGraph, BranchGraph}
Yields == {0, 3, -8}
NoValues ==
  /\ pass = "folding" /\ source = NewGraph /\ work = NewWorklist(NewGraph) /\ stage = "run"
  /\ Source!Fresh

-----------------------------------------------------------------------------
\* Either a program goes through the phases, or the table or pools are used.
Init ==
  /\ SemanticInit
  /\ graphs = NoGraphs /\ opt = NoOptimizer
  /\ TableInit
  /\ PoolInit
  /\ \/ part \in {"values", "table", "pools"} /\ ast = nullptr
     \/ part = "program" /\ \E s \in Sets : ast \in ProgramsOf(s)
     \/ part = "optimizer" /\ ast \in OptimizerPrograms
  /\ IF part = "values" THEN ValueInit ELSE NoValues

Next ==
  /\ UNCHANGED part
  /\ \/ /\ part \in {"program", "optimizer"}
        /\ \/ ((check_program /\ UNCHANGED graphs) \/ CreateFirmIr) /\ UNCHANGED opt
           \/ part = "optimizer" /\ OptimizerNext
        /\ UNCHANGED <<valueVars, nested_scopes, poolVars>>
     \/ /\ part = "values"
        /\ ValueNext
        /\ UNCHANGED <<optVars, nested_scopes, poolVars>>
     \/ /\ part = "table"
        /\ TableNext
        /\ UNCHANGED <<optVars, valueVars, poolVars>>
     \/ /\ part = "pools"
        /\ PoolNext
        /\ UNCHANGED <<optVars, valueVars, nested_scopes>>

Spec == Init /\ [][Next]_vars
=============================================================================
