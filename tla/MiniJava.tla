------------------------------ MODULE MiniJava ------------------------------
(***************************************************************************)
(* The language, as a reference: what a program does, defined on its tree  *)
(* alone.  Names are looked up while the program runs and every value      *)
(* carries its type, so that a program the analysis should have rejected   *)
(* gets stuck here.  None of this is the compiler's.                       *)
(*                                                                         *)
(* s.stop: "fault" (null, division by zero), "exit", "negative_size",      *)
(* "unfinished" (out of steps), "undefined" (what compiled programs may do *)
(* anything for: an index out of bounds, a call on null, a variable read   *)
(* in its own initial value), and "stuck".                                 *)
(***************************************************************************)
EXTENDS AbstractSyntax, MachineIntegers, FiniteSets

V(t, v) == [t |-> t, v |-> v]
NoValue == V("void", 0)
Null == V("null", 0)
Ref(i) == V("object", i)
IntegerValue(n) == V("int", n)
BooleanValue(b) == V("boolean", b)
Uninitialized == V("uninitialized", 0)
Kind(v) == IF v.t \in {"null", "object"} THEN "reference" ELSE v.t

Default(t) ==
  IF t.rank = 0 /\ t.name = "int" THEN IntegerValue(0)
  ELSE IF t.rank = 0 /\ t.name = "boolean" THEN BooleanValue(FALSE) ELSE Null

Halt(s, why) == IF s.stop = "" THEN [s EXCEPT !.stop = why] ELSE s
With(s, v) == IF s.stop = "" THEN [s EXCEPT !.value = v] ELSE s
Named(members, name) == {i \in DOMAIN members : members[i].name = name}
The(members, name) == members[CHOOSE i \in Named(members, name) : TRUE]

New(s, class, slots) ==
  [s EXCEPT !.heap = Append(@, [class |-> class, slots |-> slots]),
            !.value = Ref(Len(s.heap) + 1)]

Object(class) ==
  [f \in {class.fields[i].name : i \in DOMAIN class.fields} |->
     Default(The(class.fields, f).var_type)]

\* The place v.place of the object v denotes, or the reason there is none.
Missing(s, object, place) ==
  CASE object.t = "null" -> "fault"
    [] object.t = "object" ->
         IF place \in DOMAIN s.heap[object.v].slots THEN ""
         ELSE IF s.heap[object.v].class = "array" THEN "undefined" ELSE "stuck"
    [] OTHER -> "stuck"
Fetch(s, object, place) ==
  LET why == Missing(s, object, place)
  IN IF why # "" THEN Halt(s, why) ELSE With(s, s.heap[object.v].slots[place])
Put(s, object, place, v) ==
  LET why == Missing(s, object, place)
  IN IF why # "" THEN Halt(s, why)
     ELSE IF Kind(s.heap[object.v].slots[place]) # Kind(v) THEN Halt(s, "stuck")
     ELSE With([s EXCEPT !.heap[object.v].slots[place] = v], v)

IsArray(s, v) == v.t = "object" /\ s.heap[v.v].class = "array"
Subscript(s, array, index) ==
  index.t = "int" /\ (array.t = "null" \/ IsArray(s, array))

Applied(s, op, l, r) ==
  LET comparison(b) == With(s, BooleanValue(b))
      number(n) == With(s, IntegerValue(wrap(n)))
  IN CASE op \in {"equal", "not_equal"} ->
            IF Kind(l) # Kind(r) \/ l.t = "void" THEN Halt(s, "stuck")
            ELSE comparison((l.v = r.v) = (op = "equal"))
       [] op \notin {"equal", "not_equal"} /\ (l.t # "int" \/ r.t # "int") -> Halt(s, "stuck")
       [] op = "less_than" -> comparison(l.v < r.v)
       [] op = "less_equal" -> comparison(l.v <= r.v)
       [] op = "greater_than" -> comparison(l.v > r.v)
       [] op = "greater_equal" -> comparison(l.v >= r.v)
       [] op = "plus" -> number(l.v + r.v)
       [] op = "minus" -> number(l.v - r.v)
       [] op = "multiply" -> number(l.v * r.v)
       [] op = "divide" -> IF r.v = 0 THEN Halt(s, "fault") ELSE number(Truncated(l.v, r.v))
       [] op = "modulo" -> IF r.v = 0 THEN Halt(s, "fault")
                           ELSE number(l.v - r.v * Truncated(l.v, r.v))

Literal_(e) ==
  LET n == FoldLeft(LAMBDA v, d : 10 * v + d, 0, Digits[e.literal])
  IN IF e.negative THEN -n ELSE n

\* What the runtime library does for a built-in method.
BuiltIn(s, name, args) ==
  CASE name = "println" -> With([s EXCEPT !.out = Append(@, args[1].v)], NoValue)
    [] name = "write" -> With([s EXCEPT !.out = Append(@, args[1].v % 256)], NoValue)
    [] name = "flush" -> With(s, NoValue)
    [] name = "id" -> With(s, args[1])
    [] name = "exit" -> Halt(s, "exit")
    [] name = "read" -> IF s.input = <<>> THEN With(s, IntegerValue(-1))
                        ELSE With([s EXCEPT !.input = Tail(@)], IntegerValue(Head(s.input)))

RECURSIVE Eval(_, _), Exec(_, _)

\* Evaluates es from left to right; the values are in s.values.
EvalAll(s, es) ==
  LET add(u, values) == [u EXCEPT !.values = Append(values, u.value)]
  IN FoldLeft(LAMBDA t, e : add(Eval(e, t), t.values), [s EXCEPT !.values = <<>>], es)

Bound(parameters, args) ==
  [n \in {parameters[i].name : i \in DOMAIN parameters} |->
     args[CHOOSE i \in Named(parameters, n) : TRUE]]

\* Method m of the object returns to s.
Run(s, object, m, args) ==
  LET back(t) == [t EXCEPT !.env = s.env, !.this = s.this, !.returned = s.returned]
      return(t) == IF m.return_type = type("void", 0) THEN With(back(t), NoValue)
                   ELSE IF t.stop = "" /\ (~t.returned \/ Kind(t.value) # Kind(Default(m.return_type)))
                   THEN Halt(t, "stuck") ELSE back(t)
  IN IF s.steps = 0 THEN Halt(s, "unfinished")
     ELSE return(Exec(m.body, [s EXCEPT !.env = Bound(m.parameters, args), !.this = object,
                                        !.returned = FALSE, !.value = NoValue, !.steps = @ - 1]))

Invoke(s, object, name, args) ==
  LET class == s.heap[object.v].class
      call(m) ==
        IF Len(args) # Len(m.parameters) THEN Halt(s, "stuck")
        ELSE IF \E i \in DOMAIN args : Kind(args[i]) # Kind(Default(m.parameters[i].var_type))
        THEN Halt(s, "stuck")
        ELSE IF class \in s.builtins THEN BuiltIn(s, name, args)
        ELSE Run(s, object, m, args)
  IN IF class \notin DOMAIN s.classes \/ Named(s.classes[class].instance_methods, name) = {}
     THEN Halt(s, "stuck")
     ELSE call(The(s.classes[class].instance_methods, name))

\* A name is a local variable, a field of this, or the global.
EvalName(s, name) ==
  IF name \in DOMAIN s.env
  THEN IF s.env[name] = Uninitialized THEN Halt(s, "undefined") ELSE With(s, s.env[name])
  ELSE IF s.this # Null /\ name \in DOMAIN s.heap[s.this.v].slots THEN Fetch(s, s.this, name)
  ELSE IF name = "System" THEN With(s, Ref(1)) ELSE Halt(s, "stuck")

SetLocal(t, name, env) ==
  IF Kind(t.value) # Kind(env[name]) /\ env[name] # Uninitialized
  THEN Halt(t, "stuck") ELSE [t EXCEPT !.env[name] = t.value]

Assign(s, lhs, rhs) ==
  LET put(t, object, place) == IF t.stop # "" THEN t ELSE Put(t, object, place, t.value)
      local(t) == IF t.stop # "" THEN t ELSE SetLocal(t, lhs.name, t.env)
      element(t, array) == IF t.stop = "" /\ ~Subscript(t, array, t.value) THEN Halt(t, "stuck")
                           ELSE put(Eval(rhs, t), array, t.value.v)
      index(t) == element(Eval(lhs.index, t), t.value)
      field(t) == put(Eval(rhs, t), t.value, lhs.name)
      own == lhs.node = "variable_access" /\ lhs.target = nullptr
  IN CASE lhs.node = "array_access" -> index(Eval(lhs.target, s))
       [] lhs.node = "variable_access" /\ ~own -> field(Eval(lhs.target, s))
       [] own /\ lhs.name \in DOMAIN s.env -> local(Eval(rhs, s))
       [] own /\ lhs.name \notin DOMAIN s.env -> put(Eval(rhs, s), s.this, lhs.name)
       [] OTHER -> Halt(s, "stuck")

EvalLogical(s, e) ==
  LET right(r) == IF r.stop = "" /\ r.value.t # "boolean" THEN Halt(r, "stuck") ELSE r
      left(l) == IF l.stop # "" THEN l
                 ELSE IF l.value.t # "boolean" THEN Halt(l, "stuck")
                 ELSE IF l.value.v = (e.type = "logical_or") THEN l
                 ELSE right(Eval(e.rhs, l))
  IN left(Eval(e.lhs, s))

EvalBinary(s, e) ==
  LET right(r, l) == IF r.stop # "" THEN r ELSE Applied(r, e.type, l, r.value)
      left(l) == right(Eval(e.rhs, l), l.value)
  IN CASE e.type = "assign" -> Assign(s, e.lhs, e.rhs)
       [] e.type \in {"logical_or", "logical_and"} -> EvalLogical(s, e)
       [] OTHER -> left(Eval(e.lhs, s))

EvalUnary(s, e) ==
  LET apply(t) ==
        IF t.stop # "" THEN t
        ELSE IF t.value.t # (IF e.type = "minus" THEN "int" ELSE "boolean") THEN Halt(t, "stuck")
        ELSE With(t, IF e.type = "minus" THEN IntegerValue(wrap(-t.value.v))
                     ELSE BooleanValue(~t.value.v))
  IN apply(Eval(e.target, s))

EvalInvocation(s, e) ==
  LET invoke(a, object) == IF a.stop # "" THEN a
                           ELSE IF object = Null THEN Halt(a, "undefined")
                           ELSE Invoke(a, object, e.name, a.values)
      call(o) ==
        IF o.stop # "" THEN o
        ELSE IF o.value.t \notin {"null", "object"} \/ (o.value = Null /\ e.target = nullptr)
        THEN Halt(o, "stuck")
        ELSE invoke(EvalAll(o, e.arguments), o.value)
  IN call(IF e.target = nullptr THEN With(s, s.this) ELSE Eval(e.target, s))

EvalElement(s, e) ==
  LET fetch(i, array) == IF i.stop # "" THEN i
                         ELSE IF ~Subscript(i, array, i.value) THEN Halt(i, "stuck")
                         ELSE Fetch(i, array, i.value.v)
      index(a) == fetch(Eval(e.index, a), a.value)
  IN index(Eval(e.target, s))

EvalNewArray(s, e) ==
  LET element == type(e.array_type.name, e.array_type.rank - 1)
      new(t) == IF t.stop # "" THEN t
                ELSE IF t.value.t # "int" THEN Halt(t, "stuck")
                ELSE IF t.value.v < 0 THEN Halt(t, "negative_size")
                ELSE New(t, "array", [i \in 0..t.value.v - 1 |-> Default(element)])
  IN new(Eval(e.extent, s))

EvalField(s, e) ==
  LET fetch(o) == IF o.stop # "" THEN o ELSE Fetch(o, o.value, e.name)
  IN fetch(Eval(e.target, s))

Eval(e, s) ==
  IF s.stop # "" THEN s
  ELSE CASE e.node = "boolean_constant" -> With(s, BooleanValue(e.value))
         [] e.node = "integer_constant" -> With(s, IntegerValue(Literal_(e)))
         [] e.node = "null_constant" -> With(s, Null)
         [] e.node = "this_ref" -> IF s.this = Null THEN Halt(s, "stuck") ELSE With(s, s.this)
         [] e.node = "variable_access" ->
              IF e.target = nullptr THEN EvalName(s, e.name) ELSE EvalField(s, e)
         [] e.node = "array_access" -> EvalElement(s, e)
         [] e.node = "object_instantiation" ->
              IF e.class_name \notin DOMAIN s.classes THEN Halt(s, "stuck")
              ELSE New(s, e.class_name, Object(s.classes[e.class_name]))
         [] e.node = "array_instantiation" -> EvalNewArray(s, e)
         [] e.node = "method_invocation" -> EvalInvocation(s, e)
         [] e.node = "unary_expression" -> EvalUnary(s, e)
         [] e.node = "binary_expression" -> EvalBinary(s, e)

\* The statement a condition chooses; nullptr does nothing.
Condition(e, s, then, else) ==
  LET choose(t) == IF t.stop # "" THEN t
                   ELSE IF t.value.t # "boolean" THEN Halt(t, "stuck")
                   ELSE Exec(IF t.value.v THEN then ELSE else, t)
  IN choose(Eval(e, s))

ExecLocal(st, s) ==
  LET d == st.declaration
      bind(v) == [s EXCEPT !.env = (d.name :> v) @@ @]
      set(t) == IF t.stop # "" THEN t
                ELSE IF Kind(t.value) # Kind(Default(d.var_type)) THEN Halt(t, "stuck")
                ELSE [t EXCEPT !.env[d.name] = t.value]
  IN IF st.initial_value = nullptr THEN bind(Default(d.var_type))
     ELSE set(Eval(st.initial_value, bind(Uninitialized)))

ExecBlock(st, s) ==
  LET close(t) == [t EXCEPT !.env = [n \in DOMAIN s.env |-> t.env[n]]]
  IN close(FoldLeft(LAMBDA t, x : Exec(x, t), s, st.body))

Exec(st, s) ==
  IF s.stop # "" \/ s.returned THEN s
  ELSE CASE st.node = "block" -> ExecBlock(st, s)
         [] st.node = "local_variable_statement" -> ExecLocal(st, s)
         [] st.node = "expression_statement" -> Eval(st.inner_expression, s)
         [] st.node = "if_statement" ->
              Condition(st.condition, s, st.then_statement, st.else_statement)
         [] st.node = "while_statement" ->
              IF s.steps = 0 THEN Halt(s, "unfinished")
              ELSE Condition(st.condition, [s EXCEPT !.steps = @ - 1],
                             block(<<st.body, st>>), nullptr)
         [] st.node = "return_statement" ->
              IF st.value = nullptr THEN [s EXCEPT !.returned = TRUE]
              ELSE [Eval(st.value, s) EXCEPT !.returned = TRUE]
         [] st.node \in {"empty_statement", "nullptr"} -> s

\* The main method of a program, with the classes the language provides.
Mains_(prog) ==
  UNION {{prog.classes[c].main_methods[m] : m \in DOMAIN prog.classes[c].main_methods} :
           c \in DOMAIN prog.classes}
Execution(prog, library, input, steps) ==
  LET all == prog.classes \o library.classes
      main == CHOOSE m \in Mains_(prog) : TRUE
      start == [classes |-> [n \in {all[i].name : i \in DOMAIN all} |-> The(all, n)],
                builtins |-> {library.classes[i].name : i \in DOMAIN library.classes},
                heap |-> <<[class |-> "java.lang.System",
                            slots |-> [f \in {"in", "out"} |-> IF f = "in" THEN Ref(2) ELSE Ref(3)]],
                           [class |-> "java.io.InputStream", slots |-> [f \in {} |-> Null]],
                           [class |-> "java.io.PrintStream", slots |-> [f \in {} |-> Null]]>>,
                out |-> <<>>, input |-> input, steps |-> steps, stop |-> "",
                env |-> [n \in {} |-> Null], this |-> Null, value |-> NoValue, values |-> <<>>,
                returned |-> FALSE]
  IN Exec(main.body, start)
=============================================================================
