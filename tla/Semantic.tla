------------------------------ MODULE Semantic ------------------------------
(***************************************************************************)
(* check_program (src/src/core/semantic/semantic.tpp): the built-in        *)
(* classes and then the user's are analysed into the same attributes, the  *)
(* return paths of the user's methods are checked, and constants are       *)
(* extracted.  The first error rejects the program.                        *)
(***************************************************************************)
EXTENDS NameTypeAnalysis, CompileTimeConstants

VARIABLES
  ast,    \* the user's program
  phase,  \* what check_program does next, or "rejected" or "checked"
  info,   \* the attributes computed so far: see NameTypeAnalysis
  consts  \* the constants: see CompileTimeConstants

-----------------------------------------------------------------------------
(* The built-in classes, and the one global, System. *)

make_builtin_method(name, rettype, paramtypes) ==
  instance_method(name, type(rettype, 0),
                  [i \in DOMAIN paramtypes |-> var_decl(type(paramtypes[i], 0), "_1")], block(<<>>))

make_builtin_ast ==
  program(<<
    class_declaration("java.lang.String", <<>>, <<>>, <<>>),
    class_declaration("java.io.PrintStream", <<>>,
      <<make_builtin_method("println", "void", <<"int">>),
        make_builtin_method("write", "void", <<"int">>),
        make_builtin_method("flush", "void", <<>>)>>, <<>>),
    class_declaration("java.io.InputStream", <<>>,
      <<make_builtin_method("read", "int", <<>>)>>, <<>>),
    class_declaration("java.lang.System",
      <<var_decl(type("java.io.InputStream", 0), "in"),
        var_decl(type("java.io.PrintStream", 0), "out")>>,
      <<make_builtin_method("id", "int", <<"int">>),
        make_builtin_method("exit", "void", <<"int">>)>>, <<>>)>>)

\* The roots of the trees.
Builtin == <<0>>
User == <<1>>
make_globals == <<Declared(<<2>>, var_decl(type("java.lang.System", 0), "System"))>>

-----------------------------------------------------------------------------
(* Return paths (thou_shalt_return.cpp). *)

\* Mutant of can_complete_normally: if either branch returns, both do.
RECURSIVE OneBranchReturns(_)
OneBranchReturns(s) ==
  CASE s.node = "block" -> \A i \in DOMAIN s.body : OneBranchReturns(s.body[i])
    [] s.node = "return_statement" -> FALSE
    [] s.node = "if_statement" /\ s.else_statement # nullptr ->
         OneBranchReturns(s.then_statement) /\ OneBranchReturns(s.else_statement)
    [] OTHER -> TRUE

\* A loop is always left, an if statement without else is always passed.
RECURSIVE can_complete_normally(_)
can_complete_normally(s) ==
  CASE s.node = "block" -> \A i \in DOMAIN s.body : can_complete_normally(s.body[i])
    [] s.node = "return_statement" -> FALSE
    [] s.node = "if_statement" /\ s.else_statement # nullptr ->
         can_complete_normally(s.then_statement) \/ can_complete_normally(s.else_statement)
    [] OTHER -> TRUE

check_return_paths(prog, p, types) ==
  \A c \in DOMAIN prog.classes :
    LET class == prog.classes[c]
    IN \A m \in DOMAIN class.instance_methods :
         types[MethodPath(Append(p, c), class, m)] = Type("void", 0)
           \/ ~can_complete_normally(class.instance_methods[m].body)

-----------------------------------------------------------------------------
process(tree, p, builtin, globals, st) ==
  LET s == extract_type_info(tree, p, builtin, st)
  IN IF s.error # "" THEN s ELSE perform_name_type_analysis(tree, p, ~builtin, globals, s)

NoConstants == [error |-> "", value |-> [q \in {} |-> 0]]

SemanticInit ==
  /\ phase = "builtin"
  /\ info = Start_(NoClasses)
  /\ consts = NoConstants

Analyse(from, to, result) ==
  /\ phase = from
  /\ info' = result
  /\ phase' = IF result.error # "" THEN "rejected" ELSE to
  /\ UNCHANGED <<ast, consts>>

ProcessBuiltin == Analyse("builtin", "user", process(make_builtin_ast, Builtin, TRUE, <<>>, info))
ProcessUser == Analyse("user", "return_paths", process(ast, User, FALSE, make_globals, info))

CheckReturnPaths ==
  Analyse("return_paths", "constants",
          IF check_return_paths(ast, User, info.type) THEN info ELSE Throw(info, "reaches_end"))

ExtractConstants ==
  /\ phase = "constants"
  /\ consts' = extract_constants(ast, User)
  /\ info' = Throw(info, consts'.error)
  /\ phase' = IF consts'.error # "" THEN "rejected" ELSE "checked"
  /\ UNCHANGED ast

check_program == ProcessBuiltin \/ ProcessUser \/ CheckReturnPaths \/ ExtractConstants
=============================================================================
