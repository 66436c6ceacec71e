---------------------------- MODULE SymbolTable ----------------------------
(***************************************************************************)
(* The symbol table of the analysis (src/src/core/semantic/symbol_table):  *)
(* a stack of scopes, each with the declarations made in it and a flag     *)
(* that tells whether inner scopes may hide them.                          *)
(***************************************************************************)
EXTENDS Naturals, Sequences

CONSTANTS
  Symbols,  \* names
  Decls,    \* declarations
  Unknown,  \* no declaration: nullptr
  MaxScopes \* bound: open scopes

ASSUME SymbolAssumption == Unknown \notin Decls

VARIABLE nested_scopes

-----------------------------------------------------------------------------
(* The operations as functions of the scopes; NameTypeAnalysis calls them. *)

Holding(scopes, name) == {i \in DOMAIN scopes : name \in DOMAIN scopes[i].defs}

\* The declaration in the innermost of the scopes in S that has one.
InnermostDef(scopes, name, S) ==
  IF S = {} THEN Unknown
  ELSE scopes[CHOOSE i \in S : \A j \in S : j <= i].defs[name]

lookup(scopes, name) == InnermostDef(scopes, name, Holding(scopes, name))

\* Mutant of get_conflicting_definitions: an enclosing scope is looked at
\* only as far as the first one that may be shadowed.
StopsAtShadow(scopes, name) ==
  InnermostDef(scopes, name, {i \in Holding(scopes, name) :
                                \A j \in i..Len(scopes) : j = Len(scopes) \/ ~scopes[j].may_shadow})

get_conflicting_definitions(scopes, name) ==
  InnermostDef(scopes, name, {i \in Holding(scopes, name) :
                                i = Len(scopes) \/ ~scopes[i].may_shadow})

\* Mutant of add_def: the definition goes to the outermost scope.
AddsToOutermost(scopes, name, def) ==
  [scopes EXCEPT ![1].defs =
     [n \in DOMAIN @ \cup {name} |-> IF n = name THEN def ELSE @[n]]]

add_def(scopes, name, def) ==
  [scopes EXCEPT ![Len(scopes)].defs =
     [n \in DOMAIN @ \cup {name} |-> IF n = name THEN def ELSE @[n]]]

enter_scope(scopes, may_shadow) ==
  Append(scopes, [may_shadow |-> may_shadow, defs |-> [n \in {} |-> Unknown]])

leave_scope(scopes) == SubSeq(scopes, 1, Len(scopes) - 1)

-----------------------------------------------------------------------------
(* Every sequence of calls that has a scope to work on. *)

TableInit == nested_scopes = <<>>

EnterScope(may_shadow) ==
  /\ Len(nested_scopes) < MaxScopes
  /\ nested_scopes' = enter_scope(nested_scopes, may_shadow)

LeaveScope ==
  /\ nested_scopes # <<>>
  /\ nested_scopes' = leave_scope(nested_scopes)

\* A conflict throws semantic_error and leaves the table as it was.
AddDef(name, def) ==
  /\ nested_scopes # <<>>
  /\ get_conflicting_definitions(nested_scopes, name) = Unknown
  /\ nested_scopes' = add_def(nested_scopes, name, def)

TableNext ==
  \/ \E may_shadow \in BOOLEAN : EnterScope(may_shadow)
  \/ LeaveScope
  \/ \E name \in Symbols, def \in Decls : AddDef(name, def)

TableSpec == TableInit /\ [][TableNext]_nested_scopes

-----------------------------------------------------------------------------
(* The state has the shape symbol_table::scope gives it. *)
Scopes == [may_shadow : BOOLEAN, defs : UNION {[N -> Decls] : N \in SUBSET Symbols}]
TableTypeOK == nested_scopes \in Seq(Scopes)

(* A declaration hides another only if that one's scope permits it: no     *)
(* order of entering, leaving and declaring gets around the check made     *)
(* when the inner declaration is added.                                    *)
HidesOnlyWhatMayBeHidden ==
  \A i, j \in DOMAIN nested_scopes :
    i < j => nested_scopes[i].may_shadow
             \/ DOMAIN nested_scopes[i].defs \cap DOMAIN nested_scopes[j].defs = {}

(* The table means what copied scopes would mean.                          *)
Meaning(i) == [n \in Symbols |-> lookup(SubSeq(nested_scopes, 1, i), n)]
Abstract == INSTANCE Scoping WITH meaning <- [i \in 1..Len(nested_scopes) |-> Meaning(i)]
ImplementsScoping == Abstract!Spec
=============================================================================
