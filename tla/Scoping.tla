------------------------------ MODULE Scoping ------------------------------
(***************************************************************************)
(* What a table of nested scopes promises, whatever it stores: each scope  *)
(* sees a meaning for every name.  Entering a scope keeps all meanings, a  *)
(* definition changes that of one name, leaving a scope restores all of    *)
(* them.  The symbol table implements this without copying anything.       *)
(***************************************************************************)
EXTENDS Naturals, Sequences

CONSTANTS
  Symbols,  \* names
  Decls,    \* declarations
  Unknown   \* the meaning of a name nobody declared

VARIABLE meaning \* per open scope, the meaning of every name

Enter ==
  meaning' = Append(meaning, IF meaning = <<>> THEN [n \in Symbols |-> Unknown]
                             ELSE meaning[Len(meaning)])

Define(n, d) ==
  /\ meaning # <<>>
  /\ meaning' = [meaning EXCEPT ![Len(meaning)] = [@ EXCEPT ![n] = d]]

Leave ==
  /\ meaning # <<>>
  /\ meaning' = SubSeq(meaning, 1, Len(meaning) - 1)

Init == meaning = <<>>
Next == Enter \/ Leave \/ \E n \in Symbols, d \in Decls : Define(n, d)
Spec == Init /\ [][Next]_meaning
=============================================================================
