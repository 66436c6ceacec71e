------------------------- MODULE SymbolTableProofs -------------------------
(***************************************************************************)
(* For every set of names and declarations and any depth of scopes: a      *)
(* declaration hides only what may be hidden, and the table of scopes      *)
(* means what copied scopes would mean.                                    *)
(***************************************************************************)
EXTENDS SymbolTable, SequenceTheorems, WellFoundedInduction, TLAPS

-----------------------------------------------------------------------------
(* Innermost scopes. *)

\* Every set of naturals that is not empty has a least member.
LEMMA Minimum ==
  ASSUME NEW T \in SUBSET Nat, T # {}
  PROVE  \E x \in T : \A y \in T : x <= y
<1> DEFINE R == OpToRel(<, Nat)
<1>1. IsWellFoundedOn(R, Nat)
  BY NatLessThanWellFounded
<1> HIDE DEF R
<1>2. \E x \in T : \A y \in T : <<y, x>> \notin R
  BY <1>1, WFMin, Zenon
<1>3. \A x, y \in Nat : y < x => <<y, x>> \in R
  BY DEF R, OpToRel
<1>4. PICK x \in T : \A y \in T : <<y, x>> \notin R
  BY <1>2
<1>5. x \in Nat /\ \A y \in T : y \in Nat /\ ~(y < x)
  BY <1>3, <1>4
<1>6. \A y \in T : x <= y
  BY <1>5
<1> QED  BY <1>4, <1>6

\* Every set of scopes that is not empty has an innermost one.
LEMMA Maximum ==
  ASSUME NEW n \in Nat, NEW S \in SUBSET (1..n), S # {}
  PROVE  \E x \in S : \A y \in S : y <= x
<1> DEFINE T == {n - x : x \in S}
<1>1. T \in SUBSET Nat /\ T # {}
  <2>1. \A x \in S : n - x \in Nat
    OBVIOUS
  <2> QED  BY <2>1
<1> HIDE DEF T
<1>2. PICK m \in T : \A y \in T : m <= y
  BY <1>1, Minimum
<1>3. PICK x \in S : m = n - x
  BY DEF T
<1>4. \A y \in S : n - y \in T
  BY DEF T
<1>5. \A y \in S : n - x <= n - y
  BY <1>2, <1>3, <1>4
<1>6. \A y \in S : y <= x
  BY <1>5
<1> QED  BY <1>3, <1>6

Largest(S) == CHOOSE i \in S : \A j \in S : j <= i
\* The innermost of a set of scopes is one of them.
LEMMA LargestIsMember ==
  ASSUME NEW n \in Nat, NEW S \in SUBSET (1..n), S # {}
  PROVE  Largest(S) \in S /\ \A j \in S : j <= Largest(S)
  BY Maximum DEF Largest

\* A search from the inside out ends at the innermost scope.
LEMMA InnermostIsLargest ==
  ASSUME NEW scopes, NEW name, NEW S
  PROVE  InnermostDef(scopes, name, S)
           = IF S = {} THEN Unknown ELSE scopes[Largest(S)].defs[name]
  BY DEF InnermostDef, Largest

\* What is found is a declaration.
LEMMA FoundIsDeclared ==
  ASSUME NEW scopes \in Seq(Scopes), NEW name, NEW S \in SUBSET Holding(scopes, name), S # {}
  PROVE  InnermostDef(scopes, name, S) \in Decls
<1>1. S \in SUBSET (1..Len(scopes))
  BY DEF Holding
<1>2. Largest(S) \in Holding(scopes, name)
  <2>1. Len(scopes) \in Nat
    OBVIOUS
  <2>2. Largest(S) \in S
    BY <1>1, <2>1, LargestIsMember, Zenon
  <2> QED  BY <2>2
<1>3. scopes[Largest(S)] \in Scopes /\ name \in DOMAIN scopes[Largest(S)].defs
  BY <1>2 DEF Holding
<1> QED  BY <1>3, InnermostIsLargest DEF Scopes

-----------------------------------------------------------------------------
(* Types. *)

\* Adding a definition changes one name of the innermost scope.
LEMMA AddedDefs ==
  ASSUME NEW scopes \in Seq(Scopes), scopes # <<>>, NEW name \in Symbols, NEW def \in Decls
  PROVE  /\ add_def(scopes, name, def) \in Seq(Scopes)
         /\ Len(add_def(scopes, name, def)) = Len(scopes)
         /\ \A i \in 1..Len(scopes) :
              /\ add_def(scopes, name, def)[i].may_shadow = scopes[i].may_shadow
              /\ i # Len(scopes) => add_def(scopes, name, def)[i] = scopes[i]
         /\ LET old == scopes[Len(scopes)].defs
                new == add_def(scopes, name, def)[Len(scopes)].defs
            IN /\ DOMAIN new = DOMAIN old \cup {name}
               /\ \A m \in DOMAIN new : new[m] = IF m = name THEN def ELSE old[m]
<1> DEFINE k == Len(scopes)
           old == scopes[k].defs
           new == [m \in DOMAIN old \cup {name} |-> IF m = name THEN def ELSE old[m]]
<1>1. k \in 1..Len(scopes) /\ scopes[k] \in Scopes
  OBVIOUS
<1>2. PICK N \in SUBSET Symbols : old \in [N -> Decls]
  BY <1>1 DEF Scopes
<1>3. new \in [N \cup {name} -> Decls] /\ N \cup {name} \in SUBSET Symbols
  BY <1>2
<1>4. scopes[k] = [may_shadow |-> scopes[k].may_shadow, defs |-> old] /\ scopes[k].may_shadow \in BOOLEAN
  BY <1>1 DEF Scopes
<1>5. [scopes[k] EXCEPT !.defs = new] = [may_shadow |-> scopes[k].may_shadow, defs |-> new]
  BY <1>4
<1>6. [scopes[k] EXCEPT !.defs = new] \in Scopes
  BY <1>3, <1>4, <1>5 DEF Scopes
<1>7. add_def(scopes, name, def) = [scopes EXCEPT ![k] = [scopes[k] EXCEPT !.defs = new]]
  BY DEF add_def
<1> HIDE DEF new
<1>8. /\ add_def(scopes, name, def) \in Seq(Scopes)
      /\ Len(add_def(scopes, name, def)) = Len(scopes)
      /\ \A i \in 1..Len(scopes) : i # k => add_def(scopes, name, def)[i] = scopes[i]
      /\ add_def(scopes, name, def)[k] = [scopes[k] EXCEPT !.defs = new]
  BY <1>1, <1>6, <1>7
<1>9. add_def(scopes, name, def)[k].defs = new /\ add_def(scopes, name, def)[k].may_shadow = scopes[k].may_shadow
  BY <1>5, <1>8
<1> QED  BY <1>8, <1>9 DEF new

EmptyScope(may_shadow) == [may_shadow |-> may_shadow, defs |-> [n \in {} |-> Unknown]]
\* A scope starts without definitions.
LEMMA EmptyScopeTyped ==
  ASSUME NEW may_shadow \in BOOLEAN
  PROVE  EmptyScope(may_shadow) \in Scopes /\ DOMAIN EmptyScope(may_shadow).defs = {}
<1>1. [n \in {} |-> Unknown] \in [{} -> Decls]
  OBVIOUS
<1>2. {} \in SUBSET Symbols
  OBVIOUS
<1> QED  BY <1>1, <1>2 DEF EmptyScope, Scopes

\* Entering adds one scope.
LEMMA Entered ==
  ASSUME NEW scopes \in Seq(Scopes), NEW may_shadow \in BOOLEAN
  PROVE  /\ enter_scope(scopes, may_shadow) = Append(scopes, EmptyScope(may_shadow))
         /\ enter_scope(scopes, may_shadow) \in Seq(Scopes)
<1>1. enter_scope(scopes, may_shadow) = Append(scopes, EmptyScope(may_shadow))
  BY DEF enter_scope, EmptyScope
<1> QED  BY <1>1, EmptyScopeTyped

\* Leaving removes the innermost scope and no other.
LEMMA Left ==
  ASSUME NEW scopes \in Seq(Scopes), scopes # <<>>
  PROVE  /\ leave_scope(scopes) \in Seq(Scopes)
         /\ Len(leave_scope(scopes)) = Len(scopes) - 1
         /\ \A i \in 1..Len(scopes) - 1 : leave_scope(scopes)[i] = scopes[i]
<1> DEFINE k == Len(scopes) - 1
<1>1. k \in Nat /\ k <= Len(scopes)
  OBVIOUS
<1>2. \A i \in 1..k : scopes[i] \in Scopes
  BY <1>1
<1>3. /\ SubSeq(scopes, 1, k) \in Seq(Scopes)
      /\ Len(SubSeq(scopes, 1, k)) = IF 1 <= k THEN k - 1 + 1 ELSE 0
      /\ \A i \in 1..k - 1 + 1 : SubSeq(scopes, 1, k)[i] = scopes[1 + i - 1]
  <2>1. 1 \in Int /\ k \in Int
    BY <1>1
  <2> HIDE DEF k
  <2> QED  BY <1>2, <2>1, SubSeqProperties
<1>4. k - 1 + 1 = k /\ \A i \in 1..k : 1 + i - 1 = i
  BY <1>1
<1>5. Len(SubSeq(scopes, 1, k)) = k /\ \A i \in 1..k : SubSeq(scopes, 1, k)[i] = scopes[i]
  <2> HIDE DEF k
  <2> QED  BY <1>1, <1>3, <1>4
<1> QED  BY <1>3, <1>5 DEF leave_scope

(* The table is a sequence of scopes, each with declarations of names.     *)
THEOREM TableTyped == TableSpec => []TableTypeOK
<1>1. TableInit => TableTypeOK
  BY DEF TableInit, TableTypeOK
<1>2. ASSUME TableTypeOK, [TableNext]_nested_scopes
      PROVE  TableTypeOK'
  <2>1. ASSUME NEW may_shadow \in BOOLEAN, EnterScope(may_shadow)
        PROVE  TableTypeOK'
    BY <1>2, <2>1, Entered DEF EnterScope, TableTypeOK
  <2>2. CASE LeaveScope
    BY <1>2, <2>2, Left DEF LeaveScope, TableTypeOK
  <2>3. ASSUME NEW name \in Symbols, NEW def \in Decls, AddDef(name, def)
        PROVE  TableTypeOK'
    BY <1>2, <2>3, AddedDefs DEF AddDef, TableTypeOK
  <2>4. CASE UNCHANGED nested_scopes
    BY <1>2, <2>4 DEF TableTypeOK
  <2> QED  BY <1>2, <2>1, <2>2, <2>3, <2>4 DEF TableNext
<1> QED  BY <1>1, <1>2, PTL DEF TableSpec

-----------------------------------------------------------------------------
(* Hiding. *)

\* What is not in conflict is declared in no scope that may not be hidden.
LEMMA NoConflict ==
  ASSUME NEW scopes \in Seq(Scopes), NEW name,
         get_conflicting_definitions(scopes, name) = Unknown,
         NEW i \in 1..Len(scopes), name \in DOMAIN scopes[i].defs
  PROVE  i # Len(scopes) /\ scopes[i].may_shadow
<1> DEFINE S == {j \in Holding(scopes, name) : j = Len(scopes) \/ ~scopes[j].may_shadow}
<1>1. S = {}
  <2> SUFFICES ASSUME S # {} PROVE FALSE
    OBVIOUS
  <2>1. InnermostDef(scopes, name, S) \in Decls
    BY FoundIsDeclared
  <2> QED  BY <2>1, SymbolAssumption DEF get_conflicting_definitions
<1>2. i \in Holding(scopes, name)
  BY DEF Holding
<1> QED  BY <1>1, <1>2

(* A declaration hides another only if that one's scope permits it.        *)
THEOREM HiddenMayBe == TableSpec => []HidesOnlyWhatMayBeHidden
<1> DEFINE Inv == HidesOnlyWhatMayBeHidden
<1>1. TableInit => Inv
  BY DEF TableInit, HidesOnlyWhatMayBeHidden
<1>2. ASSUME TableTypeOK, Inv, [TableNext]_nested_scopes
      PROVE  Inv'
  <2> USE <1>2 DEF TableTypeOK
  <2>1. ASSUME NEW may_shadow \in BOOLEAN, EnterScope(may_shadow)
        PROVE  Inv'
    <3>1. nested_scopes' = Append(nested_scopes, EmptyScope(may_shadow))
      BY <2>1, Entered DEF EnterScope
    <3>2. DOMAIN EmptyScope(may_shadow).defs = {}
      BY EmptyScopeTyped
    <3>3. /\ DOMAIN nested_scopes' = 1..Len(nested_scopes) + 1
          /\ \A i \in 1..Len(nested_scopes) : nested_scopes'[i] = nested_scopes[i]
          /\ nested_scopes'[Len(nested_scopes) + 1] = EmptyScope(may_shadow)
      BY <3>1
    <3> QED  BY <3>2, <3>3 DEF HidesOnlyWhatMayBeHidden
  <2>2. CASE LeaveScope
    <3>1. /\ DOMAIN nested_scopes' = 1..Len(nested_scopes) - 1
          /\ \A i \in 1..Len(nested_scopes) - 1 : nested_scopes'[i] = nested_scopes[i]
      BY <2>2, Left DEF LeaveScope
    <3> QED  BY <3>1 DEF HidesOnlyWhatMayBeHidden
  <2>3. ASSUME NEW name \in Symbols, NEW def \in Decls, AddDef(name, def)
        PROVE  Inv'
    <3> DEFINE k == Len(nested_scopes)
    <3>1. /\ DOMAIN nested_scopes' = 1..k
          /\ \A i \in 1..k : /\ nested_scopes'[i].may_shadow = nested_scopes[i].may_shadow
                             /\ i # k => nested_scopes'[i] = nested_scopes[i]
          /\ DOMAIN nested_scopes'[k].defs = DOMAIN nested_scopes[k].defs \cup {name}
      BY <2>3, AddedDefs DEF AddDef
    <3>2. \A i \in 1..k : name \in DOMAIN nested_scopes[i].defs => i # k /\ nested_scopes[i].may_shadow
      BY <2>3, NoConflict DEF AddDef
    <3>3. ASSUME NEW i \in 1..k, NEW j \in 1..k, i < j
          PROVE  nested_scopes'[i].may_shadow
                   \/ DOMAIN nested_scopes'[i].defs \cap DOMAIN nested_scopes'[j].defs = {}
      <4>1. nested_scopes[i].may_shadow
              \/ DOMAIN nested_scopes[i].defs \cap DOMAIN nested_scopes[j].defs = {}
        BY <3>3 DEF HidesOnlyWhatMayBeHidden
      <4>2. DOMAIN nested_scopes'[j].defs \subseteq DOMAIN nested_scopes[j].defs \cup {name}
        BY <3>1
      <4>3. nested_scopes'[i] = nested_scopes[i]
        BY <3>1, <3>3
      <4> QED  BY <3>2, <4>1, <4>2, <4>3
    <3> QED  BY <3>1, <3>3 DEF HidesOnlyWhatMayBeHidden
  <2>4. CASE UNCHANGED nested_scopes
    BY <2>4 DEF HidesOnlyWhatMayBeHidden
  <2> QED  BY <2>1, <2>2, <2>3, <2>4 DEF TableNext
<1> QED  BY <1>1, <1>2, TableTyped, PTL DEF TableSpec
-----------------------------------------------------------------------------
(* Meanings. *)

Visible(scopes, i, n) == {j \in 1..i : n \in DOMAIN scopes[j].defs}
MeaningIn(scopes, i) == [n \in Symbols |-> lookup(SubSeq(scopes, 1, i), n)]
Meanings(scopes) == [i \in 1..Len(scopes) |-> MeaningIn(scopes, i)]

\* The first i scopes, without the others.
LEMMA Outer ==
  ASSUME NEW scopes \in Seq(Scopes), NEW i \in 0..Len(scopes)
  PROVE  /\ SubSeq(scopes, 1, i) \in Seq(Scopes)
         /\ Len(SubSeq(scopes, 1, i)) = i
         /\ \A j \in 1..i : SubSeq(scopes, 1, i)[j] = scopes[j]
<1>1. \A j \in 1..i : scopes[j] \in Scopes
  OBVIOUS
<1>2. i \in Nat /\ 1 \in Int /\ i \in Int
  OBVIOUS
<1>3. /\ SubSeq(scopes, 1, i) \in Seq(Scopes)
      /\ Len(SubSeq(scopes, 1, i)) = IF 1 <= i THEN i - 1 + 1 ELSE 0
      /\ \A j \in 1..i - 1 + 1 : SubSeq(scopes, 1, i)[j] = scopes[1 + j - 1]
  BY <1>1, <1>2, SubSeqProperties
<1>4. i - 1 + 1 = i /\ \A j \in 1..i : 1 + j - 1 = j
  BY <1>2
<1> QED  BY <1>2, <1>3, <1>4

\* A name means its declaration in the scope, or what it means outside.
LEMMA MeaningIsInnermost ==
  ASSUME NEW scopes \in Seq(Scopes), NEW i \in 0..Len(scopes), NEW n
  PROVE  lookup(SubSeq(scopes, 1, i), n) = InnermostDef(scopes, n, Visible(scopes, i, n))
<1> DEFINE outer == SubSeq(scopes, 1, i)
           S == Visible(scopes, i, n)
<1>1. outer \in Seq(Scopes) /\ Len(outer) = i /\ \A j \in 1..i : outer[j] = scopes[j]
  BY Outer
<1> HIDE DEF outer
<1>2. Holding(outer, n) = S
  BY <1>1 DEF Holding, Visible
<1>3. S # {} => Largest(S) \in 1..i
  <2>1. S \in SUBSET (1..i) /\ i \in Nat
    BY DEF Visible
  <2> QED  BY <2>1, LargestIsMember
<1>4. lookup(outer, n) = IF S = {} THEN Unknown ELSE outer[Largest(S)].defs[n]
  BY <1>2, InnermostIsLargest DEF lookup
<1>5. InnermostDef(scopes, n, S) = IF S = {} THEN Unknown ELSE scopes[Largest(S)].defs[n]
  BY InnermostIsLargest
<1>6. lookup(outer, n) = InnermostDef(scopes, n, S)
  BY <1>1, <1>3, <1>4, <1>5
<1> QED  BY <1>6 DEF outer

\* The meaning in a scope depends on it and those around it.
LEMMA MeaningDependsOnOuter ==
  ASSUME NEW s \in Seq(Scopes), NEW t \in Seq(Scopes), NEW i \in 0..Len(s), i <= Len(t),
         \A j \in 1..i : s[j] = t[j]
  PROVE  MeaningIn(s, i) = MeaningIn(t, i)
<1>1. i \in 0..Len(t)
  OBVIOUS
<1>2. ASSUME NEW n
      PROVE  lookup(SubSeq(s, 1, i), n) = lookup(SubSeq(t, 1, i), n)
  <2> DEFINE S == Visible(s, i, n)
  <2>1. S = Visible(t, i, n) /\ S \in SUBSET (1..i) /\ i \in Nat
    BY DEF Visible
  <2> HIDE DEF S
  <2>2. S # {} => Largest(S) \in 1..i
    BY <2>1, LargestIsMember
  <2>3. InnermostDef(s, n, S) = InnermostDef(t, n, S)
    BY <2>2, InnermostIsLargest
  <2>4. lookup(SubSeq(s, 1, i), n) = InnermostDef(s, n, S)
    BY MeaningIsInnermost DEF S
  <2>5. lookup(SubSeq(t, 1, i), n) = InnermostDef(t, n, S)
    BY <1>1, <2>1, MeaningIsInnermost
  <2> QED  BY <2>3, <2>4, <2>5
<1> QED  BY <1>2 DEF MeaningIn

\* In a scope just entered names mean what they mean around it.
LEMMA EnterKeepsMeanings ==
  ASSUME NEW s \in Seq(Scopes), NEW may_shadow \in BOOLEAN
  PROVE  Meanings(enter_scope(s, may_shadow))
           = Append(Meanings(s), IF Meanings(s) = <<>> THEN [n \in Symbols |-> Unknown]
                                 ELSE Meanings(s)[Len(Meanings(s))])
<1> DEFINE t == enter_scope(s, may_shadow)
           k == Len(s)
<1>1. /\ t \in Seq(Scopes) /\ Len(t) = k + 1 /\ k \in Nat
      /\ \A i \in 1..k : t[i] = s[i]
      /\ t[k + 1] = EmptyScope(may_shadow)
  <2> DEFINE e == EmptyScope(may_shadow)
  <2>1. e \in Scopes /\ t = Append(s, e)
    BY Entered, EmptyScopeTyped
  <2> HIDE DEF e, t
  <2>2. t \in Seq(Scopes) /\ Len(t) = k + 1 /\ (\A i \in 1..k : t[i] = s[i]) /\ t[k + 1] = e
    BY <2>1
  <2> QED  BY <2>2 DEF e
<1> HIDE DEF t
<1>2. \A i \in 1..k : MeaningIn(t, i) = MeaningIn(s, i)
  BY <1>1, MeaningDependsOnOuter
<1>3. ASSUME NEW n
      PROVE  lookup(SubSeq(t, 1, k + 1), n) = lookup(SubSeq(s, 1, k), n)
  <2> DEFINE S == Visible(s, k, n)
  <2>1. n \notin DOMAIN t[k + 1].defs
    BY <1>1, EmptyScopeTyped
  <2>2. Visible(t, k + 1, n) = S /\ S \in SUBSET (1..k)
    BY <1>1, <2>1 DEF Visible
  <2> HIDE DEF S
  <2>3. S # {} => Largest(S) \in 1..k
    BY <1>1, <2>2, LargestIsMember
  <2>4. InnermostDef(t, n, S) = InnermostDef(s, n, S)
    BY <1>1, <2>3, InnermostIsLargest
  <2>5. lookup(SubSeq(t, 1, k + 1), n) = InnermostDef(t, n, S)
    <3>1. k + 1 \in 0..Len(t)
      BY <1>1
    <3> QED  BY <1>1, <2>2, <3>1, MeaningIsInnermost
  <2>6. lookup(SubSeq(s, 1, k), n) = InnermostDef(s, n, S)
    <3>1. k \in 0..Len(s)
      BY <1>1
    <3> QED  BY <3>1, MeaningIsInnermost DEF S
  <2> QED  BY <2>4, <2>5, <2>6
<1>4. MeaningIn(t, k + 1) = MeaningIn(s, k)
  BY <1>3 DEF MeaningIn
<1>5. k = 0 => MeaningIn(s, k) = [n \in Symbols |-> Unknown]
  <2>1. ASSUME k = 0, NEW n PROVE lookup(SubSeq(s, 1, k), n) = Unknown
    <3>1. Visible(s, 0, n) = {} /\ 0 \in 0..Len(s)
      BY DEF Visible
    <3> QED  BY <2>1, <3>1, MeaningIsInnermost, InnermostIsLargest
  <2> QED  BY <2>1 DEF MeaningIn
<1>6. /\ Meanings(s) = [i \in 1..k |-> MeaningIn(s, i)]
      /\ Meanings(t) = [i \in 1..k + 1 |-> MeaningIn(t, i)]
  BY <1>1 DEF Meanings
<1>7. Len(Meanings(s)) = k /\ (Meanings(s) = <<>> <=> k = 0)
  BY <1>1, <1>6
<1>8. Meanings(t) = Append(Meanings(s), MeaningIn(s, k))
  BY <1>1, <1>2, <1>4, <1>6, <1>7
<1>9. k # 0 => Meanings(s)[k] = MeaningIn(s, k)
  BY <1>1, <1>6
<1> QED  BY <1>5, <1>7, <1>8, <1>9 DEF t

\* After leaving, names mean what they meant before entering.
LEMMA LeaveRestoresMeanings ==
  ASSUME NEW s \in Seq(Scopes), s # <<>>
  PROVE  Meanings(leave_scope(s)) = SubSeq(Meanings(s), 1, Len(Meanings(s)) - 1)
<1> DEFINE t == leave_scope(s)
           k == Len(s) - 1
<1>1. /\ t \in Seq(Scopes) /\ Len(t) = k /\ k \in Nat /\ Len(s) = k + 1
      /\ \A i \in 1..k : t[i] = s[i]
  BY Left
<1> HIDE DEF t
<1>2. \A i \in 1..k : MeaningIn(t, i) = MeaningIn(s, i)
  BY <1>1, MeaningDependsOnOuter
<1>3. /\ Meanings(s) = [i \in 1..k + 1 |-> MeaningIn(s, i)]
      /\ Meanings(t) = [i \in 1..k |-> MeaningIn(t, i)]
  BY <1>1 DEF Meanings
<1>4. Len(Meanings(s)) = k + 1
  BY <1>1, <1>3
<1>5. SubSeq(Meanings(s), 1, k) = [i \in 1..k |-> Meanings(s)[i]]
  BY <1>1, <1>3
<1>6. Meanings(t) = SubSeq(Meanings(s), 1, k)
  BY <1>1, <1>2, <1>3, <1>5
<1>7. k + 1 - 1 = k
  BY <1>1
<1> QED  BY <1>4, <1>6, <1>7 DEF t

\* A definition changes what its name means, in the innermost scope only.
LEMMA AddChangesOneMeaning ==
  ASSUME NEW s \in Seq(Scopes), s # <<>>, NEW name \in Symbols, NEW def \in Decls
  PROVE  Meanings(add_def(s, name, def))
           = [Meanings(s) EXCEPT ![Len(Meanings(s))] = [@ EXCEPT ![name] = def]]
<1> DEFINE t == add_def(s, name, def)
           k == Len(s)
<1>1. k \in Nat /\ k \in 1..k
  OBVIOUS
<1>2. /\ t \in Seq(Scopes) /\ Len(t) = k
      /\ \A i \in 1..k : i # k => t[i] = s[i]
      /\ DOMAIN t[k].defs = DOMAIN s[k].defs \cup {name}
      /\ \A m \in DOMAIN t[k].defs : t[k].defs[m] = IF m = name THEN def ELSE s[k].defs[m]
  BY AddedDefs
<1> HIDE DEF t
<1>3. ASSUME NEW i \in 1..k, i # k
      PROVE  MeaningIn(t, i) = MeaningIn(s, i)
  <2>1. i \in 0..Len(t) /\ i <= Len(s) /\ \A j \in 1..i : t[j] = s[j]
    BY <1>1, <1>2, <1>3
  <2> QED  BY <1>2, <2>1, MeaningDependsOnOuter
<1>4. ASSUME NEW n
      PROVE  lookup(SubSeq(t, 1, k), n) = IF n = name THEN def ELSE lookup(SubSeq(s, 1, k), n)
  <2> DEFINE S == Visible(s, k, n)
             T == Visible(t, k, n)
  <2>1. S \in SUBSET (1..k) /\ T \in SUBSET (1..k)
    BY DEF Visible
  <2>2. lookup(SubSeq(t, 1, k), n) = IF T = {} THEN Unknown ELSE t[Largest(T)].defs[n]
    <3>1. k \in 0..Len(t)
      BY <1>1, <1>2
    <3> QED  BY <1>2, <3>1, MeaningIsInnermost, InnermostIsLargest
  <2>3. lookup(SubSeq(s, 1, k), n) = IF S = {} THEN Unknown ELSE s[Largest(S)].defs[n]
    <3>1. k \in 0..Len(s)
      BY <1>1
    <3> QED  BY <3>1, MeaningIsInnermost, InnermostIsLargest
  <2>4. CASE n = name
    <3>1. k \in T
      BY <1>1, <1>2, <2>4 DEF Visible
    <3>2. Largest(T) \in T /\ k <= Largest(T)
      BY <1>1, <2>1, <3>1, LargestIsMember
    <3>3. Largest(T) = k
      BY <1>1, <2>1, <3>2
    <3> QED  BY <1>2, <2>2, <2>4, <3>1, <3>3 DEF Visible
  <2>5. CASE n # name
    <3>1. T = S
      BY <1>2, <2>5 DEF Visible
    <3>2. S # {} => Largest(S) \in S
      BY <1>1, <2>1, LargestIsMember
    <3>3. \A j \in S : j \in 1..k /\ n \in DOMAIN s[j].defs
      BY DEF Visible
    <3> HIDE DEF S, T
    <3>4. \A j \in S : t[j].defs[n] = s[j].defs[n]
      BY <1>2, <2>5, <3>3
    <3> QED  BY <2>2, <2>3, <2>5, <3>1, <3>2, <3>4
  <2> QED  BY <2>4, <2>5
<1>5. MeaningIn(t, k) = [MeaningIn(s, k) EXCEPT ![name] = def]
  BY <1>4 DEF MeaningIn
<1>6. /\ Meanings(s) = [i \in 1..k |-> MeaningIn(s, i)]
      /\ Meanings(t) = [i \in 1..k |-> MeaningIn(t, i)]
  BY <1>2 DEF Meanings
<1>7. Len(Meanings(s)) = k
  BY <1>1, <1>6
<1>8. Meanings(t) = [Meanings(s) EXCEPT ![k] = [MeaningIn(s, k) EXCEPT ![name] = def]]
  BY <1>1, <1>3, <1>5, <1>6
<1>9. Meanings(s)[k] = MeaningIn(s, k)
  BY <1>1, <1>6
<1> QED  BY <1>7, <1>8, <1>9 DEF t

(* The table means what copied scopes would mean: entering a scope,        *)
(* leaving it and adding a definition are those of Scoping.                *)
THEOREM Refinement == TableSpec => ImplementsScoping
<1> DEFINE meaning == [i \in 1..Len(nested_scopes) |-> Meaning(i)]
<1>1. meaning = Meanings(nested_scopes)
  BY DEF Meaning, MeaningIn, Meanings
<1>2. meaning' = Meanings(nested_scopes)'
  BY DEF Meaning, MeaningIn, Meanings
<1>3. TableInit => Abstract!Init
  BY DEF TableInit, Abstract!Init
<1>4. ASSUME TableTypeOK, [TableNext]_nested_scopes
      PROVE  [Abstract!Next]_meaning
  <2> USE <1>4 DEF TableTypeOK
  <2> HIDE DEF meaning
  <2>1. ASSUME NEW may_shadow \in BOOLEAN, EnterScope(may_shadow)
        PROVE  Abstract!Enter
    <3>1. Meanings(nested_scopes)' = Meanings(enter_scope(nested_scopes, may_shadow))
      BY <2>1 DEF EnterScope, Meanings, MeaningIn
    <3> QED  BY <1>1, <1>2, <3>1, EnterKeepsMeanings DEF Abstract!Enter, meaning
  <2>2. ASSUME LeaveScope
        PROVE  Abstract!Leave
    <3>1. Meanings(nested_scopes)' = Meanings(leave_scope(nested_scopes))
      BY <2>2 DEF LeaveScope, Meanings, MeaningIn
    <3>2. nested_scopes # <<>> /\ meaning # <<>>
      BY <1>1, <2>2 DEF LeaveScope, Meanings
    <3>3. meaning' = SubSeq(meaning, 1, Len(meaning) - 1)
      BY <1>1, <1>2, <3>1, <3>2, LeaveRestoresMeanings
    <3> QED  BY <3>2, <3>3 DEF Abstract!Leave, meaning
  <2>3. ASSUME NEW name \in Symbols, NEW def \in Decls, AddDef(name, def)
        PROVE  Abstract!Define(name, def)
    <3>1. Meanings(nested_scopes)' = Meanings(add_def(nested_scopes, name, def))
      BY <2>3 DEF AddDef, Meanings, MeaningIn
    <3>2. nested_scopes # <<>> /\ meaning # <<>>
      BY <1>1, <2>3 DEF AddDef, Meanings
    <3>3. meaning' = [meaning EXCEPT ![Len(meaning)] = [@ EXCEPT ![name] = def]]
      BY <1>1, <1>2, <3>1, <3>2, AddChangesOneMeaning
    <3> QED  BY <3>2, <3>3 DEF Abstract!Define, meaning
  <2>4. CASE UNCHANGED nested_scopes
    BY <1>1, <1>2, <2>4 DEF Meanings, MeaningIn
  <2> QED  BY <2>1, <2>2, <2>3, <2>4 DEF TableNext, Abstract!Next
<1> QED  BY <1>3, <1>4, TableTyped, PTL DEF TableSpec, ImplementsScoping, Abstract!Spec

=============================================================================
