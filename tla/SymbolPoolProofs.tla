-------------------------- MODULE SymbolPoolProofs --------------------------
(***************************************************************************)
(* For any texts, any layout of an entry and any number of pools and       *)
(* symbols: what a valid symbol reads is the text it was made for, and     *)
(* symbols that may be compared are equal exactly if their texts are.      *)
(***************************************************************************)
EXTENDS SymbolPool, FiniteSetTheorems, TLAPS

Place(e) == BytesOf(e, symbol_entry_allocation_size(SizeOf(e)))

EntryKnown(e) ==
  /\ e \in Nat /\ e # EmptyEntry
  /\ SizeOf(e) \in Nat \ {0}
  /\ Place(e) \subseteq DOMAIN bytes
  /\ At(e, SizeOf(e)) = NUL

\* Every pool owns memory of its own, with a text of its own in each entry.
PoolsKnown ==
  /\ DOMAIN pools \subseteq Slots
  /\ \A p \in DOMAIN pools :
       /\ pools[p] = [entries |-> pools[p].entries, anchor |-> pools[p].anchor]
       /\ pools[p].anchor \in Anchors \cup {NoAnchor}
       /\ \A e \in pools[p].entries : EntryKnown(e)
       /\ \A e, f \in pools[p].entries : Content(e) = Content(f) => e = f
  /\ \A p, q \in DOMAIN pools :
       /\ pools[p].anchor = pools[q].anchor /\ pools[p].anchor # NoAnchor => p = q
       /\ \A e \in pools[p].entries, f \in pools[q].entries :
            (p = q /\ e = f) \/ Place(e) \cap Place(f) = {}

SymbolTyped(s) ==
  /\ s.entry \in Nat
  /\ s.anchor \in Anchors \cup {NoAnchor, EmptyAnchor}
  /\ s.entry = EmptyEntry <=> s.text = <<>>
  /\ s.anchor = EmptyAnchor <=> s.text = <<>>

\* The pool with a symbol's anchor, wherever it is now, owns the entry.
SymbolKnown(s) ==
  \A p \in DOMAIN pools : pools[p].anchor = s.anchor /\ s.anchor # NoAnchor =>
    s.entry \in pools[p].entries /\ Content(s.entry) = s.text

SymbolsKnown ==
  /\ IsFiniteSet(symbols) /\ Cardinality(symbols) <= MaxSymbols
  /\ \A s \in symbols : SymbolTyped(s) /\ SymbolKnown(s)

Kept == PoolsKnown /\ SymbolsKnown

-----------------------------------------------------------------------------
(* Memory. *)

\* The size asked for an entry has room for its header, its text and a NUL.
LEMMA EntryFits ==
  ASSUME NEW e \in Nat, NEW length \in Nat
  PROVE  /\ symbol_entry_allocation_size(length) \in Nat \ {0}
         /\ e * Cell \in BytesOf(e, symbol_entry_allocation_size(length))
         /\ \A i \in 0..length :
              e * Cell + Offset + i \in BytesOf(e, symbol_entry_allocation_size(length))
<1> DEFINE a == length + Cell - 1
           k == a \div Cell
           begin == e * Cell
           end == (e + (1 + k)) * Cell
<1>1. Cell \in Nat /\ Cell > 0 /\ Offset \in Nat /\ Offset < Cell /\ a \in Nat
  BY LayoutAssumption
<1>2. k \in Nat /\ a < k * Cell + Cell
  <2> HIDE DEF a
  <2> QED  BY <1>1
<1> HIDE DEF k
<1>3. length <= k * Cell /\ k * Cell \in Nat
  BY <1>1, <1>2
<1>4. end = begin + Cell + k * Cell /\ begin \in Nat
  BY <1>1, <1>2
<1>5. symbol_entry_allocation_size(length) = 1 + k
  BY DEF symbol_entry_allocation_size, k
<1>6. BytesOf(e, symbol_entry_allocation_size(length)) = begin..end - 1
  BY <1>5 DEF BytesOf
<1> HIDE DEF a, begin, end
<1>7. /\ begin \in begin..end - 1
      /\ \A i \in 0..length : begin + Offset + i \in begin..end - 1
  <2> DEFINE y == k * Cell
  <2>1. y \in Nat /\ length <= y /\ end = begin + Cell + y
    BY <1>3, <1>4
  <2> HIDE DEF y
  <2> QED  BY <1>1, <1>4, <2>1
<1>8. symbol_entry_allocation_size(length) \in Nat \ {0}
  BY <1>2, <1>5
<1> QED  BY <1>6, <1>7, <1>8 DEF begin

\* No pool has the anchor that stands for none or for the empty symbol.
LEMMA AnchorsArePositive ==
  /\ NoAnchor \notin Anchors /\ EmptyAnchor \notin Anchors
  /\ NoAnchor # EmptyAnchor
  BY AnchorsAssumption DEF NoAnchor, EmptyAnchor

\* An entry reads the same as long as its own memory is what it was.
LEMMA UntouchedEntry ==
  ASSUME NEW e, EntryKnown(e),
         Place(e) \subseteq DOMAIN bytes',
         \A b \in Place(e) : bytes'[b] = bytes[b]
  PROVE  EntryKnown(e)' /\ Place(e)' = Place(e) /\ Content(e)' = Content(e)
<1>1. e \in Nat /\ SizeOf(e) \in Nat /\ e # EmptyEntry
  BY DEF EntryKnown
<1>2. \A b \in Place(e) : Byte(b)' = Byte(b)
  BY DEF Byte, EntryKnown
<1>3. e * Cell \in Place(e)
  BY <1>1, EntryFits DEF Place
<1>4. SizeOf(e)' = SizeOf(e)
  BY <1>1, <1>2, <1>3 DEF SizeOf
<1>5. \A i \in 0..SizeOf(e) : At(e, i)' = At(e, i)
  BY <1>1, <1>2, EntryFits DEF At, Place
<1>6. Place(e)' = Place(e)
  BY <1>4 DEF Place, BytesOf, symbol_entry_allocation_size
<1>7. Content(e)' = Content(e)
  <2>1. \A i \in 1..SizeOf(e) : At(e, i - 1)' = At(e, i - 1)
    BY <1>1, <1>5
  <2>2. Content(e)' = [i \in 1..SizeOf(e) |-> At(e, i - 1)']
    BY <1>4 DEF Content
  <2> QED  BY <2>1, <2>2 DEF Content
<1>8. At(e, SizeOf(e))' = NUL
  BY <1>1, <1>4, <1>5 DEF EntryKnown, At, Byte
<1> QED  BY <1>1, <1>4, <1>6, <1>7, <1>8 DEF EntryKnown

\* The entry made for a text holds this text.
LEMMA WrittenEntry ==
  ASSUME NEW e \in Nat \ {0}, NEW text \in Seq(Nat), text # <<>>,
         new_symbol_entry(e, symbol_entry_allocation_size(Len(text)), text)
  PROVE  /\ EntryKnown(e)'
         /\ Place(e)' = BytesOf(e, symbol_entry_allocation_size(Len(text)))
         /\ Content(e)' = text
<1> DEFINE place == BytesOf(e, symbol_entry_allocation_size(Len(text)))
           first == e * Cell + Offset
           written == Written(e, text)
<1>1. /\ Len(text) \in Nat \ {0} /\ Cell \in Nat /\ Offset \in Nat \ {0} /\ e * Cell \in Nat
      /\ first \in Nat /\ e # EmptyEntry
  BY LayoutAssumption DEF EmptyEntry
<1>2. DOMAIN written = {e * Cell} \cup first..first + Len(text)
  BY DEF Written
<1>3. written[e * Cell] = Len(text)
  BY DEF Written
<1>4. ASSUME NEW i \in 0..Len(text)
      PROVE  /\ first + i \in DOMAIN written
             /\ written[first + i] = Append(text, NUL)[i + 1]
  <2> DEFINE b == first + i
  <2>1. b \in first..first + Len(text) /\ b # e * Cell /\ b - first + 1 = i + 1
    BY <1>1
  <2> HIDE DEF b
  <2>2. written[b] = Append(text, NUL)[b - (e * Cell + Offset) + 1]
    BY <1>2, <2>1 DEF Written
  <2> QED  BY <1>2, <2>1, <2>2 DEF b
<1> HIDE DEF written, first
<1>5. /\ DOMAIN bytes' = DOMAIN bytes \cup place
      /\ \A b \in DOMAIN written : b \in DOMAIN bytes' => bytes'[b] = written[b]
  BY DEF new_symbol_entry, written
<1>6. e * Cell \in place /\ \A i \in 0..Len(text) : first + i \in place
  <2>1. e \in Nat /\ Len(text) \in Nat
    BY <1>1
  <2> HIDE DEF place
  <2> QED  BY <2>1, EntryFits DEF first, place
<1>7. SizeOf(e)' = Len(text)
  BY <1>1, <1>2, <1>3, <1>5, <1>6 DEF SizeOf, Byte
<1>8. \A i \in 0..Len(text) : At(e, i)' = Append(text, NUL)[i + 1]
  <2> TAKE i \in 0..Len(text)
  <2>1. bytes'[first + i] = Append(text, NUL)[i + 1] /\ first + i \in DOMAIN bytes'
    BY <1>4, <1>5, <1>6
  <2> QED  BY <2>1 DEF At, Byte, first
<1>9. At(e, SizeOf(e))' = NUL
  <2>1. Append(text, NUL)[Len(text) + 1] = NUL
    BY <1>1
  <2>2. At(e, Len(text))' = NUL
    BY <1>1, <1>8, <2>1
  <2> QED  BY <1>7, <2>2 DEF At, Byte
<1>10. Content(e)' = text
  <2>1. Content(e)' = [i \in 1..Len(text) |-> At(e, i - 1)']
    BY <1>7 DEF Content
  <2>2. \A i \in 1..Len(text) : At(e, i - 1)' = text[i]
    <3> TAKE i \in 1..Len(text)
    <3>1. i - 1 \in 0..Len(text) /\ i - 1 + 1 = i /\ Append(text, NUL)[i] = text[i]
      BY <1>1
    <3> QED  BY <1>8, <3>1
  <2>3. text = [i \in 1..Len(text) |-> text[i]]
    OBVIOUS
  <2> QED  BY <2>1, <2>2, <2>3
<1>11. Place(e)' = place
  BY <1>7 DEF Place, BytesOf, symbol_entry_allocation_size
<1>12. (Place(e) \subseteq DOMAIN bytes)'
  BY <1>5, <1>11
<1>13. (SizeOf(e) \in Nat \ {0})'
  BY <1>1, <1>7
<1> QED  BY <1>1, <1>9, <1>10, <1>11, <1>12, <1>13 DEF EntryKnown

-----------------------------------------------------------------------------
(* Anchors. *)

\* The image of a finite set is no larger than the set.
LEMMA Image ==
  ASSUME NEW S, IsFiniteSet(S), NEW f, DOMAIN f = S
  PROVE  IsFiniteSet({f[x] : x \in S}) /\ Cardinality({f[x] : x \in S}) <= Cardinality(S)
<1> DEFINE T == {f[x] : x \in S}
           g == [x \in S |-> f[x]]
<1>1. g \in Surjection(S, T)
  BY DEF Surjection
<1> HIDE DEF g, T
<1>2. IsFiniteSet(T) /\ Cardinality(T) <= Cardinality(S)
  BY <1>1, FS_Surjection
<1> QED  BY <1>2 DEF T

\* There are more anchors than pools and symbols that could have one.
LEMMA FreshAnchor ==
  ASSUME PoolsKnown, SymbolsKnown
  PROVE  /\ make_symbol_anchor \in Anchors
         /\ \A p \in DOMAIN pools : pools[p].anchor # make_symbol_anchor
         /\ \A s \in symbols : s.anchor # make_symbol_anchor
<1> DEFINE ofPool == [p \in DOMAIN pools |-> pools[p].anchor]
           ofSymbol == [s \in symbols |-> s.anchor]
           P == {ofPool[p] : p \in DOMAIN pools}
           S == {ofSymbol[s] : s \in symbols}
<1>1. IsFiniteSet(DOMAIN pools) /\ Cardinality(DOMAIN pools) <= Cardinality(Slots)
  BY FS_Subset, AnchorsAssumption DEF PoolsKnown
<1>2. IsFiniteSet(P) /\ Cardinality(P) <= Cardinality(DOMAIN pools)
  <2> HIDE DEF ofPool
  <2> QED  BY <1>1, Image DEF ofPool
<1>3. IsFiniteSet(S) /\ Cardinality(S) <= MaxSymbols
  <2>1. IsFiniteSet(symbols) /\ Cardinality(symbols) <= MaxSymbols
    BY DEF SymbolsKnown
  <2>2. DOMAIN ofSymbol = symbols
    OBVIOUS
  <2> HIDE DEF ofSymbol
  <2>3. IsFiniteSet(S) /\ Cardinality(S) <= Cardinality(symbols)
    BY <2>1, <2>2, Image
  <2>4. Cardinality(S) \in Nat /\ Cardinality(symbols) \in Nat
    BY <2>1, <2>3, FS_CardinalityType
  <2> QED  BY <2>1, <2>3, <2>4, AnchorsAssumption
<1> HIDE DEF P, S
<1>4. Anchors \ (P \cup S) # {}
  <2> SUFFICES ASSUME Anchors \subseteq P \cup S PROVE FALSE
    OBVIOUS
  <2>1. IsFiniteSet(P \cup S)
        /\ Cardinality(P \cup S) = Cardinality(P) + Cardinality(S) - Cardinality(P \cap S)
    BY <1>2, <1>3, FS_Union
  <2>2. Cardinality(Anchors) <= Cardinality(P \cup S)
    BY <2>1, FS_Subset
  <2>3. IsFiniteSet(P \cap S)
    BY <1>2, FS_Intersection
  <2>4. \A X \in {P, S, P \cap S, P \cup S, Anchors, Slots, DOMAIN pools} : Cardinality(X) \in Nat
    BY <1>1, <1>2, <1>3, <2>1, <2>3, FS_CardinalityType, AnchorsAssumption
  <2> QED  BY <1>1, <1>2, <1>3, <2>1, <2>2, <2>4, AnchorsAssumption
<1>5. \E a \in Anchors : (\A p \in DOMAIN pools : pools[p].anchor # a) /\ (\A s \in symbols : s.anchor # a)
  BY <1>4 DEF P, S
<1> QED  BY <1>5 DEF make_symbol_anchor

-----------------------------------------------------------------------------
(* What moves pools around, makes one or destroys one. *)

\* The pools in old come from one place each, with the memory of their
\* entries as it was; any other, and there is one at most, is new and empty.
Arranged(old, from, a) ==
  /\ symbols' = symbols
  /\ old \subseteq DOMAIN pools' /\ DOMAIN pools' \subseteq Slots
  /\ from \in [old -> DOMAIN pools]
  /\ \A p \in old : pools'[p] = pools[from[p]]
  /\ \A p, q \in old : from[p] = from[q] => p = q
  /\ \A p \in old : \A e \in pools[from[p]].entries :
       Place(e) \subseteq DOMAIN bytes' /\ \A b \in Place(e) : bytes'[b] = bytes[b]
  /\ \A p, q \in DOMAIN pools' \ old : p = q
  /\ \A p \in DOMAIN pools' \ old : pools'[p] = [entries |-> {}, anchor |-> a]
  /\ a = NoAnchor \/ (/\ a \in Anchors
                      /\ \A p \in DOMAIN pools : pools[p].anchor # a
                      /\ \A s \in symbols : s.anchor # a)

\* Pools that exchange entries and anchors are in order if no entry has two owners.
LEMMA Rearranged ==
  ASSUME Kept, NEW old, NEW from, NEW a, Arranged(old, from, a)
  PROVE  Kept'
<1> USE DEF Arranged
<1>1. PoolsKnown /\ SymbolsKnown
  BY DEF Kept
<1>2. ASSUME NEW p \in old, NEW e \in pools'[p].entries
      PROVE  /\ e \in pools[from[p]].entries
             /\ EntryKnown(e)' /\ Place(e)' = Place(e) /\ Content(e)' = Content(e)
  <2>1. from[p] \in DOMAIN pools /\ pools'[p] = pools[from[p]]
    OBVIOUS
  <2>2. e \in pools[from[p]].entries /\ EntryKnown(e)
    BY <1>1, <2>1 DEF PoolsKnown
  <2> QED  BY <2>1, <2>2, UntouchedEntry
<1>3. ASSUME NEW p \in DOMAIN pools', p \notin old
      PROVE  pools'[p].entries = {} /\ pools'[p].anchor = a
             /\ pools'[p] = [entries |-> {}, anchor |-> a]
  BY <1>3
<1>4. ASSUME NEW p \in DOMAIN pools'
      PROVE  /\ pools'[p] = [entries |-> pools'[p].entries, anchor |-> pools'[p].anchor]
             /\ pools'[p].anchor \in Anchors \cup {NoAnchor}
             /\ \A e \in pools'[p].entries : EntryKnown(e)'
             /\ \A e, f \in pools'[p].entries : Content(e)' = Content(f)' => e = f
  <2>1. CASE p \in old
    BY <1>1, <1>2, <2>1 DEF PoolsKnown
  <2>2. CASE p \notin old
    BY <1>3, <2>2
  <2> QED  BY <2>1, <2>2
<1>5. ASSUME NEW p \in DOMAIN pools', NEW q \in DOMAIN pools'
      PROVE  /\ pools'[p].anchor = pools'[q].anchor /\ pools'[p].anchor # NoAnchor => p = q
             /\ \A e \in pools'[p].entries, f \in pools'[q].entries :
                  (p = q /\ e = f) \/ Place(e)' \cap Place(f)' = {}
  <2>1. CASE p \in old /\ q \in old
    <3>1. /\ pools'[p].anchor = pools'[q].anchor /\ pools'[p].anchor # NoAnchor => from[p] = from[q]
          /\ \A e \in pools'[p].entries, f \in pools'[q].entries :
               (from[p] = from[q] /\ e = f) \/ Place(e) \cap Place(f) = {}
      BY <1>1, <2>1 DEF PoolsKnown
    <3> QED  BY <1>2, <2>1, <3>1
  <2>2. CASE p \notin old \/ q \notin old
    BY <1>3, <2>2
  <2> QED  BY <2>1, <2>2
<1>6. PoolsKnown'
  BY <1>4, <1>5 DEF PoolsKnown
<1>7. ASSUME NEW s \in symbols
      PROVE  SymbolTyped(s)' /\ SymbolKnown(s)'
  <2>1. SymbolTyped(s) /\ SymbolKnown(s)
    BY <1>1 DEF SymbolsKnown
  <2>2. ASSUME NEW p \in DOMAIN pools', pools'[p].anchor = s.anchor, s.anchor # NoAnchor
        PROVE  s.entry \in pools'[p].entries /\ Content(s.entry)' = s.text
    <3>1. p \in old
      BY <1>3, <2>2
    <3>2. pools[from[p]].anchor = s.anchor
      BY <2>2, <3>1
    <3>3. s.entry \in pools[from[p]].entries /\ Content(s.entry) = s.text
      BY <2>1, <2>2, <3>1, <3>2 DEF SymbolKnown
    <3> QED  BY <1>2, <3>1, <3>3
  <2> QED  BY <2>1, <2>2 DEF SymbolKnown, SymbolTyped
<1>8. SymbolsKnown'
  BY <1>1, <1>7 DEF SymbolsKnown
<1> QED  BY <1>6, <1>8 DEF Kept

\* One lemma for each operation: a new pool has a new anchor.
LEMMA ConstructKeeps ==
  ASSUME Kept, NEW p \in Slots, Construct(p)
  PROVE  Kept'
<1> DEFINE a == make_symbol_anchor
           from == [q \in DOMAIN pools |-> q]
<1>1. /\ bytes' = bytes /\ symbols' = symbols
      /\ p \notin DOMAIN pools /\ DOMAIN pools' = DOMAIN pools \cup {p}
      /\ pools'[p] = [entries |-> {}, anchor |-> a]
      /\ \A q \in DOMAIN pools : pools'[q] = pools[q]
  BY DEF Construct, WithPool
<1>2. /\ a \in Anchors
      /\ \A q \in DOMAIN pools : pools[q].anchor # a
      /\ \A s \in symbols : s.anchor # a
  BY FreshAnchor DEF Kept
<1>3. \A q \in DOMAIN pools : \A e \in pools[q].entries : Place(e) \subseteq DOMAIN bytes
  BY DEF Kept, PoolsKnown, EntryKnown
<1>4. DOMAIN pools \subseteq Slots
  BY DEF Kept, PoolsKnown
<1>5. from \in [DOMAIN pools -> DOMAIN pools]
  OBVIOUS
<1> HIDE DEF a
<1>9. Arranged(DOMAIN pools, from, a)
  BY <1>1, <1>2, <1>3, <1>4, <1>5 DEF Arranged
<1> QED  BY <1>9, Rearranged

\* The memory that is freed is that of the entries and nothing else.
LEMMA FreedOnlyThose ==
  ASSUME PoolsKnown, NEW p \in DOMAIN pools, Freed(pools[p].entries),
         NEW q \in DOMAIN pools, q # p, NEW e \in pools[q].entries
  PROVE  /\ Place(e) \subseteq DOMAIN bytes'
         /\ \A b \in Place(e) : bytes'[b] = bytes[b]
<1>1. \A f \in pools[p].entries : Place(e) \cap Place(f) = {}
  BY DEF PoolsKnown
<1>2. Place(e) \subseteq DOMAIN bytes
  BY DEF PoolsKnown, EntryKnown
<1>3. bytes' = [b \in DOMAIN bytes \ UNION {Place(f) : f \in pools[p].entries} |-> bytes[b]]
  BY DEF Freed, Place
<1>4. Place(e) \cap UNION {Place(f) : f \in pools[p].entries} = {}
  BY <1>1
<1> QED  BY <1>2, <1>3, <1>4

LEMMA DestroyKeeps ==
  ASSUME Kept, NEW p \in Slots, Destroy(p)
  PROVE  Kept'
<1> DEFINE old == DOMAIN pools \ {p}
           from == [q \in old |-> q]
<1>1. /\ symbols' = symbols /\ p \in DOMAIN pools
      /\ DOMAIN pools' = old
      /\ \A q \in old : pools'[q] = pools[q]
      /\ Freed(pools[p].entries)
  BY DEF Destroy
<1>2. \A q \in old : \A e \in pools[q].entries :
        Place(e) \subseteq DOMAIN bytes' /\ \A b \in Place(e) : bytes'[b] = bytes[b]
  BY <1>1, FreedOnlyThose DEF Kept
<1>3. old \subseteq Slots
  BY DEF Kept, PoolsKnown
<1>4. from \in [old -> DOMAIN pools]
  OBVIOUS
<1>9. Arranged(old, from, NoAnchor)
  BY <1>1, <1>2, <1>3, <1>4 DEF Arranged
<1> QED  BY <1>9, Rearranged

LEMMA swapKeeps ==
  ASSUME Kept, NEW p \in Slots, NEW q \in Slots, swap(p, q)
  PROVE  Kept'
<1> DEFINE from == [r \in DOMAIN pools |-> IF r = p THEN q ELSE IF r = q THEN p ELSE r]
<1>1. /\ bytes' = bytes /\ symbols' = symbols
      /\ p \in DOMAIN pools /\ q \in DOMAIN pools
      /\ DOMAIN pools' = DOMAIN pools
      /\ \A r \in DOMAIN pools : pools'[r] = pools[from[r]]
  BY DEF swap, Swapped
<1>2. \A r \in DOMAIN pools : \A e \in pools[r].entries : Place(e) \subseteq DOMAIN bytes
  BY DEF Kept, PoolsKnown, EntryKnown
<1>3. DOMAIN pools \subseteq Slots
  BY DEF Kept, PoolsKnown
<1>4. /\ from \in [DOMAIN pools -> DOMAIN pools]
      /\ \A r, t \in DOMAIN pools : from[r] = from[t] => r = t
  BY <1>1
<1> HIDE DEF from
<1>9. Arranged(DOMAIN pools, from, NoAnchor)
  BY <1>1, <1>2, <1>3, <1>4 DEF Arranged
<1> QED  BY <1>9, Rearranged

LEMMA MoveConstructKeeps ==
  ASSUME Kept, NEW p \in Slots, NEW q \in Slots, MoveConstruct(p, q)
  PROVE  Kept'
<1> DEFINE old == (DOMAIN pools \cup {p}) \ {q}
           from == [r \in old |-> IF r = p THEN q ELSE r]
<1>1. /\ bytes' = bytes /\ symbols' = symbols
      /\ p \notin DOMAIN pools /\ q \in DOMAIN pools
      /\ DOMAIN pools' = DOMAIN pools \cup {p}
      /\ pools'[q] = [entries |-> {}, anchor |-> NoAnchor]
      /\ \A r \in old : pools'[r] = pools[from[r]]
  BY DEF MoveConstruct, Swapped, WithPool
<1>2. \A r \in DOMAIN pools : \A e \in pools[r].entries : Place(e) \subseteq DOMAIN bytes
  BY DEF Kept, PoolsKnown, EntryKnown
<1>3. DOMAIN pools' \subseteq Slots
  BY <1>1 DEF Kept, PoolsKnown
<1>4. /\ from \in [old -> DOMAIN pools]
      /\ \A r, t \in old : from[r] = from[t] => r = t
      /\ old \subseteq DOMAIN pools' /\ \A r \in DOMAIN pools' \ old : r = q
  BY <1>1
<1> HIDE DEF from, old
<1>9. Arranged(old, from, NoAnchor)
  BY <1>1, <1>2, <1>3, <1>4 DEF Arranged
<1> QED  BY <1>9, Rearranged

LEMMA MoveAssignKeeps ==
  ASSUME Kept, NEW p \in Slots, NEW q \in Slots, MoveAssign(p, q)
  PROVE  Kept'
<1> DEFINE a == make_symbol_anchor
           old == DOMAIN pools \ {q}
           from == [r \in old |-> IF r = p THEN q ELSE r]
<1>1. /\ symbols' = symbols
      /\ p \in DOMAIN pools /\ q \in DOMAIN pools
      /\ DOMAIN pools' = DOMAIN pools
      /\ pools'[q] = [entries |-> {}, anchor |-> a]
      /\ \A r \in old : pools'[r] = pools[from[r]]
      /\ Freed(pools[p].entries)
  BY DEF MoveAssign, Swapped
<1>2. \A r \in DOMAIN pools : \A e \in pools[r].entries : r # p =>
        Place(e) \subseteq DOMAIN bytes' /\ \A b \in Place(e) : bytes'[b] = bytes[b]
  BY <1>1, FreedOnlyThose DEF Kept
<1>3. DOMAIN pools' \subseteq Slots
  BY <1>1 DEF Kept, PoolsKnown
<1>4. /\ from \in [old -> DOMAIN pools]
      /\ \A r, t \in old : from[r] = from[t] => r = t
      /\ \A r \in old : from[r] # p
      /\ old \subseteq DOMAIN pools' /\ \A r \in DOMAIN pools' \ old : r = q
  BY <1>1
<1>5. /\ a \in Anchors
      /\ \A r \in DOMAIN pools : pools[r].anchor # a
      /\ \A s \in symbols : s.anchor # a
  BY FreshAnchor DEF Kept
<1>6. \A r \in old : \A e \in pools'[r].entries :
        Place(e) \subseteq DOMAIN bytes' /\ \A b \in Place(e) : bytes'[b] = bytes[b]
  BY <1>1, <1>2, <1>4
<1> HIDE DEF from, old, a
<1>9. Arranged(old, from, a)
  BY <1>1, <1>3, <1>4, <1>5, <1>6 DEF Arranged
<1> QED  BY <1>9, Rearranged

-----------------------------------------------------------------------------
(* What makes and forgets symbols. *)

\* One symbol more.
LEMMA SymbolAdded ==
  ASSUME SymbolsKnown, Cardinality(symbols) < MaxSymbols,
         NEW t, symbols' = symbols \cup {t}, SymbolTyped(t), SymbolKnown(t)',
         \A s \in symbols : SymbolKnown(s)'
  PROVE  SymbolsKnown'
<1>1. IsFiniteSet(symbols) /\ Cardinality(symbols) \in Nat /\ MaxSymbols \in Nat
  BY FS_CardinalityType, AnchorsAssumption DEF SymbolsKnown
<1>2. IsFiniteSet(symbols') /\ Cardinality(symbols') <= MaxSymbols
  <2>1. /\ IsFiniteSet(symbols \cup {t})
        /\ Cardinality(symbols \cup {t})
             = IF t \in symbols THEN Cardinality(symbols) ELSE Cardinality(symbols) + 1
    BY <1>1, FS_AddElement
  <2> QED  BY <1>1, <2>1
<1>3. \A s \in symbols' : SymbolTyped(s)' /\ SymbolKnown(s)'
  BY DEF SymbolsKnown, SymbolTyped
<1> QED  BY <1>2, <1>3 DEF SymbolsKnown

\* A symbol for an entry of the pool with its text.
LEMMA SymbolOfPool ==
  ASSUME PoolsKnown, NEW p \in DOMAIN pools, NEW e \in pools[p].entries,
         NEW text, text # <<>>, Content(e) = text
  PROVE  LET s == symbol(e, pools[p].anchor, text) IN SymbolTyped(s) /\ SymbolKnown(s)
<1> DEFINE s == symbol(e, pools[p].anchor, text)
<1>1. s.entry = e /\ s.anchor = pools[p].anchor /\ s.text = text
  BY DEF symbol
<1>2. SymbolTyped(s)
  BY <1>1, AnchorsArePositive DEF PoolsKnown, SymbolTyped, EntryKnown
<1>3. SymbolKnown(s)
  BY <1>1 DEF PoolsKnown, SymbolKnown
<1> QED  BY <1>2, <1>3

\* A new entry goes where no entry was.
LEMMA NewEntryElsewhere ==
  ASSUME NEW e \in Nat \ {0}, NEW text \in Seq(Nat),
         BytesOf(e, symbol_entry_allocation_size(Len(text))) \cap DOMAIN bytes = {},
         new_symbol_entry(e, symbol_entry_allocation_size(Len(text)), text)
  PROVE  DOMAIN bytes \subseteq DOMAIN bytes' /\ \A b \in DOMAIN bytes : bytes'[b] = bytes[b]
<1> DEFINE place == BytesOf(e, symbol_entry_allocation_size(Len(text)))
           written == Written(e, text)
           first == e * Cell + Offset
<1>1. e \in Nat /\ Len(text) \in Nat /\ first \in Nat
  BY LayoutAssumption
<1>2. DOMAIN written \subseteq place
  <2>1. DOMAIN written = {e * Cell} \cup first..first + Len(text)
    BY DEF Written
  <2>2. e * Cell \in place /\ \A i \in 0..Len(text) : first + i \in place
    <3> HIDE DEF place
    <3> QED  BY <1>1, EntryFits DEF place, first
  <2> HIDE DEF written, first, place
  <2>3. \A b \in first..first + Len(text) : b - first \in 0..Len(text) /\ first + (b - first) = b
    BY <1>1
  <2> QED  BY <2>1, <2>2, <2>3
<1>3. bytes' = [b \in DOMAIN bytes \cup place |-> IF b \in DOMAIN written THEN written[b] ELSE Byte(b)]
  BY DEF new_symbol_entry
<1>4. place \cap DOMAIN bytes = {}
  OBVIOUS
<1> HIDE DEF written, place
<1> QED  BY <1>2, <1>3, <1>4 DEF Byte

\* A new entry is written to memory that no entry owns.
LEMMA NewEntryKeeps ==
  ASSUME Kept, Cardinality(symbols) < MaxSymbols,
         NEW p \in DOMAIN pools, NEW text \in Seq(Nat), ~is_normalized(pools[p], text),
         NEW e \in NewPlaces(symbol_entry_allocation_size(Len(text))),
         new_symbol_entry(e, symbol_entry_allocation_size(Len(text)), text),
         pools' = [pools EXCEPT ![p].entries = @ \cup {e}],
         symbols' = symbols \cup {symbol(e, pools[p].anchor, text)}
  PROVE  Kept'
<1> DEFINE place == BytesOf(e, symbol_entry_allocation_size(Len(text)))
<1>1. /\ text # <<>> /\ \A f \in pools[p].entries : Content(f) # text
      /\ e \in Nat \ {0} /\ place \cap DOMAIN bytes = {}
  BY DEF is_normalized, find, Matches, NewPlaces
<1>2. EntryKnown(e)' /\ Place(e)' = place /\ Content(e)' = text
  BY <1>1, WrittenEntry
<1>3. DOMAIN bytes \subseteq DOMAIN bytes' /\ \A b \in DOMAIN bytes : bytes'[b] = bytes[b]
  BY <1>1, NewEntryElsewhere
<1>4. PoolsKnown /\ SymbolsKnown
  BY DEF Kept
<1>5. ASSUME NEW q \in DOMAIN pools, NEW f \in pools[q].entries
      PROVE  /\ EntryKnown(f)' /\ Place(f)' = Place(f) /\ Content(f)' = Content(f)
             /\ Place(f)' \cap Place(e)' = {}
  <2>1. EntryKnown(f) /\ Place(f) \subseteq DOMAIN bytes
    BY <1>4 DEF PoolsKnown, EntryKnown
  <2>2. EntryKnown(f)' /\ Place(f)' = Place(f) /\ Content(f)' = Content(f)
    BY <1>3, <2>1, UntouchedEntry
  <2> QED  BY <1>1, <1>2, <2>1, <2>2
<1> HIDE DEF place
<1>6. /\ DOMAIN pools' = DOMAIN pools
      /\ pools'[p].entries = pools[p].entries \cup {e}
      /\ \A q \in DOMAIN pools : /\ pools'[q].anchor = pools[q].anchor
                                 /\ pools'[q] = [entries |-> pools'[q].entries, anchor |-> pools'[q].anchor]
                                 /\ q # p => pools'[q].entries = pools[q].entries
  <2>1. DOMAIN pools' = DOMAIN pools /\ \A q \in DOMAIN pools : q # p => pools'[q] = pools[q]
    OBVIOUS
  <2>2. pools'[p] = [pools[p] EXCEPT !.entries = pools[p].entries \cup {e}]
    OBVIOUS
  <2>3. \A q \in DOMAIN pools : pools[q] = [entries |-> pools[q].entries, anchor |-> pools[q].anchor]
    BY <1>4 DEF PoolsKnown
  <2>4. pools'[p] = [entries |-> pools[p].entries \cup {e}, anchor |-> pools[p].anchor]
    <3>1. PICK pool, E, a : pool = pools[p] /\ pool = [entries |-> E, anchor |-> a]
      BY <2>3
    <3>2. pool.entries = E /\ pool.anchor = a
      BY <3>1
    <3>3. \A X : [pool EXCEPT !.entries = X] = [entries |-> X, anchor |-> a]
      BY <3>1, SMT
    <3> QED  BY <2>2, <3>1, <3>2, <3>3
  <2>5. pools'[p].entries = pools[p].entries \cup {e} /\ pools'[p].anchor = pools[p].anchor
    BY <2>4, Zenon
  <2>6. ASSUME NEW q \in DOMAIN pools
        PROVE  /\ pools'[q].anchor = pools[q].anchor
               /\ pools'[q] = [entries |-> pools'[q].entries, anchor |-> pools'[q].anchor]
               /\ q # p => pools'[q].entries = pools[q].entries
    BY <2>1, <2>3, <2>4, <2>5, Zenon
  <2> QED  BY <2>1, <2>5, <2>6, Zenon
<1>7. ASSUME NEW q \in DOMAIN pools
      PROVE  /\ pools'[q] = [entries |-> pools'[q].entries, anchor |-> pools'[q].anchor]
             /\ pools'[q].anchor \in Anchors \cup {NoAnchor}
             /\ \A f \in pools'[q].entries : EntryKnown(f)'
             /\ \A f, g \in pools'[q].entries : Content(f)' = Content(g)' => f = g
  <2>1. pools'[q].anchor \in Anchors \cup {NoAnchor}
    BY <1>4, <1>6 DEF PoolsKnown
  <2>2. \A f \in pools'[q].entries : f \in pools[q].entries \/ (f = e /\ q = p)
    BY <1>6
  <2>3. \A f \in pools'[q].entries : EntryKnown(f)'
    BY <1>2, <1>5, <2>2
  <2>4. \A f, g \in pools[q].entries : Content(f) = Content(g) => f = g
    BY <1>4 DEF PoolsKnown
  <2>5. \A f, g \in pools'[q].entries : Content(f)' = Content(g)' => f = g
    BY <1>1, <1>2, <1>5, <2>2, <2>4
  <2> QED  BY <1>6, <2>1, <2>3, <2>5
<1>8. ASSUME NEW q \in DOMAIN pools, NEW r \in DOMAIN pools
      PROVE  /\ pools'[q].anchor = pools'[r].anchor /\ pools'[q].anchor # NoAnchor => q = r
             /\ \A f \in pools'[q].entries, g \in pools'[r].entries :
                  (q = r /\ f = g) \/ Place(f)' \cap Place(g)' = {}
  <2>1. pools'[q].anchor = pools'[r].anchor /\ pools'[q].anchor # NoAnchor => q = r
    BY <1>4, <1>6 DEF PoolsKnown
  <2>2. \A f \in pools[q].entries, g \in pools[r].entries :
          (q = r /\ f = g) \/ Place(f) \cap Place(g) = {}
    BY <1>4 DEF PoolsKnown
  <2>3. /\ \A f \in pools'[q].entries : f \in pools[q].entries \/ (f = e /\ q = p)
        /\ \A f \in pools'[r].entries : f \in pools[r].entries \/ (f = e /\ r = p)
    BY <1>6
  <2>4. \A f \in pools'[q].entries, g \in pools'[r].entries :
          (q = r /\ f = g) \/ Place(f)' \cap Place(g)' = {}
    BY <1>5, <2>2, <2>3
  <2> QED  BY <2>1, <2>4
<1>9. PoolsKnown'
  BY <1>4, <1>6, <1>7, <1>8 DEF PoolsKnown
<1>10. PICK t : t = symbol(e, pools[p].anchor, text)
  OBVIOUS
<1>11. SymbolTyped(t) /\ SymbolKnown(t)' /\ symbols' = symbols \cup {t}
  <2>1. t.entry = e /\ t.anchor = pools[p].anchor /\ t.text = text
    BY <1>10 DEF symbol
  <2>2. SymbolTyped(t)
    BY <1>1, <1>4, <2>1, AnchorsArePositive DEF PoolsKnown, SymbolTyped, EmptyEntry
  <2>3. \A q \in DOMAIN pools' : pools'[q].anchor = t.anchor /\ t.anchor # NoAnchor => q = p
    BY <1>6, <1>8, <2>1
  <2>4. t.entry \in pools'[p].entries /\ Content(t.entry)' = t.text
    BY <1>2, <1>6, <2>1
  <2> QED  BY <1>10, <2>2, <2>3, <2>4 DEF SymbolKnown
<1>12. \A s \in symbols : SymbolKnown(s)'
  <2> TAKE s \in symbols
  <2>1. SymbolKnown(s)
    BY <1>4 DEF SymbolsKnown
  <2> QED  BY <1>5, <1>6, <2>1 DEF SymbolKnown
<1>13. SymbolsKnown'
  BY <1>4, <1>11, <1>12, SymbolAdded
<1> QED  BY <1>9, <1>13 DEF Kept

\* While pools and memory are left alone, so is what symbols read.
LEMMA PoolsUntouched ==
  ASSUME UNCHANGED <<bytes, pools>>
  PROVE  (PoolsKnown => PoolsKnown') /\ \A s : SymbolKnown(s)' <=> SymbolKnown(s)
BY DEF PoolsKnown, SymbolKnown, EntryKnown, Place, BytesOf, symbol_entry_allocation_size,
       SizeOf, At, Byte, Content

LEMMA normalizeKeeps ==
  ASSUME Kept, NEW p \in Slots, NEW text \in Texts, normalize(p, text)
  PROVE  Kept'
<1>1. /\ PoolsKnown /\ SymbolsKnown /\ text \in Seq(Nat)
      /\ p \in DOMAIN pools /\ Cardinality(symbols) < MaxSymbols
  BY TextsAssumption DEF Kept, normalize
<1>2. ASSUME NEW t, UNCHANGED <<bytes, pools>>, symbols' = symbols \cup {t},
             SymbolTyped(t), SymbolKnown(t)
      PROVE  Kept'
  <2>1. PoolsKnown' /\ SymbolKnown(t)' /\ \A s \in symbols : SymbolKnown(s)'
    BY <1>1, <1>2, PoolsUntouched DEF SymbolsKnown
  <2>2. SymbolsKnown'
    BY <1>1, <1>2, <2>1, SymbolAdded
  <2> QED  BY <2>1, <2>2 DEF Kept
<1>3. CASE /\ text = <<>>
           /\ symbols' = symbols \cup {symbol(EmptyEntry, EmptyAnchor, text)}
           /\ UNCHANGED <<bytes, pools>>
  <2>1. SymbolTyped(symbol(EmptyEntry, EmptyAnchor, text))
    BY <1>3 DEF SymbolTyped, symbol, EmptyEntry
  <2>2. SymbolKnown(symbol(EmptyEntry, EmptyAnchor, text))
    BY <1>1, AnchorsArePositive DEF SymbolKnown, symbol, PoolsKnown
  <2> QED  BY <1>2, <1>3, <2>1, <2>2
<1>4. CASE /\ text # <<>>
           /\ \E e \in find(pools[p], text) :
                symbols' = symbols \cup {symbol(e, pools[p].anchor, text)}
           /\ UNCHANGED <<bytes, pools>>
  <2>1. PICK e \in pools[p].entries : /\ Content(e) = text
                                      /\ symbols' = symbols \cup {symbol(e, pools[p].anchor, text)}
    BY <1>4 DEF find, Matches
  <2>2. /\ SymbolTyped(symbol(e, pools[p].anchor, text))
        /\ SymbolKnown(symbol(e, pools[p].anchor, text))
    BY <1>1, <1>4, <2>1, SymbolOfPool
  <2> QED  BY <1>2, <1>4, <2>1, <2>2
<1>5. CASE /\ ~is_normalized(pools[p], text)
           /\ \E e \in NewPlaces(symbol_entry_allocation_size(Len(text))) :
                /\ new_symbol_entry(e, symbol_entry_allocation_size(Len(text)), text)
                /\ pools' = [pools EXCEPT ![p].entries = @ \cup {e}]
                /\ symbols' = symbols \cup {symbol(e, pools[p].anchor, text)}
  BY <1>1, <1>5, NewEntryKeeps
<1> QED  BY <1>3, <1>4, <1>5 DEF normalize

LEMMA ForgetKeeps ==
  ASSUME Kept, NEW s, Forget(s)
  PROVE  Kept'
<1>1. PoolsKnown' /\ \A t : SymbolKnown(t)' <=> SymbolKnown(t)
  BY PoolsUntouched DEF Kept, Forget
<1>2. IsFiniteSet(symbols) /\ symbols' = symbols \ {s} /\ Cardinality(symbols) <= MaxSymbols
  BY DEF Kept, SymbolsKnown, Forget
<1>3. IsFiniteSet(symbols') /\ Cardinality(symbols') <= Cardinality(symbols)
  BY <1>2, FS_Subset
<1>4. Cardinality(symbols') \in Nat /\ Cardinality(symbols) \in Nat
  BY <1>2, <1>3, FS_CardinalityType
<1>5. Cardinality(symbols') <= MaxSymbols
  BY <1>2, <1>3, <1>4, AnchorsAssumption
<1>6. \A t \in symbols' : SymbolTyped(t)' /\ SymbolKnown(t)'
  BY <1>1, <1>2 DEF Kept, SymbolsKnown, SymbolTyped
<1> QED  BY <1>1, <1>3, <1>2, <1>5, <1>6 DEF Kept, SymbolsKnown

\* Every operation keeps the pools and symbols in order.
LEMMA KeptInductive ==
  /\ PoolInit => Kept
  /\ Kept /\ [PoolNext]_poolVars => Kept'
<1>1. ASSUME PoolInit PROVE Kept
  <2>1. PoolsKnown
    BY <1>1 DEF PoolInit, PoolsKnown
  <2>2. IsFiniteSet({}) /\ Cardinality({}) = 0
    BY FS_EmptySet
  <2>3. SymbolsKnown
    BY <1>1, <2>2, AnchorsAssumption DEF PoolInit, SymbolsKnown
  <2> QED  BY <2>1, <2>3 DEF Kept
<1>2. ASSUME Kept, [PoolNext]_poolVars PROVE Kept'
  <2>1. ASSUME NEW p \in Slots, Construct(p) \/ Destroy(p) PROVE Kept'
    BY <1>2, <2>1, ConstructKeeps, DestroyKeeps
  <2>2. ASSUME NEW p \in Slots, NEW q \in Slots, swap(p, q) \/ MoveConstruct(p, q) \/ MoveAssign(p, q)
        PROVE  Kept'
    BY <1>2, <2>2, swapKeeps, MoveConstructKeeps, MoveAssignKeeps
  <2>3. ASSUME NEW p \in Slots, NEW text \in Texts, normalize(p, text) PROVE Kept'
    BY <1>2, <2>3, normalizeKeeps
  <2>4. ASSUME NEW s \in symbols, Forget(s) PROVE Kept'
    BY <1>2, <2>4, ForgetKeeps
  <2>5. ASSUME UNCHANGED poolVars PROVE Kept'
    <3>1. UNCHANGED <<bytes, pools>> /\ symbols' = symbols
      BY <2>5 DEF poolVars
    <3>2. PoolsKnown' /\ \A s : SymbolKnown(s)' <=> SymbolKnown(s)
      BY <1>2, <3>1, PoolsUntouched DEF Kept
    <3> QED  BY <1>2, <3>1, <3>2 DEF Kept, SymbolsKnown, SymbolTyped
  <2> QED  BY <1>2, <2>1, <2>2, <2>3, <2>4, <2>5 DEF PoolNext
<1> QED  BY <1>1, <1>2

(* The memory of a pool's entries is its own, every entry holds one text   *)
(* and no other entry of its pool holds it, and a pool's anchor leads to   *)
(* it alone, through every sequence of constructing, moving, swapping and  *)
(* destroying pools and making symbols.                                    *)
THEOREM PoolsOwnTheirEntries == PoolSpec => []Kept
  BY KeptInductive, PTL DEF PoolSpec

-----------------------------------------------------------------------------
(* What symbols read, and what comparing them tells. *)

\* The pool a valid symbol comes from.
LEMMA PoolOfValid ==
  ASSUME Kept, NEW s \in symbols, is_pool_available(s), s.entry # EmptyEntry
  PROVE  \E p \in DOMAIN pools : /\ pools[p].anchor = s.anchor /\ s.anchor # NoAnchor
                                 /\ s.entry \in pools[p].entries
                                 /\ Content(s.entry) = s.text
<1>1. SymbolTyped(s) /\ SymbolKnown(s)
  BY DEF Kept, SymbolsKnown
<1>2. s.anchor # EmptyAnchor
  BY <1>1 DEF SymbolTyped
<1>3. PICK p \in DOMAIN pools : pools[p].anchor = s.anchor /\ s.anchor # NoAnchor
  BY <1>2 DEF is_pool_available, lock
<1> QED  BY <1>1, <1>3 DEF SymbolKnown

\* What is kept is what the two properties need.
LEMMA ValidReads ==
  ASSUME Kept
  PROVE  ValidSymbolsReadTheirText
<1> SUFFICES ASSUME NEW s \in symbols, is_pool_available(s)
             PROVE  /\ Content(s.entry) = s.text
                    /\ s.entry # EmptyEntry =>
                         /\ At(s.entry, SizeOf(s.entry)) = NUL
                         /\ \E p \in DOMAIN pools : pools[p].anchor = s.anchor /\ s.entry \in pools[p].entries
  BY DEF ValidSymbolsReadTheirText, same_text, same_c_text
<1>1. CASE s.entry = EmptyEntry
  <2>1. s.text = <<>>
    BY <1>1 DEF Kept, SymbolsKnown, SymbolTyped
  <2>2. Content(s.entry) = [i \in 1..0 |-> At(s.entry, i - 1)]
    BY <1>1 DEF Content, SizeOf
  <2>3. Content(s.entry) = <<>>
    BY <2>2
  <2> QED  BY <1>1, <2>1, <2>3
<1>2. CASE s.entry # EmptyEntry
  BY <1>2, PoolOfValid DEF Kept, PoolsKnown, EntryKnown
<1> QED  BY <1>1, <1>2

\* Two entries of one pool have different texts.
LEMMA ComparesTexts ==
  ASSUME Kept
  PROVE  EqualIffSameText
<1> SUFFICES ASSUME NEW s \in symbols, NEW t \in symbols, have_compatible_pool(s, t),
                    is_pool_available(s) \/ is_pool_available(t)
             PROVE  /\ same_symbol(s, t) <=> s.text = t.text
                    /\ same_symbol(s, t) <=> ~symbol_comparator(s, t) /\ ~symbol_comparator(t, s)
  BY DEF EqualIffSameText
<1>1. SymbolTyped(s) /\ SymbolTyped(t)
  BY DEF Kept, SymbolsKnown
<1>2. same_symbol(s, t) <=> ~symbol_comparator(s, t) /\ ~symbol_comparator(t, s)
  BY <1>1 DEF SymbolTyped, same_symbol, symbol_comparator
<1>3. s.entry = t.entry <=> s.text = t.text
  <2>1. CASE s.entry = EmptyEntry \/ t.entry = EmptyEntry
    BY <1>1, <2>1 DEF SymbolTyped
  <2>2. CASE s.entry # EmptyEntry /\ t.entry # EmptyEntry
    <3>1. s.anchor # EmptyAnchor /\ t.anchor # EmptyAnchor
      BY <1>1, <2>2 DEF SymbolTyped
    <3>2. lock(s.anchor) # EmptyAnchor /\ lock(t.anchor) # EmptyAnchor
      BY <3>1, AnchorsArePositive DEF lock
    <3>3. lock(s.anchor) = lock(t.anchor)
      BY <3>2 DEF have_compatible_pool
    <3>4. is_pool_available(s) /\ is_pool_available(t)
      BY <3>3 DEF is_pool_available
    <3>5. s.anchor = t.anchor
      BY <3>3, <3>4 DEF is_pool_available, lock
    <3>6. PICK p \in DOMAIN pools : /\ pools[p].anchor = s.anchor /\ s.anchor # NoAnchor
                                    /\ s.entry \in pools[p].entries /\ Content(s.entry) = s.text
      BY <2>2, <3>4, PoolOfValid
    <3>7. t.entry \in pools[p].entries /\ Content(t.entry) = t.text
      BY <3>5, <3>6 DEF Kept, SymbolsKnown, SymbolKnown
    <3> QED  BY <3>6, <3>7 DEF Kept, PoolsKnown
  <2> QED  BY <2>1, <2>2
<1> QED  BY <1>2, <1>3 DEF same_symbol

(* A symbol that passes the assertion reads the text it was made for from  *)
(* memory its pool still owns.                                             *)
THEOREM ValidSymbolsRead == PoolSpec => []ValidSymbolsReadTheirText
  BY KeptInductive, ValidReads, PTL DEF PoolSpec

(* Two symbols whose comparison passes the assertion, one of them valid,   *)
(* are equal exactly if they were made for the same text.                  *)
THEOREM SymbolsCompareTexts == PoolSpec => []EqualIffSameText
  BY KeptInductive, ComparesTexts, PTL DEF PoolSpec
=============================================================================
