----------------------------- MODULE SymbolPool -----------------------------
(***************************************************************************)
(* Symbols and the pools they come from (src/src/core/symbol), in the      *)
(* configuration with assertions.  A pool owns entries in memory, each a   *)
(* header and the characters of a text; a symbol is the address of one,    *)
(* with a weak reference to its pool's anchor that expires with the pool.  *)
(* Memory that was freed is used again.  Symbols are kept with the text    *)
(* they were made for, which no code can see.                              *)
(***************************************************************************)
EXTENDS Integers, Sequences, FiniteSets

CONSTANTS
  Slots,      \* variables of type symbol_pool
  Texts,      \* sequences of characters, which are numbers; 0 is NUL
  Anchors,    \* addresses of anchors, positive numbers
  Cells,      \* bound: pieces of memory the allocator hands out, 1..Cells
  Cell,       \* sizeof(symbol_entry)
  Offset,     \* where the characters begin in it
  MaxSymbols  \* bound: symbols in use

ASSUME LayoutAssumption == Cell \in Nat /\ Offset \in 1..Cell - 1
ASSUME TextsAssumption == \A text \in Texts : text \in Seq(Nat)
\* The allocator always finds an address that no anchor in use has.
ASSUME AnchorsAssumption ==
  /\ IsFiniteSet(Slots) /\ IsFiniteSet(Anchors) /\ MaxSymbols \in Nat
  /\ Anchors \subseteq Nat \ {0}
  /\ Cardinality(Anchors) > Cardinality(Slots) + MaxSymbols

VARIABLES
  bytes,   \* contents of allocated memory by address
  pools,   \* by slot, the entries a pool owns and its anchor
  symbols  \* the symbols in use

poolVars == <<bytes, pools, symbols>>

NUL == 0
NoAnchor == 0
EmptyAnchor == -1
EmptyEntry == 0

-----------------------------------------------------------------------------
(* Memory. *)

symbol_entry_allocation_size(length) == 1 + (length + Cell - 1) \div Cell
\* A mutant: the cell that holds the header is forgotten.
WithoutHeader(length) == (length + Cell - 1) \div Cell

BytesOf(cell, count) == cell * Cell..(cell + count) * Cell - 1
Byte(b) == IF b \in DOMAIN bytes THEN bytes[b] ELSE -1
NewPlaces(count) ==
  {c \in 1..Cells + 1 - count : BytesOf(c, count) \cap DOMAIN bytes = {}}

\* What stands at an entry's address once it has been written.
Written(cell, text) ==
  LET size == cell * Cell
      first == cell * Cell + Offset
  IN [b \in {size} \cup first..first + Len(text) |->
        IF b = size THEN Len(text) ELSE Append(text, NUL)[b - first + 1]]

\* What is written outside of allocated memory has no meaning.
new_symbol_entry(cell, count, text) ==
  LET allocated == DOMAIN bytes \cup BytesOf(cell, count)
      written == Written(cell, text)
  IN bytes' = [b \in allocated |-> IF b \in DOMAIN written THEN written[b] ELSE Byte(b)]

-----------------------------------------------------------------------------
(* Symbols. *)

SizeOf(entry) == IF entry = EmptyEntry THEN 0 ELSE Byte(entry * Cell)
At(entry, pos) == Byte(entry * Cell + Offset + pos)
Content(entry) == [i \in 1..SizeOf(entry) |-> At(entry, i - 1)]

\* Destroying a pool's entries: how much memory each has, its size tells.
Freed(entries) ==
  LET count(e) == symbol_entry_allocation_size(SizeOf(e))
      kept == DOMAIN bytes \ UNION {BytesOf(e, count(e)) : e \in entries}
  IN bytes' = [b \in kept |-> bytes[b]]

symbol(entry, anchor, text) == [entry |-> entry, anchor |-> anchor, text |-> text]

\* The anchor a weak reference leads to, if it has not expired.
lock(anchor) ==
  IF anchor = EmptyAnchor \/ \E p \in DOMAIN pools : pools[p].anchor = anchor
  THEN anchor ELSE NoAnchor
is_pool_available(s) == lock(s.anchor) # NoAnchor
have_compatible_pool(lhs, rhs) ==
  \/ EmptyAnchor \in {lock(lhs.anchor), lock(rhs.anchor)}
  \/ lock(lhs.anchor) = lock(rhs.anchor)

\* operator== and symbol_comparator; texts are compared character by character.
same_symbol(lhs, rhs) == lhs.entry = rhs.entry
symbol_comparator(lhs, rhs) == lhs.entry < rhs.entry
same_text(s, string) == Content(s.entry) = string
\* A C string ends at its first NUL, a symbol need not.
c_str(string) ==
  SubSeq(string, 1, CHOOSE n \in 0..Len(string) :
                      /\ \A i \in 1..n : string[i] # NUL
                      /\ n = Len(string) \/ string[n + 1] = NUL)
same_c_text(s, string) == Content(s.entry) = c_str(string)

-----------------------------------------------------------------------------
(* Pools. *)

\* Mutant of Matches: the text is compared with the beginning of the entry.
MatchesPrefix(text, entry) ==
  /\ Len(text) <= Len(Content(entry))
  /\ text = SubSeq(Content(entry), 1, Len(text))
Matches(text, entry) == text = Content(entry)

find(pool, text) == {e \in pool.entries : Matches(text, e)}
is_normalized(pool, text) == text = <<>> \/ find(pool, text) # {}

\* The address of an anchor is not used again while a reference to it exists;
\* which one of the others it is makes no difference.
make_symbol_anchor ==
  CHOOSE a \in Anchors : /\ \A p \in DOMAIN pools : pools[p].anchor # a
                         /\ \A s \in symbols : s.anchor # a

\* Mutant of Swapped: the entries change places, the anchors stay.
EntriesOnly(ps, p, q) ==
  [ps EXCEPT ![p].entries = ps[q].entries, ![q].entries = ps[p].entries]
Swapped(ps, p, q) == [ps EXCEPT ![p] = ps[q], ![q] = ps[p]]

\* The pools with one more in the variable p.
WithPool(p, pool) == [q \in DOMAIN pools \cup {p} |-> IF q = p THEN pool ELSE pools[q]]

PoolInit ==
  /\ bytes = [b \in {} |-> NUL]
  /\ pools = [p \in {} |-> [entries |-> {}, anchor |-> NoAnchor]]
  /\ symbols = {}

Construct(p) ==
  /\ p \notin DOMAIN pools
  /\ pools' = WithPool(p, [entries |-> {}, anchor |-> make_symbol_anchor])
  /\ UNCHANGED <<bytes, symbols>>

Destroy(p) ==
  /\ p \in DOMAIN pools
  /\ Freed(pools[p].entries)
  /\ pools' = [q \in DOMAIN pools \ {p} |-> pools[q]]
  /\ UNCHANGED symbols

swap(p, q) ==
  /\ {p, q} \subseteq DOMAIN pools
  /\ pools' = Swapped(pools, p, q)
  /\ UNCHANGED <<bytes, symbols>>

\* The new pool has no anchor of its own to give away.
MoveConstruct(p, q) ==
  /\ p \notin DOMAIN pools /\ q \in DOMAIN pools
  /\ pools' = Swapped(WithPool(p, [entries |-> {}, anchor |-> NoAnchor]), p, q)
  /\ UNCHANGED <<bytes, symbols>>

\* What p held goes through a temporary pool and is destroyed with it.
MoveAssign(p, q) ==
  /\ {p, q} \subseteq DOMAIN pools
  /\ Freed(pools[p].entries)
  /\ pools' = Swapped([pools EXCEPT ![p] = [entries |-> {}, anchor |-> make_symbol_anchor]], p, q)
  /\ UNCHANGED symbols

\* The symbol for a text, made now if the pool does not have it.
normalize(p, text) ==
  /\ p \in DOMAIN pools
  /\ Cardinality(symbols) < MaxSymbols
  /\ \/ /\ text = <<>>
        /\ symbols' = symbols \cup {symbol(EmptyEntry, EmptyAnchor, text)}
        /\ UNCHANGED <<bytes, pools>>
     \/ /\ text # <<>>
        /\ \E e \in find(pools[p], text) :
             symbols' = symbols \cup {symbol(e, pools[p].anchor, text)}
        /\ UNCHANGED <<bytes, pools>>
     \/ /\ ~is_normalized(pools[p], text)
        /\ LET count == symbol_entry_allocation_size(Len(text))
           IN \E e \in NewPlaces(count) :
                /\ new_symbol_entry(e, count, text)
                /\ pools' = [pools EXCEPT ![p].entries = @ \cup {e}]
                /\ symbols' = symbols \cup {symbol(e, pools[p].anchor, text)}

Forget(s) == symbols' = symbols \ {s} /\ UNCHANGED <<bytes, pools>>

PoolNext ==
  \/ \E p \in Slots : Construct(p) \/ Destroy(p)
  \/ \E p, q \in Slots : swap(p, q) \/ MoveConstruct(p, q) \/ MoveAssign(p, q)
  \/ \E p \in Slots, text \in Texts : normalize(p, text)
  \/ \E s \in symbols : Forget(s)

PoolSpec == PoolInit /\ [][PoolNext]_poolVars

-----------------------------------------------------------------------------
(* Two symbols whose comparison passes the assertion, at least one of them *)
(* still valid, are equal exactly if they were made for the same text,     *)
(* wherever the pool has been moved to, whatever stands now where entries  *)
(* of destroyed pools stood; and the order that containers use agrees.     *)
EqualIffSameText ==
  \A s, t \in symbols :
    have_compatible_pool(s, t) /\ (is_pool_available(s) \/ is_pool_available(t)) =>
      /\ same_symbol(s, t) <=> s.text = t.text
      /\ same_symbol(s, t) <=> ~symbol_comparator(s, t) /\ ~symbol_comparator(t, s)

(* A symbol that passes the assertion reads the text it was made for from  *)
(* memory its pool still owns, and compares equal with exactly the strings *)
(* that have this text.                                                    *)
ValidSymbolsReadTheirText ==
  \A s \in symbols : is_pool_available(s) =>
    /\ Content(s.entry) = s.text
    /\ s.entry # EmptyEntry =>
         /\ At(s.entry, SizeOf(s.entry)) = NUL
         /\ \E p \in DOMAIN pools : pools[p].anchor = s.anchor /\ s.entry \in pools[p].entries
    /\ \A string \in Texts : /\ same_text(s, string) <=> s.text = string
                             /\ same_c_text(s, string) <=> s.text = c_str(string)
=============================================================================
