---------------------------- MODULE LexerProofs ----------------------------
(***************************************************************************)
(* What the lexer promises, proved for every text of every length over any *)
(* characters: that the positions it gives its tokens are theirs, and that *)
(* it finds the longest tokens with nothing but white space and comments   *)
(* between them.                                                           *)
(***************************************************************************)
EXTENDS Lexer, FiniteSetTheorems, SequenceTheorems, NaturalsInduction, WellFoundedInduction, TLAPS

-----------------------------------------------------------------------------
(* Types.                                                                  *)
Places == [at : Nat \ {0}, line : Int, column : Int]
Types == Punctuation \cup {"identifier", "integer_literal"}
Tokens == [type : Types, first : Nat, last : Int, line : Int, column : Int]
Scanned ==
  {Nothing} \cup [of : {"token"}, type : Types, from : Places]
    \cup [of : {"comment"}, q : {"q0", "q1"}, from : Places]

LexerTypes ==
  /\ \E Characters : text \in Seq(Characters)
  /\ cursor \in Places /\ cursor.at \in 1..Len(text) + 1
  /\ scanning \in Scanned
  /\ lexed \in Seq(Tokens)
  /\ status \in {"running", "eof", "lexical_error"}

(* What maybe_token begins and goes on with is a type of token.            *)
LEMMA TablesTyped ==
  /\ \A c \in DOMAIN First : First[c] \in Types
  /\ \A type \in Punctuation : \A c : <<type, c>> \in DOMAIN Longer => Longer[<<type, c>>] \in Types
<1>1. \A type \in Punctuation : \A c : <<type, c>> \in DOMAIN Longer => c \in DOMAIN First
  <2> SUFFICES ASSUME NEW type \in Punctuation, NEW c, <<type, c>> \in DOMAIN Longer
               PROVE  c \in DOMAIN First
    OBVIOUS
  <2>1. <<type, c>>[2] \in DOMAIN First
    BY PunctuationAssumption
  <2> QED  BY <2>1
<1> QED  BY <1>1, PunctuationAssumption DEF Types

(* A step of the cursor goes one place on or stays at the end.             *)
LEMMA NextTyped ==
  ASSUME LexerTypes
  PROVE  /\ next(cursor) \in Places
         /\ next(cursor).at = (IF AtEnd(cursor) THEN cursor.at ELSE cursor.at + 1)
         /\ next(cursor).at \in 1..Len(text) + 1
<1>1. Len(text) \in Nat
  BY DEF LexerTypes
<1> QED  BY <1>1 DEF LexerTypes, Places, next, AtEnd

\* The lexer starts with the first character and no token.
LEMMA TypesInit ==
  ASSUME NEW Characters, NEW texts \in SUBSET Seq(Characters), LexerInit(texts)
  PROVE  LexerTypes
<1>1. text \in Seq(Characters) /\ Len(text) \in Nat
  BY DEF LexerInit
<1> QED  BY <1>1 DEF LexerInit, LexerTypes, Places, Start_, Scanned, Nothing

(* Where the token or comment that is being read, or the next one, began.  *)
Origin == IF scanning = Nothing THEN cursor ELSE scanning.from
TokenOf(type, last) ==
  [type |-> type, first |-> Origin.at, last |-> last, line |-> Origin.line, column |-> Origin.column]

(* All that one step may do to the cursor, to what is read and to lexed.   *)
Stepped ==
  /\ text' = text
  /\ cursor' \in {cursor, next(cursor)}
  /\ scanning' \in Scanned
  /\ scanning' # Nothing => scanning'.from = Origin
  /\ \/ lexed' = lexed
     \/ \E type \in Types, last \in Int : lexed' = Append(lexed, TokenOf(type, last))
  /\ status' \in {"running", "eof", "lexical_error"}

\* What is being read is nothing, a part of a token or a part of a comment.
LEMMA ScannedFields ==
  ASSUME LexerTypes
  PROVE  /\ Origin \in Places /\ Origin.at \in Nat /\ Origin.at >= 1
         /\ scanning = Nothing <=> scanning.of = "nothing"
         /\ scanning.of = "token" =>
              /\ scanning.type \in Types /\ Origin = scanning.from
              /\ \A type \in Types :
                   [scanning EXCEPT !.type = type] = [of |-> "token", type |-> type, from |-> Origin]
         /\ scanning.of = "comment" =>
              /\ scanning.q \in {"q0", "q1"} /\ Origin = scanning.from
              /\ \A q : [scanning EXCEPT !.q = q] = [of |-> "comment", q |-> q, from |-> Origin]
  BY DEF LexerTypes, Origin, Scanned, Nothing, Places

\* One lemma for each way a step can go, then one for all.
LEMMA BeginsStepped ==
  ASSUME LexerTypes, NEW type \in Types, Begin(type)
  PROVE  Stepped
  BY ScannedFields DEF Begin, Between, Stepped, Advance, Origin, Scanned, Nothing, LexerTypes

LEMMA ContinuesStepped ==
  ASSUME LexerTypes, NEW type \in Types, Continue(type), scanning.of = "token"
  PROVE  Stepped
<1>1. scanning' = [of |-> "token", type |-> type, from |-> Origin]
  BY ScannedFields DEF Continue
<1> QED  BY <1>1, ScannedFields DEF Continue, Stepped, Advance, Scanned, Nothing, LexerTypes

LEMMA TokenStepped ==
  ASSUME LexerTypes, NEW type \in Types, NEW to \in {cursor, next(cursor)}, Token_(type, Origin, to)
  PROVE  Stepped
<1>1. to.at - 1 \in Int
  BY NextTyped DEF LexerTypes, Places
<1>2. lexed' = Append(lexed, TokenOf(type, to.at - 1))
  BY DEF Token_, TokenOf
<1> QED  BY <1>1, <1>2 DEF Token_, Stepped, Scanned, Nothing, LexerTypes

LEMMA StepsStepped ==
  ASSUME LexerTypes, do_advance
  PROVE  Stepped
<1> USE ScannedFields
<1>1. CASE skip_white_space
  BY <1>1 DEF skip_white_space, Between, Advance, Stepped, LexerTypes
<1>2. CASE EndOfInput \/ InvalidInput
  BY <1>2 DEF EndOfInput, InvalidInput, Between, Stepped, LexerTypes
<1>3. CASE scan_identifier
  BY <1>3, BeginsStepped, ContinuesStepped, TokenStepped DEF scan_identifier, Within, Types
<1>4. CASE scan_integer_literal
  <2>1. Between => Origin = cursor
    BY DEF Between, Origin
  <2> QED  BY <1>4, <2>1, BeginsStepped, ContinuesStepped, TokenStepped
           DEF scan_integer_literal, Within, Types
<1>5. CASE maybe_token
  <2>1. CASE Char(cursor) \in DOMAIN First /\ Begin(First[Char(cursor)])
    BY <2>1, TablesTyped, BeginsStepped
  <2>2. CASE /\ Within(Punctuation) /\ ~OpensComment
             /\ LET longer == <<scanning.type, Char(cursor)>>
                IN IF longer \in DOMAIN Longer THEN Continue(Longer[longer])
                   ELSE Token_(scanning.type, scanning.from, cursor)
    BY <2>2, TablesTyped, ContinuesStepped, TokenStepped DEF Within, Types
  <2> QED  BY <1>5, <2>1, <2>2 DEF maybe_token
<1>6. CASE OpenComment
  BY <1>6 DEF OpenComment, Within, Stepped, Advance, Scanned, LexerTypes, Nothing
<1>7. CASE skip_block_comment
  <2>1. CommentState(scanning.q, Char(cursor)) \in {"q0", "q1", "q2"}
    BY DEF CommentState
  <2> QED  BY <1>7, <2>1 DEF skip_block_comment, Stepped, Advance, Scanned, LexerTypes, Nothing
<1> QED  BY <1>1, <1>2, <1>3, <1>4, <1>5, <1>6, <1>7 DEF do_advance

\* Every step keeps the types.
LEMMA TypesNext ==
  ASSUME LexerTypes, [do_advance]_lexerVars
  PROVE  LexerTypes'
<1>1. CASE UNCHANGED lexerVars
  BY <1>1 DEF LexerTypes, lexerVars, Scanned
<1>2. CASE do_advance
  <2>1. Stepped
    BY <1>2, StepsStepped
  <2>2. \A type \in Types, last \in Int : TokenOf(type, last) \in Tokens
    BY ScannedFields DEF TokenOf, Tokens, Places
  <2>3. lexed' \in Seq(Tokens)
    BY <2>1, <2>2 DEF Stepped, LexerTypes
  <2>4. cursor' \in Places /\ cursor'.at \in 1..Len(text) + 1
    BY <2>1, NextTyped DEF Stepped, LexerTypes
  <2> QED  BY <2>1, <2>3, <2>4 DEF Stepped, LexerTypes
<1> QED  BY <1>1, <1>2

-----------------------------------------------------------------------------
(* Positions.                                                              *)

\* Every set of naturals that is not empty has a least member.
LEMMA Least ==
  ASSUME NEW S \in SUBSET Nat, S # {}
  PROVE  \E x \in S : \A y \in S : x <= y
<1> DEFINE R == OpToRel(<, Nat)
<1>1. \E x \in S : \A y \in S : <<y, x>> \notin R
  BY NatLessThanWellFounded, WFMin, Zenon
<1>2. \A x, y \in Nat : y < x => <<y, x>> \in R
  BY DEF OpToRel
<1> HIDE DEF R
<1>3. PICK x \in S : \A y \in S : <<y, x>> \notin R
  BY <1>1
<1>4. \A y \in S : y \in Nat /\ x \in Nat /\ ~(y < x)
  BY <1>2, <1>3
<1>5. \A y \in S : x <= y
  BY <1>4
<1> QED  BY <1>5

\* Every set of places that is not empty has a last one.
LEMMA Greatest ==
  ASSUME NEW n \in Int, NEW S \in SUBSET (0..n), S # {}
  PROVE  \E x \in S : \A y \in S : y <= x
<1> DEFINE T == {n - x : x \in S}
<1>1. T \in SUBSET Nat
  <2>1. \A x \in S : n - x \in Nat
    OBVIOUS
  <2> QED  BY <2>1
<1>2. T # {}
  OBVIOUS
<1> HIDE DEF T
<1>3. PICK m \in T : \A y \in T : m <= y
  BY <1>1, <1>2, Least
<1>4. PICK x \in S : m = n - x
  BY DEF T
<1>5. \A y \in S : n - y \in T
  BY DEF T
<1>6. \A y \in S : n - x <= n - y
  BY <1>3, <1>4, <1>5
<1>7. \A y \in S : y <= x
  BY <1>6
<1> QED  BY <1>7

Counted(at, line, column) ==
  line = 1 + Cardinality(Feeds(at)) /\ column = at - Last_(Feeds(at))

(* Not only the tokens, the cursor and what is being read are counted too. *)
PositionsInv ==
  /\ PositionsCount
  /\ Counted(cursor.at, cursor.line, cursor.column)
  /\ Counted(Origin.at, Origin.line, Origin.column)

(* Only a line feed changes the line feeds up to a place.                  *)
LEMMA FeedsGrow ==
  ASSUME Len(text) \in Nat, NEW n \in Nat, n >= 1
  PROVE  /\ IsFiniteSet(Feeds(n)) /\ Cardinality(Feeds(n)) \in Nat
         /\ IF n + 1 <= Len(text) /\ text[n + 1] = "\n"
            THEN /\ Feeds(n + 1) = Feeds(n) \cup {n + 1} /\ n + 1 \notin Feeds(n)
                 /\ Cardinality(Feeds(n + 1)) = Cardinality(Feeds(n)) + 1
                 /\ Last_(Feeds(n + 1)) = n + 1
            ELSE Feeds(n + 1) = Feeds(n) /\ Last_(Feeds(n + 1)) = Last_(Feeds(n))
<1>1. Feeds(n) \in SUBSET (2..n)
  BY DEF Feeds
<1>2. IsFiniteSet(Feeds(n)) /\ Cardinality(Feeds(n)) \in Nat
  <2>1. IsFiniteSet(2..n)
    BY FS_Interval
  <2> QED  BY <1>1, <2>1, FS_Subset, FS_CardinalityType
<1>3. CASE n + 1 <= Len(text) /\ text[n + 1] = "\n"
  <2>1. Feeds(n + 1) = Feeds(n) \cup {n + 1} /\ n + 1 \notin Feeds(n)
    BY <1>3 DEF Feeds
  <2>2. Cardinality(Feeds(n + 1)) = Cardinality(Feeds(n)) + 1
    BY <1>2, <2>1, FS_AddElement
  <2>3. \A last \in Feeds(n + 1) :
          (\A m \in Feeds(n + 1) : m <= last) <=> last = n + 1
    BY <1>1, <2>1
  <2>4. Last_(Feeds(n + 1)) = n + 1
    BY <2>1, <2>3 DEF Last_
  <2> HIDE DEF Feeds, Last_
  <2> QED  BY <1>2, <1>3, <2>1, <2>2, <2>4
<1>4. CASE ~(n + 1 <= Len(text) /\ text[n + 1] = "\n")
  <2>1. Feeds(n + 1) = Feeds(n)
    BY <1>4 DEF Feeds
  <2>2. Last_(Feeds(n + 1)) = Last_(Feeds(n))
    BY <2>1
  <2> HIDE DEF Feeds, Last_
  <2> QED  BY <1>2, <1>4, <2>1, <2>2
<1> QED  BY <1>3, <1>4

(* The last line feed is a place or none.                                  *)
LEMMA LastFeedTyped ==
  ASSUME NEW n \in Nat
  PROVE  Last_(Feeds(n)) \in Int
<1>1. Feeds(n) \in SUBSET (0..n)
  BY DEF Feeds
<1>2. CASE Feeds(n) # {}
  <2>1. \E last \in Feeds(n) : \A m \in Feeds(n) : m <= last
    <3>1. n \in Int
      OBVIOUS
    <3> QED  BY <1>1, <1>2, <3>1, Greatest, Zenon
  <2> QED  BY <1>1, <1>2, <2>1 DEF Last_
<1>3. CASE Feeds(n) = {}
  BY <1>3 DEF Last_
<1> QED  BY <1>2, <1>3

\* The cursor counts the line feeds it comes to.
LEMMA NextCounted ==
  ASSUME LexerTypes, Counted(cursor.at, cursor.line, cursor.column)
  PROVE  Counted(next(cursor).at, next(cursor).line, next(cursor).column)
<1>1. Len(text) \in Nat /\ cursor.at \in Nat /\ cursor.at >= 1 /\ cursor.line \in Int /\ cursor.column \in Int
  BY DEF LexerTypes, Places
<1>2. CASE AtEnd(cursor)
  BY <1>2 DEF next
<1>3. CASE ~AtEnd(cursor)
  <2>1. Last_(Feeds(cursor.at)) \in Int
    BY <1>1, LastFeedTyped
  <2>2. /\ next(cursor).at = cursor.at + 1
        /\ IF cursor.at + 1 <= Len(text) /\ text[cursor.at + 1] = "\n"
           THEN next(cursor).line = cursor.line + 1 /\ next(cursor).column = 0
           ELSE next(cursor).line = cursor.line /\ next(cursor).column = cursor.column + 1
    BY <1>3 DEF next
  <2>3. IF cursor.at + 1 <= Len(text) /\ text[cursor.at + 1] = "\n"
        THEN /\ Cardinality(Feeds(cursor.at + 1)) = Cardinality(Feeds(cursor.at)) + 1
             /\ Last_(Feeds(cursor.at + 1)) = cursor.at + 1
        ELSE Feeds(cursor.at + 1) = Feeds(cursor.at) /\ Last_(Feeds(cursor.at + 1)) = Last_(Feeds(cursor.at))
    BY <1>1, FeedsGrow
  <2>4. Cardinality(Feeds(cursor.at)) \in Nat
    BY <1>1, FeedsGrow
  <2> QED  BY <1>1, <2>1, <2>2, <2>3, <2>4 DEF Counted
<1> QED  BY <1>2, <1>3

\* At the first character no line feed was counted.
LEMMA PositionsInit ==
  ASSUME NEW texts, LexerInit(texts)
  PROVE  PositionsInv
<1>1. Feeds(1) = {}
  BY DEF Feeds
<1>2. Counted(1, 1, 1)
  BY <1>1, FS_EmptySet DEF Counted, Last_
<1> QED  BY <1>2 DEF LexerInit, PositionsInv, PositionsCount, Start_, Origin

\* A token has the line and column of the place where it began.
LEMMA PositionsNext ==
  ASSUME LexerTypes, PositionsInv, [do_advance]_lexerVars
  PROVE  PositionsInv'
<1>1. CASE UNCHANGED lexerVars
  <2>1. \A at, line, column : Counted(at, line, column)' <=> Counted(at, line, column)
    BY <1>1 DEF lexerVars, Counted, Feeds, Last_
  <2> QED  BY <1>1, <2>1 DEF PositionsInv, PositionsCount, Origin, lexerVars, Counted
<1>2. CASE do_advance
  <2>1. Stepped
    BY <1>2, StepsStepped
  <2>2. \A at, line, column : Counted(at, line, column)' <=> Counted(at, line, column)
    BY <2>1 DEF Stepped, Counted, Feeds, Last_
  <2>3. Counted(cursor'.at, cursor'.line, cursor'.column)
    BY <2>1, NextCounted DEF Stepped, PositionsInv
  <2>4. Origin' \in {cursor', Origin}
    BY <2>1 DEF Stepped, Origin
  <2>5. Counted(Origin'.at, Origin'.line, Origin'.column)
    BY <2>3, <2>4 DEF PositionsInv
  <2>6. \A i \in DOMAIN lexed : Counted(lexed[i].first, lexed[i].line, lexed[i].column)
    BY DEF PositionsInv, PositionsCount, Counted
  <2>7. \A i \in DOMAIN lexed' : Counted(lexed'[i].first, lexed'[i].line, lexed'[i].column)
    <3>1. CASE lexed' = lexed
      BY <2>6, <3>1
    <3>2. CASE \E type \in Types, last \in Int : lexed' = Append(lexed, TokenOf(type, last))
      <4>1. PICK type \in Types, last \in Int : lexed' = Append(lexed, TokenOf(type, last))
        BY <3>2
      <4>2. /\ TokenOf(type, last).first = Origin.at
            /\ TokenOf(type, last).line = Origin.line
            /\ TokenOf(type, last).column = Origin.column
        BY DEF TokenOf
      <4>3. \A i \in DOMAIN lexed' : lexed'[i] = (IF i \in DOMAIN lexed THEN lexed[i] ELSE TokenOf(type, last))
        BY <4>1 DEF LexerTypes
      <4> QED  BY <2>6, <4>2, <4>3 DEF PositionsInv
    <3> QED  BY <2>1, <3>1, <3>2 DEF Stepped
  <2>8. PositionsCount'
    BY <2>2, <2>7 DEF PositionsCount, Counted
  <2> QED  BY <2>2, <2>3, <2>5, <2>8 DEF PositionsInv
<1> QED  BY <1>1, <1>2

(* The line and column the lexer gives a token count the line feeds before *)
(* it and the characters since the last of them.                           *)
THEOREM PositionsAreTrue ==
  ASSUME NEW Characters, NEW texts \in SUBSET Seq(Characters)
  PROVE  LexerSpec(texts) => []PositionsCount
<1>1. LexerInit(texts) => LexerTypes /\ PositionsInv
  BY TypesInit, PositionsInit
<1>2. LexerTypes /\ PositionsInv /\ [do_advance]_lexerVars => (LexerTypes /\ PositionsInv)'
  BY TypesNext, PositionsNext
<1>3. LexerTypes /\ PositionsInv => PositionsCount
  BY DEF PositionsInv
<1> QED  BY <1>1, <1>2, <1>3, PTL DEF LexerSpec

-----------------------------------------------------------------------------
(* White space and comments.                                               *)

\* From one place white space or a comment leads to one other place only.
LEMMA SkippedOnce ==
  ASSUME NEW m \in Nat, NEW n \in Nat, NEW other \in Nat, Skipped(m, n), Skipped(m, other)
  PROVE  n = other
<1>1. CASE is_space(text[m + 1])
  <2>1. text[m + 1] # "/"
    BY <1>1, CharacterClasses, PunctuationAssumption DEF is_space
  <2> QED  BY <2>1 DEF Skipped, OpensAt
<1>2. CASE ~is_space(text[m + 1])
  <2>1. /\ n >= m + 4 /\ {k \in m + 3..n - 1 : ClosesAt(k)} = {n - 1}
        /\ other >= m + 4 /\ {k \in m + 3..other - 1 : ClosesAt(k)} = {other - 1}
    BY <1>2 DEF Skipped
  <2>2. ClosesAt(n - 1) /\ ClosesAt(other - 1)
    BY <2>1
  <2>3. CASE n < other
    <3>1. n - 1 \in {k \in m + 3..other - 1 : ClosesAt(k)}
      BY <2>1, <2>2, <2>3
    <3> QED  BY <2>1, <2>3, <3>1
  <2>4. CASE other < n
    <3>1. other - 1 \in {k \in m + 3..n - 1 : ClosesAt(k)}
      BY <2>1, <2>2, <2>4
    <3> QED  BY <2>1, <2>4, <3>1
  <2> QED  BY <2>3, <2>4
<1> QED  BY <1>1, <1>2

(* The cuts between what is skipped.                                       *)
Adjacent(cuts, m, n) == m < n /\ \A k \in cuts : k <= m \/ n <= k
Cuts(i, j, cuts) ==
  /\ cuts \in SUBSET (i..j) /\ i \in cuts /\ j \in cuts
  /\ \A m, n \in cuts : Adjacent(cuts, m, n) => Skipped(m, n)

\* What is blank can be cut into what is skipped.
LEMMA BlankHasCuts ==
  ASSUME NEW i, NEW j
  PROVE  Blank(i, j) <=> \E cuts : Cuts(i, j, cuts)
  BY DEF Blank, Cuts, Adjacent

\* Between a place and itself there is nothing.
LEMMA NothingIsBlank ==
  ASSUME NEW i \in Nat
  PROVE  Blank(i, i)
<1>1. Cuts(i, i, {i})
  BY DEF Cuts, Adjacent
<1> QED  BY <1>1, BlankHasCuts

(* What is blank may go on.                                                *)
LEMMA BlankGoesOn ==
  ASSUME NEW i \in Nat, NEW j \in Nat, NEW n \in Nat, Blank(i, j), j < n, Skipped(j, n)
  PROVE  Blank(i, n)
<1>1. PICK cuts : Cuts(i, j, cuts)
  BY BlankHasCuts
<1>2. cuts \cup {n} \in SUBSET (i..n) /\ i \in cuts \cup {n} /\ n \in cuts \cup {n}
  BY <1>1 DEF Cuts
<1>3. ASSUME NEW a \in cuts \cup {n}, NEW b \in cuts \cup {n}, Adjacent(cuts \cup {n}, a, b)
      PROVE  Skipped(a, b)
  <2>1. a \in Int /\ b \in Int /\ a < b /\ a <= n /\ b <= n
    BY <1>2, <1>3 DEF Adjacent
  <2>2. a \in cuts /\ a <= j
    BY <1>1, <2>1 DEF Cuts
  <2>3. CASE b = n
    <3>1. j <= a
      BY <1>1, <1>3, <2>1, <2>3 DEF Cuts, Adjacent
    <3> QED  BY <2>2, <2>3, <3>1
  <2>4. CASE b # n
    <3>1. b \in cuts /\ Adjacent(cuts, a, b)
      BY <1>3, <2>4 DEF Adjacent
    <3> QED  BY <1>1, <2>2, <3>1 DEF Cuts
  <2> QED  BY <2>3, <2>4
<1>4. Cuts(i, n, cuts \cup {n})
  BY <1>2, <1>3 DEF Cuts
<1> QED  BY <1>4, BlankHasCuts

\* After every cut but the last comes another one.
LEMMA NextCut ==
  ASSUME NEW i \in Nat, NEW j \in Nat, NEW cuts, Cuts(i, j, cuts), NEW m \in cuts, m < j
  PROVE  \E n \in cuts : Adjacent(cuts, m, n)
<1>1. cuts \in SUBSET Nat /\ j \in cuts
  BY DEF Cuts
<1>2. {n \in cuts : m < n} \in SUBSET Nat /\ {n \in cuts : m < n} # {}
  BY <1>1
<1>3. PICK n \in {n \in cuts : m < n} : \A k \in {x \in cuts : m < x} : n <= k
  BY <1>2, Least, Zenon
<1>4. n \in cuts /\ m < n /\ \A k \in cuts : k <= m \/ n <= k
  BY <1>1, <1>3
<1> QED  BY <1>4 DEF Adjacent

\* Before every cut but the first comes another one.
LEMMA PreviousCut ==
  ASSUME NEW i \in Nat, NEW j \in Nat, NEW cuts, Cuts(i, j, cuts), NEW n \in cuts, i < n
  PROVE  \E m \in cuts : Adjacent(cuts, m, n)
<1>1. cuts \in SUBSET (0..j) /\ i \in cuts /\ j \in Int
  BY DEF Cuts
<1>2. {m \in cuts : m < n} \in SUBSET (0..j) /\ {m \in cuts : m < n} # {}
  BY <1>1
<1>3. PICK m \in {m \in cuts : m < n} : \A k \in {x \in cuts : x < n} : k <= m
  BY <1>1, <1>2, Greatest, Zenon
<1>4. m \in cuts /\ m < n /\ \A k \in cuts : k <= m \/ n <= k
  BY <1>1, <1>3
<1> QED  BY <1>4 DEF Adjacent

(* Where nothing more can be skipped, what is blank ends.                  *)
LEMMA BlankEnds ==
  ASSUME NEW i \in Nat, NEW p \in Nat, NEW j \in Nat, Blank(i, p), p < j,
         \A n \in Nat : n <= j => ~Skipped(p, n)
  PROVE  ~Blank(i, j)
<1> SUFFICES ASSUME Blank(i, j)
             PROVE  FALSE
  OBVIOUS
<1>1. PICK short : Cuts(i, p, short)
  BY BlankHasCuts
<1>2. PICK long : Cuts(i, j, long)
  BY BlankHasCuts
<1>3. short \in SUBSET Nat /\ long \in SUBSET Nat /\ i \in long /\ p \in short
      /\ (\A x \in short : i <= x /\ x <= p) /\ (\A x \in long : x <= j)
  BY <1>1, <1>2 DEF Cuts
<1>4. short \subseteq long
  <2> SUFFICES ASSUME short \ long # {}
               PROVE  FALSE
    OBVIOUS
  <2>1. PICK d \in short \ long : \A x \in short \ long : d <= x
    BY <1>3, Least
  <2>2. d \in short /\ d \notin long /\ d \in Nat /\ i < d /\ d <= p
    BY <1>3, <2>1
  <2>3. PICK before \in short : Adjacent(short, before, d)
    BY <1>1, <2>2, PreviousCut
  <2>4. before \in Nat /\ before < d /\ before \in long /\ before < j
    BY <1>3, <2>1, <2>2, <2>3 DEF Adjacent
  <2>5. PICK c \in long : Adjacent(long, before, c)
    BY <1>2, <2>4, NextCut
  <2>6. Skipped(before, d) /\ Skipped(before, c) /\ c \in Nat
    BY <1>1, <1>2, <1>3, <2>2, <2>3, <2>4, <2>5 DEF Cuts
  <2>7. d = c
    BY <2>2, <2>4, <2>6, SkippedOnce
  <2> QED  BY <2>2, <2>5, <2>7
<1>5. PICK n \in long : Adjacent(long, p, n)
  BY <1>2, <1>3, <1>4, NextCut
<1>6. Skipped(p, n) /\ n \in Nat /\ n <= j
  BY <1>2, <1>3, <1>4, <1>5 DEF Cuts
<1> QED  BY <1>6

-----------------------------------------------------------------------------
(* Lexemes.                                                                *)

\* What a slice of the text is made of.
LEMMA Slice ==
  ASSUME LexerTypes, NEW from \in Nat, from >= 1, NEW n \in from..Len(text)
  PROVE  /\ Len(SubSeq(text, from, n)) = n - from + 1
         /\ SubSeq(text, from, n) # <<>>
         /\ \A k \in from..n : SubSeq(text, from, n)[k - from + 1] = text[k]
         /\ SubSeq(text, from, n)[1] = text[from]
<1>1. PICK Characters : text \in Seq(Characters)
  BY DEF LexerTypes
<1>2. /\ Len(SubSeq(text, from, n)) = n - from + 1
      /\ \A i \in 1..n - from + 1 : SubSeq(text, from, n)[i] = text[from + i - 1]
  BY <1>1
<1>3. \A k \in from..n : k - from + 1 \in 1..n - from + 1 /\ from + (k - from + 1) - 1 = k
  OBVIOUS
<1>4. 1 \in 1..n - from + 1 /\ from + 1 - 1 = from
  OBVIOUS
<1>5. SubSeq(text, from, n) # <<>>
  BY <1>2
<1> QED  BY <1>2, <1>3, <1>4, <1>5

(* How far the lexemes at a place may go, by their first character.        *)
LEMMA LexemeKinds ==
  ASSUME LexerTypes, NEW from \in Nat, from >= 1, NEW n \in LexemeEnds(from)
  PROVE  /\ text[from] \in Letters => \A k \in from..n : is_word_tail(text[k])
         /\ text[from] \in Digits => \A k \in from..n : is_digit(text[k])
         /\ text[from] = "0" => n = from
         /\ text[from] \in DOMAIN First => SubSeq(text, from, n) \in Spellings
         /\ is_word_tail(text[from]) \/ text[from] \in DOMAIN First
<1> DEFINE s == SubSeq(text, from, n)
<1>1. /\ n \in from..Len(text) /\ Lexeme(s)
      /\ Len(s) = n - from + 1 /\ s[1] = text[from]
      /\ \A k \in from..n : s[k - from + 1] = text[k] /\ k - from + 1 \in 1..Len(s)
  BY Slice DEF LexemeEnds
<1> HIDE DEF s
<1>2. \A spelling \in Spellings : spelling[1] \in DOMAIN First
  <2>1. \A type \in Punctuation : Spelled[type] \in Seq(DOMAIN First) /\ Spelled[type] # <<>>
    BY PunctuationAssumption
  <2>2. \A type \in Punctuation : Spelled[type][1] \in DOMAIN First
    BY <2>1
  <2> QED  BY <2>2 DEF Spellings
<1>3. CASE s \in Spellings
  <2>1. text[from] \in DOMAIN First
    BY <1>1, <1>2, <1>3
  <2>2. text[from] \notin Letters /\ text[from] \notin Digits /\ text[from] # "0"
    BY <2>1, CharacterClasses
  <2> QED  BY <1>3, <2>1, <2>2 DEF s
<1>4. CASE is_word_head(s[1]) /\ \A i \in 1..Len(s) : is_word_tail(s[i])
  <2>1. \A k \in from..n : is_word_tail(text[k])
    BY <1>1, <1>4
  <2>2. text[from] \in Letters
    BY <1>1, <1>4 DEF is_word_head
  <2>3. text[from] \notin Digits /\ text[from] # "0" /\ text[from] \notin DOMAIN First
    BY <2>2, CharacterClasses
  <2> QED  BY <2>1, <2>2, <2>3 DEF is_word_tail, is_word_head
<1>5. CASE s = <<"0">>
  <2>1. n = from /\ text[from] = "0"
    BY <1>1, <1>5
  <2> QED  BY <2>1, CharacterClasses DEF is_word_tail, is_digit
<1>6. CASE s[1] \in Digits /\ \A i \in 1..Len(s) : is_digit(s[i])
  <2>1. \A k \in from..n : is_digit(text[k])
    BY <1>1, <1>6
  <2>2. text[from] \in Digits
    BY <1>1, <1>6
  <2>3. text[from] \notin Letters /\ text[from] # "0" /\ text[from] \notin DOMAIN First
    BY <2>2, CharacterClasses
  <2> QED  BY <2>1, <2>2, <2>3 DEF is_word_tail, is_digit
<1> QED  BY <1>1, <1>3, <1>4, <1>5, <1>6 DEF Lexeme

(* The token that ends before the cursor is the longest one.               *)
Longest(from, last) ==
  ~OpensAt(from) /\ last \in LexemeEnds(from) /\ \A n \in LexemeEnds(from) : n <= last

\* The current character, or the end of the input.
LEMMA CharOfCursor ==
  ASSUME LexerTypes
  PROVE  /\ Len(text) \in Nat /\ cursor.at \in Nat /\ cursor.at >= 1 /\ cursor.at <= Len(text) + 1
         /\ AtEnd(cursor) => cursor.at = Len(text) + 1 /\ Char(cursor) = End
         /\ ~AtEnd(cursor) => cursor.at <= Len(text) /\ Char(cursor) = text[cursor.at]
         /\ \A n \in cursor.at..Len(text) : Char(cursor) = text[cursor.at]
  BY DEF LexerTypes, AtEnd, Char, Places

\* A word that no letter or digit follows is the longest lexeme.
LEMMA LongestIdentifier ==
  ASSUME LexerTypes, NEW from \in Nat, from >= 1, from < cursor.at,
         is_word_head(text[from]), \A k \in from..cursor.at - 1 : is_word_tail(text[k]),
         ~is_word_tail(Char(cursor))
  PROVE  Longest(from, cursor.at - 1)
<1> DEFINE last == cursor.at - 1
<1>1. last \in from..Len(text)
  BY CharOfCursor
<1>2. /\ Len(SubSeq(text, from, last)) = last - from + 1 /\ SubSeq(text, from, last) # <<>>
      /\ \A k \in from..last : SubSeq(text, from, last)[k - from + 1] = text[k]
      /\ SubSeq(text, from, last)[1] = text[from]
  BY <1>1, Slice
<1>3. \A i \in 1..last - from + 1 : from + i - 1 \in from..last /\ (from + i - 1) - from + 1 = i
  BY <1>1
<1>4. \A i \in 1..last - from + 1 : is_word_tail(SubSeq(text, from, last)[i])
  BY <1>2, <1>3
<1>5. last \in LexemeEnds(from)
  BY <1>1, <1>2, <1>4 DEF LexemeEnds, Lexeme
<1>6. ~OpensAt(from)
  BY CharacterClasses, PunctuationAssumption DEF OpensAt, is_word_head
<1>7. ASSUME NEW n \in LexemeEnds(from), n > last
      PROVE  FALSE
  <2>1. n \in from..Len(text) /\ cursor.at \in from..n /\ n \in cursor.at..Len(text)
    BY <1>7, CharOfCursor DEF LexemeEnds
  <2>2. is_word_tail(text[cursor.at])
    BY <2>1, LexemeKinds DEF is_word_head
  <2> QED  BY <2>1, <2>2, CharOfCursor
<1>8. \A n \in LexemeEnds(from) : n <= last
  BY <1>1, <1>7 DEF LexemeEnds
<1> QED  BY <1>5, <1>6, <1>8 DEF Longest

\* So are digits that no digit follows.
LEMMA LongestNumber ==
  ASSUME LexerTypes, NEW from \in Nat, from >= 1, from < cursor.at,
         text[from] \in Digits, \A k \in from..cursor.at - 1 : is_digit(text[k]),
         ~is_digit(Char(cursor))
  PROVE  Longest(from, cursor.at - 1)
<1> DEFINE last == cursor.at - 1
<1>1. last \in from..Len(text)
  BY CharOfCursor
<1>2. /\ Len(SubSeq(text, from, last)) = last - from + 1 /\ SubSeq(text, from, last) # <<>>
      /\ \A k \in from..last : SubSeq(text, from, last)[k - from + 1] = text[k]
      /\ SubSeq(text, from, last)[1] = text[from]
  BY <1>1, Slice
<1>3. \A i \in 1..last - from + 1 : from + i - 1 \in from..last /\ (from + i - 1) - from + 1 = i
  BY <1>1
<1>4. \A i \in 1..last - from + 1 : is_digit(SubSeq(text, from, last)[i])
  BY <1>2, <1>3
<1>5. last \in LexemeEnds(from)
  BY <1>1, <1>2, <1>4 DEF LexemeEnds, Lexeme
<1>6. ~OpensAt(from)
  BY CharacterClasses, PunctuationAssumption DEF OpensAt
<1>7. ASSUME NEW n \in LexemeEnds(from), n > last
      PROVE  FALSE
  <2>1. n \in from..Len(text) /\ cursor.at \in from..n /\ n \in cursor.at..Len(text)
    BY <1>7, CharOfCursor DEF LexemeEnds
  <2>2. is_digit(text[cursor.at])
    BY <2>1, LexemeKinds
  <2> QED  BY <2>1, <2>2, CharOfCursor
<1>8. \A n \in LexemeEnds(from) : n <= last
  BY <1>1, <1>7 DEF LexemeEnds
<1> QED  BY <1>5, <1>6, <1>8 DEF Longest

\* A slice of one character.
LEMMA SliceOfOne ==
  ASSUME LexerTypes, NEW n \in Nat, n >= 1, n <= Len(text)
  PROVE  SubSeq(text, n, n) = <<text[n]>>
<1>1. Len(SubSeq(text, n, n)) = 1 /\ SubSeq(text, n, n)[1] = text[n]
  BY Slice, CharOfCursor
<1>2. PICK Characters : text \in Seq(Characters)
  BY DEF LexerTypes
<1>3. SubSeq(text, n, n) \in Seq(Characters) /\ text[n] \in Characters
  BY <1>2
<1>4. PICK one : one = <<text[n]>>
  OBVIOUS
<1>5. one \in Seq(Characters) /\ Len(one) = 1 /\ one[1] = text[n]
  BY <1>3, <1>4
<1>6. \A i \in 1..Len(one) : SubSeq(text, n, n)[i] = one[i]
  BY <1>1, <1>5
<1>7. SubSeq(text, n, n) = one
  BY <1>1, <1>3, <1>5, <1>6, SeqEqual
<1> QED  BY <1>4, <1>7

\* Nothing continues a zero.
LEMMA LongestZero ==
  ASSUME LexerTypes, NEW from \in Nat, from >= 1, from <= Len(text), text[from] = "0"
  PROVE  Longest(from, from)
<1>2. SubSeq(text, from, from) = <<"0">>
  BY SliceOfOne, CharOfCursor
<1>3. from \in LexemeEnds(from)
  BY <1>2, CharOfCursor DEF LexemeEnds, Lexeme
<1>4. ~OpensAt(from)
  BY DEF OpensAt
<1>5. \A n \in LexemeEnds(from) : n <= from
  BY LexemeKinds
<1> QED  BY <1>3, <1>4, <1>5 DEF Longest

\* One character more of the text.
LEMMA SliceGrows ==
  ASSUME LexerTypes, NEW from \in Nat, from >= 1, from < cursor.at, ~AtEnd(cursor)
  PROVE  SubSeq(text, from, cursor.at) = Append(SubSeq(text, from, cursor.at - 1), Char(cursor))
<1>1. PICK Characters : text \in Seq(Characters)
  BY DEF LexerTypes
<1>2. from \in 1..Len(text) /\ cursor.at \in from..Len(text) /\ Char(cursor) = text[cursor.at]
  BY CharOfCursor
<1>3. SubSeq(text, from, cursor.at) = SubSeq(text, from, cursor.at - 1) \o <<text[cursor.at]>>
  BY <1>1, <1>2, SubSeqRecursiveSecond
<1>4. SubSeq(text, from, cursor.at - 1) \in Seq(Characters) /\ text[cursor.at] \in Characters
  BY <1>1, <1>2
<1> QED  BY <1>2, <1>3, <1>4, AppendIsConcat

\* An operator that no character makes another one is the longest lexeme.
LEMMA LongestPunctuation ==
  ASSUME LexerTypes, NEW from \in Nat, from >= 1, from < cursor.at, NEW type \in Punctuation,
         SubSeq(text, from, cursor.at - 1) = Spelled[type],
         <<type, Char(cursor)>> \notin DOMAIN Longer, ~(type = "divide" /\ Char(cursor) = "*")
  PROVE  Longest(from, cursor.at - 1)
<1> DEFINE last == cursor.at - 1
           size == cursor.at - from
<1>0. PICK Characters : text \in Seq(Characters)
  BY DEF LexerTypes
<1>1. last \in from..Len(text)
  BY CharOfCursor
<1>2. /\ Len(Spelled[type]) = size /\ Spelled[type] # <<>>
      /\ \A k \in from..last : Spelled[type][k - from + 1] = text[k]
      /\ Spelled[type][1] = text[from] /\ text[from] \in DOMAIN First
      /\ Spelled[type] \in Seq(DOMAIN First)
  <2>1. /\ Len(Spelled[type]) = size /\ Spelled[type] # <<>>
        /\ \A k \in from..last : Spelled[type][k - from + 1] = text[k]
        /\ Spelled[type][1] = text[from]
    BY <1>1, Slice, CharOfCursor
  <2>2. Spelled[type] \in Seq(DOMAIN First) /\ Spelled[type] # <<>>
    BY PunctuationAssumption
  <2>3. Spelled[type][1] \in DOMAIN First
    BY <2>2
  <2> QED  BY <2>1, <2>2, <2>3
<1>3. last \in LexemeEnds(from)
  BY <1>1 DEF LexemeEnds, Lexeme, Spellings
<1>4. ~OpensAt(from)
  <2> SUFFICES ASSUME OpensAt(from)
               PROVE  FALSE
    OBVIOUS
  <2>1. from + 1 <= Len(text) /\ text[from] = "/" /\ text[from + 1] = "*"
    BY DEF OpensAt
  <2>2. CASE size = 1
    <3>1. Spelled[type] = <<"/">>
      BY <1>2, <2>1, <2>2
    <3>2. type = "divide"
      BY <3>1, PunctuationAssumption
    <3>3. Char(cursor) = "*"
      <4>1. cursor.at = from + 1
        BY <2>2, CharOfCursor
      <4> QED  BY <2>1, <4>1, CharOfCursor
    <3> QED  BY <3>2, <3>3
  <2>3. CASE size > 1
    <3>1. from + 1 \in from..last /\ from + 1 - from + 1 = 2
      BY <2>3, CharOfCursor
    <3>2. Spelled[type][1] = "/" /\ Spelled[type][2] = "*" /\ Len(Spelled[type]) > 1
      BY <1>2, <2>1, <2>3, <3>1
    <3>3. <<Spelled[type][1], Spelled[type][2]>> # <<"/", "*">>
      BY <3>2, PunctuationAssumption
    <3> QED  BY <3>2, <3>3
  <2> QED  BY <2>2, <2>3, CharOfCursor
<1>5. ASSUME NEW n \in LexemeEnds(from), n > last
      PROVE  FALSE
  <2>1. n \in from..Len(text) /\ cursor.at \in from..n /\ n \in cursor.at..Len(text)
    BY <1>5, CharOfCursor DEF LexemeEnds
  <2>2. PICK other \in Punctuation : SubSeq(text, from, n) = Spelled[other]
    BY <1>2, LexemeKinds DEF Spellings
  <2>3. /\ Len(Spelled[other]) = n - from + 1
        /\ \A k \in from..n : Spelled[other][k - from + 1] = text[k]
    <3>1. /\ Len(SubSeq(text, from, n)) = n - from + 1
          /\ \A k \in from..n : SubSeq(text, from, n)[k - from + 1] = text[k]
      BY <2>1, Slice
    <3> QED  BY <2>2, <3>1
  <2>4. Spelled[other][size + 1] = Char(cursor)
    BY <2>1, <2>3, CharOfCursor
  <2>5. SubSeq(Spelled[other], 1, size) = Spelled[type]
    <3>1. Spelled[other] \in Seq(Characters) /\ Spelled[type] \in Seq(Characters)
      <4>1. SubSeq(text, from, n) \in Seq(Characters) /\ SubSeq(text, from, last) \in Seq(Characters)
        BY <1>0, <1>1, <2>1
      <4> QED  BY <2>2, <4>1
    <3>2. /\ SubSeq(Spelled[other], 1, size) \in Seq(Characters)
          /\ Len(SubSeq(Spelled[other], 1, size)) = size
          /\ \A i \in 1..size : SubSeq(Spelled[other], 1, size)[i] = Spelled[other][i]
      <4>1. size \in Int /\ 1 <= size /\ \A i \in 1..size : Spelled[other][i] \in Characters
        <5>1. size \in Int /\ 1 <= size /\ size <= Len(Spelled[other])
          BY <2>1, <2>3, CharOfCursor
        <5> HIDE DEF size
        <5> QED  BY <3>1, <5>1, ElementOfSeq
      <4>2. \A i \in 1..size - 1 + 1 : SubSeq(Spelled[other], 1, size)[i] = Spelled[other][1 + i - 1]
        BY <4>1, SubSeqProperties
      <4>3. SubSeq(Spelled[other], 1, size) \in Seq(Characters) /\ Len(SubSeq(Spelled[other], 1, size)) = size - 1 + 1
        BY <4>1, SubSeqProperties
      <4> QED  BY <4>1, <4>2, <4>3
    <3>3. \A i \in 1..size : from + i - 1 \in from..last /\ from + i - 1 \in from..n
                             /\ (from + i - 1) - from + 1 = i
      BY <2>1, CharOfCursor
    <3>4. \A i \in 1..size : SubSeq(Spelled[other], 1, size)[i] = Spelled[type][i]
      BY <1>2, <2>3, <3>2, <3>3
    <3> QED  BY <1>2, <3>1, <3>2, <3>4, SeqEqual
  <2>6. Len(Spelled[type]) < Len(Spelled[other])
    BY <1>2, <2>1, <2>3, CharOfCursor
  <2>7. <<type, Spelled[other][Len(Spelled[type]) + 1]>> \in DOMAIN Longer
    BY <1>2, <2>5, <2>6, PunctuationAssumption
  <2> QED  BY <1>2, <2>4, <2>7
<1>6. \A n \in LexemeEnds(from) : n <= last
  BY <1>1, <1>5 DEF LexemeEnds
<1> QED  BY <1>3, <1>4, <1>6 DEF Longest

-----------------------------------------------------------------------------
(* The longest tokens.                                                     *)

(* What is known of the characters from the place where a token or comment *)
(* began to the cursor.                                                    *)
PartOfToken(type, from, to) ==
  /\ from < to
  /\ type = "identifier" =>
       is_word_head(text[from]) /\ \A k \in from..to - 1 : is_word_tail(text[k])
  /\ type = "integer_literal" =>
       text[from] \in Digits /\ \A k \in from..to - 1 : is_digit(text[k])
  /\ type \in Punctuation => SubSeq(text, from, to - 1) = Spelled[type]
PartOfComment(q, from, to) ==
  /\ from + 2 <= to /\ OpensAt(from)
  /\ \A k \in from + 2..to - 2 : ~ClosesAt(k)
  /\ q = "q1" <=> (from + 3 <= to /\ text[to - 1] = "*")

Partial ==
  /\ scanning.of = "token" => PartOfToken(scanning.type, Origin.at, cursor.at)
  /\ scanning.of = "comment" => PartOfComment(scanning.q, Origin.at, cursor.at)

(* While the lexer runs, it has skipped to where it reads the next token.  *)
LongestInv ==
  /\ TokensAreLongest
  /\ status = "running" => Blank(Used(Len(lexed) + 1), Origin.at - 1) /\ Partial

\* What is said of the text alone is true as long as the text is.
LEMMA TextStays ==
  ASSUME text' = text
  PROVE  /\ \A n : OpensAt(n)' <=> OpensAt(n)
         /\ \A n : LexemeEnds(n)' = LexemeEnds(n)
         /\ \A i, j : Blank(i, j)' <=> Blank(i, j)
         /\ \A t : LongestAt(t)' <=> LongestAt(t)
         /\ \A type, from, to : PartOfToken(type, from, to)' <=> PartOfToken(type, from, to)
         /\ \A q, from, to : PartOfComment(q, from, to)' <=> PartOfComment(q, from, to)
<1>1. \A n : (OpensAt(n)' <=> OpensAt(n)) /\ (ClosesAt(n)' <=> ClosesAt(n))
  BY DEF OpensAt, ClosesAt
<1>2. \A n : LexemeEnds(n)' = LexemeEnds(n)
  BY DEF LexemeEnds
<1>3. \A m, n : Skipped(m, n)' <=> Skipped(m, n)
  BY <1>1 DEF Skipped
<1>4. \A i, j : Blank(i, j)' <=> Blank(i, j)
  BY <1>3 DEF Blank
<1>5. \A t : LongestAt(t)' <=> LongestAt(t)
  BY <1>1, <1>2 DEF LongestAt
<1>6. \A type, from, to : PartOfToken(type, from, to)' <=> PartOfToken(type, from, to)
  BY DEF PartOfToken
<1>7. \A q, from, to : PartOfComment(q, from, to)' <=> PartOfComment(q, from, to)
  BY <1>1 DEF PartOfComment
<1> QED  BY <1>1, <1>2, <1>4, <1>5, <1>6, <1>7

\* The tokens before stay what they are.
LEMMA TokensStay ==
  ASSUME TokensAreLongest, text' = text, lexed' = lexed
  PROVE  /\ \A n : Used(n)' = Used(n)
         /\ \A i \in DOMAIN lexed' : (Blank(Used(i), lexed[i].first - 1) /\ LongestAt(lexed[i]))'
<1>1. \A n : Used(n)' = Used(n)
  BY DEF Used
<1>2. \A i \in DOMAIN lexed : Blank(Used(i), lexed[i].first - 1) /\ LongestAt(lexed[i])
  BY DEF TokensAreLongest
<1>3. \A i : /\ (Blank(Used(i), lexed[i].first - 1))' <=> Blank(Used(i), lexed[i].first - 1)
             /\ LongestAt(lexed[i])' <=> LongestAt(lexed[i])
  BY <1>1, TextStays
<1> QED  BY <1>1, <1>2, <1>3

\* A step that goes on with what is read, or goes on to the next.
LEMMA GoesOn ==
  ASSUME LongestInv, text' = text, lexed' = lexed, status' = "running",
         Blank(Used(Len(lexed) + 1), Origin'.at - 1), Partial'
  PROVE  LongestInv'
<1>1. (Blank(Used(Len(lexed) + 1), Origin.at - 1))'
  BY TokensStay, TextStays DEF LongestInv
<1> QED  BY <1>1, TokensStay DEF LongestInv, TokensAreLongest

\* A step at which a token is complete.
LEMMA Emits ==
  ASSUME LexerTypes, LongestInv, status = "running", NEW type \in Types,
         NEW to \in {cursor, next(cursor)}, Token_(type, Origin, to),
         Longest(Origin.at, to.at - 1)
  PROVE  LongestInv'
<1> DEFINE t == TokenOf(type, to.at - 1)
<1>1. /\ lexed' = Append(lexed, t) /\ cursor' = to /\ scanning' = Nothing
      /\ text' = text /\ status' = status
  BY DEF Token_, TokenOf
<1>2. t.first = Origin.at /\ t.last = to.at - 1
  BY DEF TokenOf
<1> HIDE DEF t
<1>3. LongestAt(t) /\ Blank(Used(Len(lexed) + 1), t.first - 1)
  BY <1>2 DEF LongestInv, LongestAt, Longest
<1>4. PICK n : n = Len(lexed) + 1
  OBVIOUS
<1>5. /\ n \in Nat /\ n >= 1 /\ DOMAIN lexed = 1..n - 1
      /\ DOMAIN lexed' = 1..n /\ Len(lexed') = n
      /\ \A i \in 1..n - 1 : lexed'[i] = lexed[i]
      /\ lexed'[n] = t
  BY <1>1, <1>4 DEF LexerTypes
<1>6. \A i \in 1..n : Used(i)' = Used(i)
  BY <1>5 DEF Used
<1>7. \A i \in 1..n - 1 : (Blank(Used(i), lexed[i].first - 1) /\ LongestAt(lexed[i]))'
  <2>1. \A i \in 1..n - 1 : Blank(Used(i), lexed[i].first - 1) /\ LongestAt(lexed[i])
    BY <1>5 DEF LongestInv, TokensAreLongest
  <2> QED  BY <1>1, <1>5, <1>6, <2>1, TextStays
<1>8. (Blank(Used(n), lexed[n].first - 1) /\ LongestAt(lexed[n]))'
  BY <1>1, <1>3, <1>4, <1>5, <1>6, TextStays
<1>9. \A i \in DOMAIN lexed' : (Blank(Used(i), lexed[i].first - 1) /\ LongestAt(lexed[i]))'
  BY <1>5, <1>7, <1>8
<1>10. Used(n + 1)' = to.at - 1 /\ to.at - 1 \in Nat
  <2>1. to.at - 1 \in Nat
    BY NextTyped DEF LexerTypes
  <2> QED  BY <1>2, <1>5, <2>1 DEF Used
<1>11. (Blank(Used(Len(lexed) + 1), Origin.at - 1) /\ Partial)'
  <2>1. Blank(to.at - 1, to.at - 1)
    BY <1>10, NothingIsBlank
  <2>2. Origin' = to
    BY <1>1 DEF Origin
  <2> QED  BY <1>1, <1>5, <1>10, <2>1, <2>2, TextStays DEF Partial, Nothing
<1> QED  BY <1>1, <1>9, <1>11 DEF LongestInv, TokensAreLongest

\* A step with which the lexer ends.
LEMMA Stops ==
  ASSUME LongestInv, text' = text, lexed' = lexed, status' # "running",
         status' = "eof" => Blank(Used(Len(lexed) + 1), Len(text)),
         status' = "lexical_error" =>
           /\ ~Blank(Used(Len(lexed) + 1), Len(text))
           /\ \E n \in Used(Len(lexed) + 1)..Len(text) - 1 :
                Blank(Used(Len(lexed) + 1), n) /\ (OpensAt(n + 1) \/ LexemeEnds(n + 1) = {})
  PROVE  LongestInv'
<1>1. (Used(Len(lexed) + 1))' = Used(Len(lexed) + 1)
  BY TokensStay DEF LongestInv
<1>2. PICK used : used = Used(Len(lexed) + 1)
  OBVIOUS
<1>3. (Blank(used, Len(text)))' <=> Blank(used, Len(text))
  BY TextStays
<1>4. \A n : (Blank(used, n)' <=> Blank(used, n)) /\ (OpensAt(n + 1)' <=> OpensAt(n + 1))
             /\ LexemeEnds(n + 1)' = LexemeEnds(n + 1)
  BY TextStays
<1>5. \A i \in DOMAIN lexed' : (Blank(Used(i), lexed[i].first - 1) /\ LongestAt(lexed[i]))'
  BY TokensStay DEF LongestInv
<1>6. TokensAreLongest'
  BY <1>1, <1>2, <1>3, <1>4, <1>5 DEF TokensAreLongest
<1> QED  BY <1>6 DEF LongestInv

\* A step that begins a token.
LEMMA BeginsPart ==
  ASSUME LexerTypes, LongestInv, NEW type \in Types, Begin(type), ~AtEnd(cursor),
         PartOfToken(type, cursor.at, cursor.at + 1)
  PROVE  LongestInv'
<1>1. /\ text' = text /\ lexed' = lexed /\ status = "running" /\ status' = "running"
      /\ scanning = Nothing /\ cursor' = next(cursor)
      /\ scanning' = [of |-> "token", type |-> type, from |-> cursor]
  BY DEF Begin, Between, Advance
<1>2. Origin = cursor /\ Origin' = cursor /\ cursor'.at = cursor.at + 1
  BY <1>1, NextTyped DEF Origin, Nothing
<1>3. Partial'
  BY <1>1, <1>2, TextStays DEF Partial
<1>4. Blank(Used(Len(lexed) + 1), Origin'.at - 1)
  BY <1>1, <1>2 DEF LongestInv
<1> QED  BY <1>1, <1>3, <1>4, GoesOn

\* A step that adds a character to it.
LEMMA ContinuesPart ==
  ASSUME LexerTypes, LongestInv, NEW type \in Types, Continue(type), ~AtEnd(cursor),
         scanning.of = "token", status = "running",
         PartOfToken(type, Origin.at, cursor.at + 1)
  PROVE  LongestInv'
<1>1. /\ text' = text /\ lexed' = lexed /\ status' = "running" /\ cursor' = next(cursor)
      /\ scanning' = [of |-> "token", type |-> type, from |-> Origin]
  BY ScannedFields DEF Continue, Advance
<1>2. Origin' = Origin /\ cursor'.at = cursor.at + 1
  BY <1>1, NextTyped DEF Origin, Nothing
<1>3. Partial'
  BY <1>1, <1>2, TextStays DEF Partial
<1>4. Blank(Used(Len(lexed) + 1), Origin'.at - 1)
  BY <1>2 DEF LongestInv
<1> QED  BY <1>1, <1>3, <1>4, GoesOn

\* The end of the input is no character.
LEMMA NoCharacterAtEnd ==
  ASSUME LexerTypes, \/ is_space(Char(cursor)) \/ is_word_tail(Char(cursor))
                     \/ Char(cursor) \in DOMAIN First
  PROVE  ~AtEnd(cursor) /\ cursor.at <= Len(text) /\ Char(cursor) = text[cursor.at]
<1>1. End \notin Spaces /\ End \notin Letters /\ End \notin Digits /\ End \notin DOMAIN First /\ End # "0"
  BY CharacterClasses DEF End
<1>2. Char(cursor) # End
  BY <1>1 DEF is_space, is_word_tail, is_word_head, is_digit
<1> QED  BY <1>2, CharOfCursor

\* The last token ends at a place of the text.
LEMMA UsedTyped ==
  ASSUME LexerTypes, LongestInv
  PROVE  Used(Len(lexed) + 1) \in Nat
<1>1. Len(lexed) \in Nat /\ DOMAIN lexed = 1..Len(lexed)
  BY DEF LexerTypes
<1>2. CASE Len(lexed) = 0
  BY <1>2 DEF Used
<1>3. CASE Len(lexed) # 0
  <2>1. Len(lexed) \in DOMAIN lexed /\ Used(Len(lexed) + 1) = lexed[Len(lexed)].last
    BY <1>1, <1>3 DEF Used
  <2>2. lexed[Len(lexed)].last \in LexemeEnds(lexed[Len(lexed)].first)
    BY <2>1 DEF LongestInv, TokensAreLongest, LongestAt
  <2>3. lexed[Len(lexed)].first \in Nat
    <3>1. lexed[Len(lexed)] \in Tokens
      BY <2>1, ElementOfSeq DEF LexerTypes
    <3> QED  BY <3>1 DEF Tokens
  <2> QED  BY <2>1, <2>2, <2>3 DEF LexemeEnds
<1> QED  BY <1>2, <1>3

\* One lemma for each action.
LEMMA WhiteSpaceStep ==
  ASSUME LexerTypes, LongestInv, skip_white_space
  PROVE  LongestInv'
<1>1. /\ text' = text /\ lexed' = lexed /\ status = "running" /\ status' = "running"
      /\ scanning = Nothing /\ scanning' = Nothing /\ cursor' = next(cursor)
  BY DEF skip_white_space, Between, Advance
<1>2. Origin = cursor /\ Origin' = cursor' /\ ~AtEnd(cursor)
  BY <1>1, NoCharacterAtEnd DEF Origin, skip_white_space
<1>3. Skipped(cursor.at - 1, cursor.at)
  BY NoCharacterAtEnd, CharOfCursor DEF skip_white_space, Skipped
<1>4. Origin'.at = cursor.at + 1 /\ cursor.at \in Nat /\ cursor.at - 1 \in Nat
  BY <1>1, <1>2, NextTyped, CharOfCursor
<1>5. Used(Len(lexed) + 1) \in Nat
  BY UsedTyped
<1>6. Blank(Used(Len(lexed) + 1), Origin'.at - 1)
  BY <1>1, <1>2, <1>3, <1>4, <1>5, BlankGoesOn DEF LongestInv
<1>7. Partial'
  BY <1>1 DEF Partial, Nothing
<1> QED  BY <1>1, <1>6, <1>7, GoesOn

LEMMA EndStep ==
  ASSUME LexerTypes, LongestInv, EndOfInput
  PROVE  LongestInv'
<1>1. /\ text' = text /\ lexed' = lexed /\ status = "running" /\ status' = "eof"
      /\ scanning = Nothing /\ AtEnd(cursor)
  BY DEF EndOfInput, Between
<1>2. Origin.at - 1 = Len(text)
  BY <1>1, CharOfCursor DEF Origin
<1>3. Blank(Used(Len(lexed) + 1), Len(text))
  BY <1>1, <1>2 DEF LongestInv
<1> QED  BY <1>1, <1>3, Stops

\* What is blank does not end before it begins.
LEMMA BlankForward ==
  ASSUME NEW i \in Nat, NEW j \in Nat, Blank(i, j)
  PROVE  i <= j
  BY DEF Blank

\* The lexer stops where nothing can be skipped and no lexeme begins.
LEMMA StopsAt ==
  ASSUME LexerTypes, LongestInv, text' = text, lexed' = lexed, status' = "lexical_error",
         NEW p \in Nat, p < Len(text), Blank(Used(Len(lexed) + 1), p),
         \A n \in Nat : n <= Len(text) => ~Skipped(p, n),
         OpensAt(p + 1) \/ LexemeEnds(p + 1) = {}
  PROVE  LongestInv'
<1>1. Used(Len(lexed) + 1) \in Nat /\ Len(text) \in Nat
  BY UsedTyped, CharOfCursor
<1>2. ~Blank(Used(Len(lexed) + 1), Len(text))
  BY <1>1, BlankEnds
<1>3. p \in Used(Len(lexed) + 1)..Len(text) - 1
  BY <1>1, BlankForward
<1> QED  BY <1>2, <1>3, Stops

LEMMA InvalidStep ==
  ASSUME LexerTypes, LongestInv, InvalidInput
  PROVE  LongestInv'
<1>1. /\ text' = text /\ lexed' = lexed /\ status = "running" /\ status' = "lexical_error"
      /\ scanning = Nothing /\ ~AtEnd(cursor) /\ ~is_space(Char(cursor))
      /\ ~is_word_tail(Char(cursor)) /\ Char(cursor) \notin DOMAIN First
  BY DEF InvalidInput, Between
<1>2. PICK p : p = cursor.at - 1
  OBVIOUS
<1>3. p \in Nat /\ p < Len(text) /\ p + 1 = cursor.at /\ Char(cursor) = text[p + 1]
  BY <1>1, <1>2, CharOfCursor
<1>4. Blank(Used(Len(lexed) + 1), p)
  BY <1>1, <1>2 DEF LongestInv, Origin
<1>5. text[p + 1] # "/"
  BY <1>1, <1>3, PunctuationAssumption
<1>6. \A n \in Nat : ~Skipped(p, n)
  <2>1. \A n \in Nat : n = p + 1 => ~is_space(text[n])
    BY <1>1, <1>3
  <2> QED  BY <1>5, <2>1 DEF Skipped, OpensAt
<1>7. LexemeEnds(p + 1) = {}
  <2> SUFFICES ASSUME NEW n \in LexemeEnds(p + 1)
               PROVE  FALSE
    OBVIOUS
  <2>1. is_word_tail(text[p + 1]) \/ text[p + 1] \in DOMAIN First
    BY <1>3, LexemeKinds
  <2> QED  BY <1>1, <1>3, <2>1
<1> QED  BY <1>1, <1>3, <1>4, <1>6, <1>7, StopsAt

LEMMA OpenStep ==
  ASSUME LexerTypes, LongestInv, OpenComment
  PROVE  LongestInv'
<1>1. /\ text' = text /\ lexed' = lexed /\ status = "running" /\ status' = "running"
      /\ scanning.of = "token" /\ scanning.type \in Punctuation /\ scanning.type = "divide"
      /\ Char(cursor) = "*" /\ cursor' = next(cursor) /\ Origin = scanning.from
      /\ scanning' = [of |-> "comment", q |-> "q0", from |-> Origin]
  BY ScannedFields DEF OpenComment, Within, OpensComment, Advance
<1>2. ~AtEnd(cursor) /\ cursor.at <= Len(text) /\ text[cursor.at] = "*"
  BY <1>1, CharOfCursor DEF End
<1>3. PICK from : from = Origin.at
  OBVIOUS
<1>4. from \in Nat /\ from >= 1
  BY <1>3, ScannedFields
<1>5. from < cursor.at /\ SubSeq(text, from, cursor.at - 1) = Spelled["divide"]
  BY <1>1, <1>3 DEF LongestInv, Partial, PartOfToken
<1>6. Spelled["divide"] = <<"/">>
  BY <1>1, PunctuationAssumption
<1>7. cursor.at = from + 1 /\ text[from] = "/"
  <2>1. /\ Len(SubSeq(text, from, cursor.at - 1)) = cursor.at - 1 - from + 1
        /\ SubSeq(text, from, cursor.at - 1)[1] = text[from]
    BY <1>2, <1>4, <1>5, Slice, CharOfCursor
  <2>2. PICK one : one = <<"/">>
    OBVIOUS
  <2>3. Len(one) = 1 /\ one[1] = "/"
    BY <2>2
  <2>4. SubSeq(text, from, cursor.at - 1) = one
    BY <1>5, <1>6, <2>2
  <2>5. 1 = cursor.at - 1 - from + 1 /\ text[from] = "/"
    BY <2>1, <2>3, <2>4
  <2>6. cursor.at \in Nat
    BY CharOfCursor
  <2> QED  BY <1>4, <2>5, <2>6
<1>8. PartOfComment("q0", from, cursor.at + 1)
  BY <1>2, <1>4, <1>7, CharOfCursor DEF PartOfComment, OpensAt
<1>9. Origin' = Origin /\ cursor'.at = cursor.at + 1
  BY <1>1, <1>2, NextTyped DEF Origin, Nothing
<1>10. Partial'
  BY <1>1, <1>3, <1>8, <1>9, TextStays DEF Partial
<1>11. Blank(Used(Len(lexed) + 1), Origin'.at - 1)
  BY <1>1, <1>9 DEF LongestInv
<1> QED  BY <1>1, <1>10, <1>11, GoesOn

\* A comment that ends with the input is skipped by nothing.
LEMMA OpenCommentEnds ==
  ASSUME LexerTypes, NEW q, NEW from \in Nat, from >= 1, PartOfComment(q, from, Len(text) + 1)
  PROVE  \A n \in Nat : n <= Len(text) => ~Skipped(from - 1, n)
<1> SUFFICES ASSUME NEW n \in Nat, n <= Len(text), Skipped(from - 1, n)
             PROVE  FALSE
  OBVIOUS
<1>1. Len(text) \in Nat /\ OpensAt(from) /\ \A k \in from + 2..Len(text) - 1 : ~ClosesAt(k)
  BY CharOfCursor DEF PartOfComment
<1>2. ~is_space(text[from])
  BY <1>1, CharacterClasses, PunctuationAssumption DEF OpensAt, is_space
<1>3. n >= from + 3 /\ {k \in from + 2..n - 1 : ClosesAt(k)} = {n - 1}
  BY <1>2 DEF Skipped
<1>4. n - 1 \in from + 2..Len(text) - 1 /\ ClosesAt(n - 1)
  BY <1>1, <1>3
<1> QED  BY <1>1, <1>4

\* A comment is skipped up to the first star and slash in it.
LEMMA CommentSkipped ==
  ASSUME LexerTypes, NEW from \in Nat, from >= 1, PartOfComment("q1", from, cursor.at),
         ~AtEnd(cursor), Char(cursor) = "/"
  PROVE  Skipped(from - 1, cursor.at)
<1>1. /\ Len(text) \in Nat /\ OpensAt(from) /\ \A k \in from + 2..cursor.at - 2 : ~ClosesAt(k)
      /\ from + 3 <= cursor.at /\ text[cursor.at - 1] = "*"
      /\ cursor.at \in Nat /\ cursor.at <= Len(text) /\ text[cursor.at] = "/"
  BY CharOfCursor DEF PartOfComment
<1>2. ClosesAt(cursor.at - 1)
  BY <1>1 DEF ClosesAt
<1>3. \A k \in from + 2..cursor.at - 1 : ClosesAt(k) <=> k = cursor.at - 1
  BY <1>1, <1>2
<1>4. {k \in from + 2..cursor.at - 1 : ClosesAt(k)} = {cursor.at - 1}
  BY <1>1, <1>3
<1> QED  BY <1>1, <1>4 DEF Skipped

\* A comment goes on with every other character.
LEMMA CommentGoesOn ==
  ASSUME LexerTypes, NEW q, NEW from \in Nat, from >= 1, PartOfComment(q, from, cursor.at),
         ~AtEnd(cursor), CommentState(q, Char(cursor)) # "q2"
  PROVE  PartOfComment(CommentState(q, Char(cursor)), from, cursor.at + 1)
<1>1. /\ from + 2 <= cursor.at /\ OpensAt(from) /\ \A k \in from + 2..cursor.at - 2 : ~ClosesAt(k)
      /\ q = "q1" <=> (from + 3 <= cursor.at /\ text[cursor.at - 1] = "*")
      /\ cursor.at \in Nat /\ Char(cursor) = text[cursor.at]
  BY CharOfCursor DEF PartOfComment
<1>2. from + 2 <= cursor.at - 1 => ~ClosesAt(cursor.at - 1)
  BY <1>1 DEF ClosesAt, CommentState
<1>3. \A k \in from + 2..cursor.at - 1 : ~ClosesAt(k)
  BY <1>1, <1>2
<1>4. CommentState(q, Char(cursor)) = "q1" <=> text[cursor.at] = "*"
  BY <1>1 DEF CommentState
<1>5. cursor.at + 1 - 1 = cursor.at /\ cursor.at + 1 - 2 = cursor.at - 1 /\ from + 3 <= cursor.at + 1
  BY <1>1
<1> QED  BY <1>1, <1>3, <1>4, <1>5 DEF PartOfComment

LEMMA CommentStep ==
  ASSUME LexerTypes, LongestInv, skip_block_comment
  PROVE  LongestInv'
<1>1. text' = text /\ lexed' = lexed /\ status = "running" /\ scanning.of = "comment"
  BY DEF skip_block_comment
<1>2. PICK from : from = Origin.at
  OBVIOUS
<1>3. /\ from \in Nat /\ from >= 1 /\ PartOfComment(scanning.q, from, cursor.at)
      /\ Blank(Used(Len(lexed) + 1), from - 1)
  BY <1>1, <1>2, ScannedFields DEF LongestInv, Partial
<1>4. CASE AtEnd(cursor)
  <2>1. status' = "lexical_error" /\ cursor.at = Len(text) + 1
    BY <1>4, CharOfCursor DEF skip_block_comment
  <2>2. \A n \in Nat : n <= Len(text) => ~Skipped(from - 1, n)
    BY <1>3, <2>1, OpenCommentEnds
  <2>3. OpensAt(from) /\ from <= Len(text)
    BY <1>3 DEF PartOfComment, OpensAt
  <2>4. from - 1 \in Nat /\ from - 1 < Len(text) /\ from - 1 + 1 = from
    BY <1>3, <2>3, CharOfCursor
  <2> QED  BY <1>1, <1>3, <2>1, <2>2, <2>3, <2>4, StopsAt
<1>5. CASE ~AtEnd(cursor) /\ CommentState(scanning.q, Char(cursor)) = "q2"
  <2>1. status' = "running" /\ scanning' = Nothing /\ cursor' = next(cursor)
    BY <1>1, <1>5 DEF skip_block_comment, Advance
  <2>2. Origin' = cursor' /\ cursor'.at - 1 = cursor.at
    BY <1>5, <2>1, NextTyped, CharOfCursor DEF Origin
  <2>3. scanning.q = "q1" /\ Char(cursor) = "/"
    BY <1>5 DEF CommentState
  <2>4. Skipped(from - 1, cursor.at)
    BY <1>3, <1>5, <2>3, CommentSkipped
  <2>5. from - 1 \in Nat /\ cursor.at \in Nat /\ from - 1 < cursor.at
    BY <1>3, CharOfCursor DEF PartOfComment
  <2>6. Blank(Used(Len(lexed) + 1), Origin'.at - 1)
    BY <1>3, <2>2, <2>4, <2>5, UsedTyped, BlankGoesOn
  <2>7. Partial'
    BY <2>1 DEF Partial, Nothing
  <2> QED  BY <1>1, <2>1, <2>6, <2>7, GoesOn
<1>6. CASE ~AtEnd(cursor) /\ CommentState(scanning.q, Char(cursor)) # "q2"
  <2>1. PICK q : q = CommentState(scanning.q, Char(cursor))
    OBVIOUS
  <2>2. /\ status' = "running" /\ cursor' = next(cursor)
        /\ scanning' = [of |-> "comment", q |-> q, from |-> Origin]
    BY <1>1, <1>6, <2>1, ScannedFields DEF skip_block_comment, Advance
  <2>3. Origin' = Origin /\ cursor'.at = cursor.at + 1
    BY <1>6, <2>2, NextTyped DEF Origin, Nothing
  <2>4. PartOfComment(q, from, cursor.at + 1)
    BY <1>3, <1>6, <2>1, CommentGoesOn
  <2>5. Partial'
    BY <1>1, <1>2, <2>2, <2>3, <2>4, TextStays DEF Partial
  <2>6. Blank(Used(Len(lexed) + 1), Origin'.at - 1)
    BY <1>2, <1>3, <2>3
  <2> QED  BY <1>1, <2>2, <2>5, <2>6, GoesOn
<1> QED  BY <1>4, <1>5, <1>6

LEMMA IdentifierStep ==
  ASSUME LexerTypes, LongestInv, scan_identifier
  PROVE  LongestInv'
<1> DEFINE at == cursor.at
<1>1. "identifier" \in Types /\ "identifier" \notin Punctuation
  BY PunctuationAssumption DEF Types
<1>2. cursor.at \in Nat /\ cursor.at >= 1 /\ at + 1 - 1 = at
  BY CharOfCursor
<1>3. CASE is_word_head(Char(cursor)) /\ Begin("identifier")
  <2>1. is_word_tail(Char(cursor))
    BY <1>3 DEF is_word_tail
  <2>2. ~AtEnd(cursor) /\ Char(cursor) = text[at]
    BY <2>1, NoCharacterAtEnd
  <2>3. \A k \in at..at + 1 - 1 : is_word_tail(text[k])
    BY <1>2, <2>1, <2>2
  <2>4. PartOfToken("identifier", at, at + 1)
    BY <1>1, <1>2, <1>3, <2>2, <2>3 DEF PartOfToken
  <2> QED  BY <1>1, <1>3, <2>2, <2>4, BeginsPart
<1>4. ASSUME Within({"identifier"})
      PROVE  /\ status = "running" /\ scanning.of = "token" /\ scanning.type = "identifier"
             /\ Origin = scanning.from /\ Origin.at \in Nat /\ Origin.at >= 1 /\ Origin.at < at
             /\ is_word_head(text[Origin.at]) /\ \A k \in Origin.at..at - 1 : is_word_tail(text[k])
  <2>1. status = "running" /\ scanning.of = "token" /\ scanning.type = "identifier"
    BY <1>4 DEF Within
  <2>2. PartOfToken("identifier", Origin.at, at)
    BY <2>1 DEF LongestInv, Partial
  <2> QED  BY <2>1, <2>2, ScannedFields DEF PartOfToken
<1>5. CASE Within({"identifier"}) /\ is_word_tail(Char(cursor)) /\ Continue("identifier")
  <2>1. ~AtEnd(cursor) /\ Char(cursor) = text[at]
    BY <1>5, NoCharacterAtEnd
  <2>2. \A k \in Origin.at..at + 1 - 1 : is_word_tail(text[k])
    BY <1>2, <1>4, <1>5, <2>1
  <2>3. PartOfToken("identifier", Origin.at, at + 1)
    BY <1>1, <1>2, <1>4, <1>5, <2>2 DEF PartOfToken
  <2> QED  BY <1>1, <1>4, <1>5, <2>1, <2>3, ContinuesPart
<1>6. CASE Within({"identifier"}) /\ ~is_word_tail(Char(cursor)) /\ Token_("identifier", scanning.from, cursor)
  <2>1. Longest(Origin.at, cursor.at - 1)
    BY <1>4, <1>6, LongestIdentifier
  <2> QED  BY <1>1, <1>4, <1>6, <2>1, Emits
<1> QED  BY <1>3, <1>5, <1>6 DEF scan_identifier

LEMMA NumberStep ==
  ASSUME LexerTypes, LongestInv, scan_integer_literal
  PROVE  LongestInv'
<1> DEFINE at == cursor.at
<1>1. "integer_literal" \in Types /\ "integer_literal" \notin Punctuation
  BY PunctuationAssumption DEF Types
<1>2. cursor.at \in Nat /\ cursor.at >= 1 /\ at + 1 - 1 = at
  BY CharOfCursor
<1>3. CASE Char(cursor) \in Digits /\ Begin("integer_literal")
  <2>1. is_word_tail(Char(cursor)) /\ is_digit(Char(cursor))
    BY <1>3 DEF is_word_tail, is_digit
  <2>2. ~AtEnd(cursor) /\ Char(cursor) = text[at]
    BY <2>1, NoCharacterAtEnd
  <2>3. \A k \in at..at + 1 - 1 : is_digit(text[k])
    BY <1>2, <2>1, <2>2
  <2>4. PartOfToken("integer_literal", at, at + 1)
    BY <1>1, <1>2, <1>3, <2>2, <2>3 DEF PartOfToken
  <2> QED  BY <1>1, <1>3, <2>2, <2>4, BeginsPart
<1>4. CASE Between /\ Char(cursor) = "0" /\ Token_("integer_literal", cursor, next(cursor))
  <2>1. Origin = cursor /\ status = "running"
    BY <1>4 DEF Between, Origin
  <2>2. ~AtEnd(cursor) /\ at <= Len(text) /\ text[at] = "0"
    BY <1>4, NoCharacterAtEnd DEF is_word_tail, is_digit
  <2>3. next(cursor).at - 1 = at
    BY <1>2, <2>2, NextTyped
  <2>4. Longest(Origin.at, next(cursor).at - 1)
    BY <1>2, <2>1, <2>2, <2>3, LongestZero
  <2> QED  BY <1>1, <1>4, <2>1, <2>4, Emits
<1>5. ASSUME Within({"integer_literal"})
      PROVE  /\ status = "running" /\ scanning.of = "token" /\ scanning.type = "integer_literal"
             /\ Origin = scanning.from /\ Origin.at \in Nat /\ Origin.at >= 1 /\ Origin.at < at
             /\ text[Origin.at] \in Digits /\ \A k \in Origin.at..at - 1 : is_digit(text[k])
  <2>1. status = "running" /\ scanning.of = "token" /\ scanning.type = "integer_literal"
    BY <1>5 DEF Within
  <2>2. PartOfToken("integer_literal", Origin.at, at)
    BY <2>1 DEF LongestInv, Partial
  <2> QED  BY <2>1, <2>2, ScannedFields DEF PartOfToken
<1>6. CASE Within({"integer_literal"}) /\ is_digit(Char(cursor)) /\ Continue("integer_literal")
  <2>1. ~AtEnd(cursor) /\ Char(cursor) = text[at]
    BY <1>6, NoCharacterAtEnd DEF is_word_tail
  <2>2. \A k \in Origin.at..at + 1 - 1 : is_digit(text[k])
    BY <1>2, <1>5, <1>6, <2>1
  <2>3. PartOfToken("integer_literal", Origin.at, at + 1)
    BY <1>1, <1>2, <1>5, <1>6, <2>2 DEF PartOfToken
  <2> QED  BY <1>1, <1>5, <1>6, <2>1, <2>3, ContinuesPart
<1>7. CASE Within({"integer_literal"}) /\ ~is_digit(Char(cursor)) /\ Token_("integer_literal", scanning.from, cursor)
  <2>1. Longest(Origin.at, cursor.at - 1)
    BY <1>5, <1>7, LongestNumber
  <2> QED  BY <1>1, <1>5, <1>7, <2>1, Emits
<1> QED  BY <1>3, <1>4, <1>6, <1>7 DEF scan_integer_literal

LEMMA PunctuationStep ==
  ASSUME LexerTypes, LongestInv, maybe_token
  PROVE  LongestInv'
<1> DEFINE at == cursor.at
<1>1. cursor.at \in Nat /\ cursor.at >= 1 /\ at + 1 - 1 = at
  BY CharOfCursor
<1>2. CASE Char(cursor) \in DOMAIN First /\ Begin(First[Char(cursor)])
  <2>1. ~AtEnd(cursor) /\ at <= Len(text) /\ Char(cursor) = text[at]
    BY <1>2, NoCharacterAtEnd
  <2>2. PICK type : type = First[Char(cursor)]
    OBVIOUS
  <2>3. type \in Punctuation /\ type \in Types /\ Spelled[type] = <<Char(cursor)>>
    BY <1>2, <2>2, PunctuationAssumption DEF Types
  <2>4. type # "identifier" /\ type # "integer_literal"
    BY <2>3, PunctuationAssumption
  <2>5. SubSeq(text, at, at) = Spelled[type]
    BY <1>1, <2>1, <2>3, SliceOfOne
  <2>6. PartOfToken(type, at, at + 1)
    <3>1. PICK to : to = at + 1
      OBVIOUS
    <3>2. at < to /\ to - 1 = at
      BY <1>1, <3>1
    <3>3. PartOfToken(type, at, to)
      BY <2>4, <2>5, <3>2 DEF PartOfToken
    <3> QED  BY <3>1, <3>3
  <2> QED  BY <1>2, <2>1, <2>2, <2>3, <2>6, BeginsPart
<1>3. ASSUME Within(Punctuation)
      PROVE  /\ status = "running" /\ scanning.of = "token" /\ scanning.type \in Punctuation
             /\ Origin = scanning.from /\ Origin.at \in Nat /\ Origin.at >= 1 /\ Origin.at < at
             /\ SubSeq(text, Origin.at, at - 1) = Spelled[scanning.type] /\ scanning.type \in Types
  <2>1. status = "running" /\ scanning.of = "token" /\ scanning.type \in Punctuation
    BY <1>3 DEF Within
  <2>2. PartOfToken(scanning.type, Origin.at, at)
    BY <2>1 DEF LongestInv, Partial
  <2> QED  BY <2>1, <2>2, ScannedFields DEF PartOfToken
<1>4. CASE /\ Within(Punctuation) /\ <<scanning.type, Char(cursor)>> \in DOMAIN Longer
           /\ Continue(Longer[<<scanning.type, Char(cursor)>>])
  <2>1. PICK longer : longer = <<scanning.type, Char(cursor)>>
    OBVIOUS
  <2>2. Char(cursor) \in DOMAIN First
    <3>1. longer[2] \in DOMAIN First
      BY <1>4, <2>1, PunctuationAssumption
    <3> QED  BY <2>1, <3>1
  <2>3. ~AtEnd(cursor)
    BY <2>2, NoCharacterAtEnd
  <2>4. PICK type : type = Longer[longer]
    OBVIOUS
  <2>5. type \in Punctuation /\ Spelled[type] = Append(Spelled[scanning.type], Char(cursor))
    BY <1>3, <1>4, <2>1, <2>2, <2>4, PunctuationAssumption
  <2>6. type \in Types /\ type # "identifier" /\ type # "integer_literal"
    BY <2>5, PunctuationAssumption DEF Types
  <2>7. SubSeq(text, Origin.at, at) = Spelled[type]
    BY <1>3, <1>4, <2>3, <2>5, SliceGrows
  <2>8. PartOfToken(type, Origin.at, at + 1)
    BY <1>1, <1>3, <1>4, <2>6, <2>7 DEF PartOfToken
  <2> QED  BY <1>3, <1>4, <2>1, <2>3, <2>4, <2>6, <2>8, ContinuesPart
<1>5. CASE /\ Within(Punctuation) /\ ~OpensComment
           /\ <<scanning.type, Char(cursor)>> \notin DOMAIN Longer
           /\ Token_(scanning.type, scanning.from, cursor)
  <2>1. ~(scanning.type = "divide" /\ Char(cursor) = "*")
    BY <1>5 DEF OpensComment
  <2>2. Longest(Origin.at, cursor.at - 1)
    BY <1>3, <1>5, <2>1, LongestPunctuation
  <2> QED  BY <1>3, <1>5, <2>2, Emits
<1> QED  BY <1>2, <1>4, <1>5 DEF maybe_token

\* Before the first character nothing is skipped and nothing read.
LEMMA LongestInit ==
  ASSUME NEW texts, LexerInit(texts)
  PROVE  LongestInv
<1>1. lexed = <<>> /\ status = "running" /\ scanning = Nothing /\ Origin.at = 1
  BY DEF LexerInit, Origin, Start_
<1>2. Used(Len(lexed) + 1) = 0 /\ DOMAIN lexed = {}
  BY <1>1 DEF Used
<1>3. Blank(0, 0)
  BY NothingIsBlank
<1>4. Blank(Used(Len(lexed) + 1), Origin.at - 1)
  BY <1>1, <1>2, <1>3
<1> QED  BY <1>1, <1>2, <1>4 DEF LongestInv, TokensAreLongest, Partial, Nothing

\* Every step keeps what the theorem needs.
LEMMA LongestNext ==
  ASSUME LexerTypes, LongestInv, [do_advance]_lexerVars
  PROVE  LongestInv'
<1>1. CASE do_advance
  BY <1>1, WhiteSpaceStep, EndStep, IdentifierStep, NumberStep, PunctuationStep, OpenStep,
     CommentStep, InvalidStep DEF do_advance
<1>2. CASE UNCHANGED lexerVars
  <2>1. /\ text' = text /\ lexed' = lexed /\ status' = status /\ Origin' = Origin
        /\ cursor' = cursor /\ scanning' = scanning
    BY <1>2 DEF lexerVars, Origin
  <2>2. CASE status = "running"
    <3>1. Partial'
      BY <2>1, <2>2, TextStays DEF Partial, LongestInv
    <3> QED  BY <2>1, <2>2, <3>1, GoesOn DEF LongestInv
  <2>3. CASE status # "running"
    BY <2>1, <2>3, Stops DEF LongestInv, TokensAreLongest
  <2> QED  BY <2>2, <2>3
<1> QED  BY <1>1, <1>2

(* Whatever the text, every token is the longest lexeme at its place, only *)
(* white space and comments are skipped, and the lexer refuses a text only *)
(* where no lexeme begins or a comment is not closed.                      *)
THEOREM TokensAreTheLongest ==
  ASSUME NEW Characters, NEW texts \in SUBSET Seq(Characters)
  PROVE  LexerSpec(texts) => []TokensAreLongest
<1>1. LexerInit(texts) => LexerTypes /\ LongestInv
  BY TypesInit, LongestInit
<1>2. LexerTypes /\ LongestInv /\ [do_advance]_lexerVars => (LexerTypes /\ LongestInv)'
  BY TypesNext, LongestNext
<1>3. LexerTypes /\ LongestInv => TokensAreLongest
  BY DEF LongestInv
<1> QED  BY <1>1, <1>2, <1>3, PTL DEF LexerSpec
=============================================================================
