-------------------------------- MODULE Lexer --------------------------------
(***************************************************************************)
(* The lexical analyser (src/src/core/lexer/lexer.tpp).  Its cursor is the *)
(* place of the current character in text and the line and column counted  *)
(* for it.  A step goes at most one character on: do_advance skips white   *)
(* space, and then the routine that the next character calls for takes the *)
(* characters of one token or comment.  lexed keeps the tokens with the    *)
(* place of their first and last character, which the code does not.       *)
(* Keywords are words, their recognition is left out.                      *)
(***************************************************************************)
EXTENDS Naturals, Sequences, FiniteSets, TLC

CONSTANTS Letters, Digits, Spaces \* characters, Digits without "0"

VARIABLES
  text,     \* the input, a sequence of characters
  cursor,   \* the current place with its line and column
  scanning, \* the token or comment being read: what it is so far, where it began
  lexed,    \* the tokens scanned so far
  status    \* "running", "eof" or "lexical_error"

lexerVars == <<text, cursor, scanning, lexed, status>>

is_word_head(c) == c \in Letters
is_digit(c) == c \in Digits \cup {"0"}
is_word_tail(c) == is_word_head(c) \/ is_digit(c)
is_space(c) == c \in Spaces

End == "end of input"
AtEnd(cur) == cur.at > Len(text)
Char(cur) == IF AtEnd(cur) THEN End ELSE text[cur.at] \* current()

(* A mutant: a line feed does not start a new column.                      *)
NextKeepsColumn(cur) ==
  LET moved == [cur EXCEPT !.at = @ + 1, !.column = @ + 1]
  IN IF AtEnd(cur) THEN cur
     ELSE IF Char(moved) = "\n" THEN [moved EXCEPT !.line = @ + 1] ELSE moved

(* The line is counted when the cursor comes to a line feed.               *)
next(cur) ==
  LET at == cur.at + 1
      feed == at <= Len(text) /\ text[at] = "\n"
  IN IF AtEnd(cur) THEN cur
     ELSE [at |-> at,
           line |-> IF feed THEN cur.line + 1 ELSE cur.line,
           column |-> IF feed THEN 0 ELSE cur.column + 1]

-----------------------------------------------------------------------------
(* The punctuation: the token a character starts, and the longer token a   *)
(* further character makes of it (the chain of maybe_token).               *)
First ==
  "[" :> "left_bracket" @@ "]" :> "right_bracket" @@ "(" :> "left_paren" @@
  ")" :> "right_paren" @@ "{" :> "left_brace" @@ "}" :> "right_brace" @@ "." :> "dot" @@
  "," :> "comma" @@ ":" :> "colon" @@ ";" :> "semicolon" @@ "?" :> "conditional" @@
  "~" :> "bit_not" @@ "!" :> "logical_not" @@ "*" :> "multiply" @@ "+" :> "plus" @@
  "-" :> "minus" @@ "<" :> "less_than" @@ "=" :> "assign" @@ ">" :> "greater_than" @@
  "%" :> "modulo" @@ "&" :> "bit_and" @@ "^" :> "bit_xor" @@ "|" :> "bit_or" @@
  "/" :> "divide"

Longer ==
  <<"logical_not", "=">> :> "not_equal" @@ <<"multiply", "=">> :> "multiply_assign" @@
  <<"plus", "+">> :> "increment" @@ <<"plus", "=">> :> "plus_assign" @@
  <<"minus", "-">> :> "decrement" @@ <<"minus", "=">> :> "minus_assign" @@
  <<"less_than", "<">> :> "left_shift" @@ <<"left_shift", "=">> :> "left_shift_assign" @@
  <<"less_than", "=">> :> "less_equal" @@ <<"assign", "=">> :> "equal" @@
  <<"greater_than", ">">> :> "right_shift" @@
  <<"right_shift", ">">> :> "unsigned_right_shift" @@
  <<"unsigned_right_shift", "=">> :> "unsigned_right_shift_assign" @@
  <<"right_shift", "=">> :> "right_shift_assign" @@ <<"greater_than", "=">> :> "greater_equal" @@
  <<"modulo", "=">> :> "modulo_assign" @@ <<"bit_and", "&">> :> "logical_and" @@
  <<"bit_and", "=">> :> "bit_and_assign" @@ <<"bit_xor", "=">> :> "bit_xor_assign" @@
  <<"bit_or", "|">> :> "logical_or" @@ <<"bit_or", "=">> :> "bit_or_assign" @@
  <<"divide", "=">> :> "divides_assign"

(* The spellings of the punctuation, from the names of the token types.    *)
Spelled ==
  "not_equal" :> <<"!", "=">> @@ "logical_not" :> <<"!">> @@ "left_paren" :> <<"(">> @@
  "right_paren" :> <<")">> @@ "multiply_assign" :> <<"*", "=">> @@ "multiply" :> <<"*">> @@
  "increment" :> <<"+", "+">> @@ "plus_assign" :> <<"+", "=">> @@ "plus" :> <<"+">> @@
  "comma" :> <<",">> @@ "minus_assign" :> <<"-", "=">> @@ "decrement" :> <<"-", "-">> @@
  "minus" :> <<"-">> @@ "dot" :> <<".">> @@ "divides_assign" :> <<"/", "=">> @@
  "divide" :> <<"/">> @@ "colon" :> <<":">> @@ "semicolon" :> <<";">> @@
  "left_shift_assign" :> <<"<", "<", "=">> @@ "left_shift" :> <<"<", "<">> @@
  "less_equal" :> <<"<", "=">> @@ "less_than" :> <<"<">> @@ "equal" :> <<"=", "=">> @@
  "assign" :> <<"=">> @@ "greater_equal" :> <<">", "=">> @@
  "right_shift_assign" :> <<">", ">", "=">> @@ "right_shift" :> <<">", ">">> @@
  "unsigned_right_shift_assign" :> <<">", ">", ">", "=">> @@
  "unsigned_right_shift" :> <<">", ">", ">">> @@ "greater_than" :> <<">">> @@
  "conditional" :> <<"?">> @@ "modulo_assign" :> <<"%", "=">> @@ "modulo" :> <<"%">> @@
  "bit_and_assign" :> <<"&", "=">> @@ "logical_and" :> <<"&", "&">> @@ "bit_and" :> <<"&">> @@
  "left_bracket" :> <<"[">> @@ "right_bracket" :> <<"]">> @@ "bit_xor_assign" :> <<"^", "=">> @@
  "bit_xor" :> <<"^">> @@ "left_brace" :> <<"{">> @@ "right_brace" :> <<"}">> @@
  "bit_not" :> <<"~">> @@ "bit_or_assign" :> <<"|", "=">> @@ "logical_or" :> <<"|", "|">> @@
  "bit_or" :> <<"|">>

Punctuation == DOMAIN Spelled
Spellings == {Spelled[type] : type \in Punctuation}

(* The chains spell what they say, one character after the other, and      *)
(* every spelling that is longer than another one is reached from it.      *)
ASSUME PunctuationAssumption ==
  /\ "/" \in DOMAIN First
  /\ \A c \in DOMAIN First : First[c] \in Punctuation /\ Spelled[First[c]] = <<c>>
  /\ \A type \in Punctuation, c \in DOMAIN First : <<type, c>> \in DOMAIN Longer =>
       /\ Longer[<<type, c>>] \in Punctuation
       /\ Spelled[Longer[<<type, c>>]] = Append(Spelled[type], c)
  /\ \A longer \in DOMAIN Longer : longer[2] \in DOMAIN First
  /\ \A type \in Punctuation :
       /\ Spelled[type] \in Seq(DOMAIN First) \ {<<>>}
       /\ Spelled[type] = <<"/">> <=> type = "divide"
       /\ Len(Spelled[type]) > 1 => <<Spelled[type][1], Spelled[type][2]>> # <<"/", "*">>
  /\ \A type, other \in Punctuation :
       LET n == Len(Spelled[type])
       IN n < Len(Spelled[other]) /\ SubSeq(Spelled[other], 1, n) = Spelled[type] =>
            <<type, Spelled[other][n + 1]>> \in DOMAIN Longer
  /\ {"identifier", "integer_literal"} \cap Punctuation = {}

ASSUME CharacterClasses ==
  /\ Letters \cap Digits = {} /\ Letters \cap Spaces = {} /\ Digits \cap Spaces = {}
  /\ "0" \notin Letters \cup Digits \cup Spaces \cup DOMAIN First
  /\ (Letters \cup Digits \cup Spaces) \cap DOMAIN First = {}
  /\ End \notin Letters \cup Digits \cup Spaces \cup DOMAIN First
  /\ "\n" \in Spaces

-----------------------------------------------------------------------------
Start_ == [at |-> 1, line |-> 1, column |-> 1]
Nothing == [of |-> "nothing"]

LexerInit(texts) ==
  /\ text \in texts
  /\ cursor = Start_
  /\ scanning = Nothing
  /\ lexed = <<>>
  /\ status = "running"

Between == status = "running" /\ scanning = Nothing
Within(types) == status = "running" /\ scanning.of = "token" /\ scanning.type \in types
Advance == cursor' = next(cursor)

Begin(type) ==
  /\ Between
  /\ scanning' = [of |-> "token", type |-> type, from |-> cursor]
  /\ Advance
  /\ UNCHANGED <<text, lexed, status>>

Continue(type) ==
  /\ scanning' = [scanning EXCEPT !.type = type]
  /\ Advance
  /\ UNCHANGED <<text, lexed, status>>

Token_(type, from, to) ==
  /\ lexed' = Append(lexed, [type |-> type, first |-> from.at, last |-> to.at - 1,
                             line |-> from.line, column |-> from.column])
  /\ cursor' = to
  /\ scanning' = Nothing
  /\ UNCHANGED <<text, status>>

skip_white_space ==
  /\ Between
  /\ is_space(Char(cursor))
  /\ Advance
  /\ UNCHANGED <<text, scanning, lexed, status>>

EndOfInput ==
  /\ Between
  /\ AtEnd(cursor)
  /\ status' = "eof"
  /\ UNCHANGED <<text, cursor, scanning, lexed>>

scan_identifier ==
  \/ is_word_head(Char(cursor)) /\ Begin("identifier")
  \/ /\ Within({"identifier"})
     /\ IF is_word_tail(Char(cursor)) THEN Continue("identifier")
        ELSE Token_("identifier", scanning.from, cursor)

scan_integer_literal ==
  \/ Between /\ Char(cursor) = "0" /\ Token_("integer_literal", cursor, next(cursor))
  \/ Char(cursor) \in Digits /\ Begin("integer_literal")
  \/ /\ Within({"integer_literal"})
     /\ IF is_digit(Char(cursor)) THEN Continue("integer_literal")
        ELSE Token_("integer_literal", scanning.from, cursor)

OpensComment == scanning.type = "divide" /\ Char(cursor) = "*"

maybe_token ==
  \/ Char(cursor) \in DOMAIN First /\ Begin(First[Char(cursor)])
  \/ /\ Within(Punctuation) /\ ~OpensComment
     /\ LET longer == <<scanning.type, Char(cursor)>>
        IN IF longer \in DOMAIN Longer THEN Continue(Longer[longer])
           ELSE Token_(scanning.type, scanning.from, cursor)

(* A mutant: the star that opens a comment may close it as well.           *)
OpenCommentOnStar ==
  /\ Within(Punctuation) /\ OpensComment
  /\ scanning' = [of |-> "comment", q |-> "q1", from |-> scanning.from]
  /\ Advance
  /\ UNCHANGED <<text, lexed, status>>

OpenComment ==
  /\ Within(Punctuation) /\ OpensComment
  /\ scanning' = [of |-> "comment", q |-> "q0", from |-> scanning.from]
  /\ Advance
  /\ UNCHANGED <<text, lexed, status>>

(* The automaton of skip_block_comment: q1 after a star, q2 at the end.    *)
CommentState(q, c) == IF c = "*" THEN "q1" ELSE IF q = "q1" /\ c = "/" THEN "q2" ELSE "q0"

skip_block_comment ==
  /\ status = "running" /\ scanning.of = "comment"
  /\ IF AtEnd(cursor) THEN status' = "lexical_error" /\ UNCHANGED <<cursor, scanning>>
     ELSE LET q == CommentState(scanning.q, Char(cursor))
          IN /\ scanning' = IF q = "q2" THEN Nothing ELSE [scanning EXCEPT !.q = q]
             /\ Advance
             /\ UNCHANGED status
  /\ UNCHANGED <<text, lexed>>

InvalidInput ==
  /\ Between
  /\ ~AtEnd(cursor)
  /\ ~is_space(Char(cursor)) /\ ~is_word_tail(Char(cursor))
  /\ Char(cursor) \notin DOMAIN First
  /\ status' = "lexical_error"
  /\ UNCHANGED <<text, cursor, scanning, lexed>>

do_advance ==
  \/ skip_white_space \/ EndOfInput
  \/ scan_identifier \/ scan_integer_literal \/ maybe_token
  \/ OpenComment \/ skip_block_comment
  \/ InvalidInput

LexerSpec(texts) == LexerInit(texts) /\ [][do_advance]_lexerVars

-----------------------------------------------------------------------------
Lexeme(s) ==
  \/ s \in Spellings
  \/ s # <<>> /\ is_word_head(s[1]) /\ \A i \in 1..Len(s) : is_word_tail(s[i])
  \/ s = <<"0">>
  \/ s # <<>> /\ s[1] \in Digits /\ \A i \in 1..Len(s) : is_digit(s[i])

OpensAt(n) == n < Len(text) /\ text[n] = "/" /\ text[n + 1] = "*"
ClosesAt(n) == n < Len(text) /\ text[n] = "*" /\ text[n + 1] = "/"
LexemeEnds(n) == {m \in n..Len(text) : Lexeme(SubSeq(text, n, m))}

(* One white space or one comment lies between the places m and n: the     *)
(* comment ends with the first star and slash after what opens it.         *)
Skipped(m, n) ==
  \/ n = m + 1 /\ is_space(text[n])
  \/ /\ n >= m + 4 /\ OpensAt(m + 1)
     /\ {k \in m + 3..n - 1 : ClosesAt(k)} = {n - 1}

(* Nothing but white space and comments lies between the places i and j.   *)
Blank(i, j) ==
  \E cuts \in SUBSET (i..j) :
    /\ {i, j} \subseteq cuts
    /\ \A m, n \in cuts : m < n /\ (\A k \in cuts : k <= m \/ n <= k) => Skipped(m, n)

Used(i) == IF i = 1 THEN 0 ELSE lexed[i - 1].last

LongestAt(t) ==
  /\ ~OpensAt(t.first)
  /\ t.last \in LexemeEnds(t.first)
  /\ \A n \in LexemeEnds(t.first) : n <= t.last

(* Every token is the longest lexeme at its place, only white space and    *)
(* comments lie between two tokens, and the analysis ends with the input   *)
(* used up or at a place where neither a lexeme nor a comment begins.      *)
TokensAreLongest ==
  LET used == Used(Len(lexed) + 1)
  IN /\ \A i \in DOMAIN lexed : Blank(Used(i), lexed[i].first - 1) /\ LongestAt(lexed[i])
     /\ status = "eof" => Blank(used, Len(text))
     /\ status = "lexical_error" =>
          /\ ~Blank(used, Len(text))
          /\ \E n \in used..Len(text) - 1 :
               Blank(used, n) /\ (OpensAt(n + 1) \/ LexemeEnds(n + 1) = {})

(* The position of a token is where it stands: its line is one more than   *)
(* the line feeds before it, its column counts from the last of them.  A   *)
(* line feed that is the first character of the input is not counted.      *)
Feeds(n) == {m \in 2..n : m <= Len(text) /\ text[m] = "\n"}
Last_(feeds) == IF feeds = {} THEN 0 ELSE CHOOSE last \in feeds : \A m \in feeds : m <= last
PositionsCount ==
  \A i \in DOMAIN lexed :
    LET at == lexed[i].first
    IN lexed[i].line = 1 + Cardinality(Feeds(at)) /\ lexed[i].column = at - Last_(Feeds(at))
=============================================================================
