------------------------------ MODULE Literals ------------------------------
(***************************************************************************)
(* String and character literals from the source text to the assembly: the *)
(* rules of src/lexer/lexer.l:58-91, to_bytes and to_char of               *)
(* src/lexer/lex_help.c, the list of string sections of                    *)
(* src/quads/assemble.c, and what the assembler reads back.                *)
(*                                                                         *)
(* A text is a sequence of ASCII codes, as the preprocessor leaves it: no  *)
(* line is continued and there are no comments.  Anything but a literal is *)
(* skipped one character at a time.  Fresh memory is taken to read as      *)
(* zero: the section allocated first has no next.                          *)
(***************************************************************************)
EXTENDS Naturals, Sequences, SequencesExt, FiniteSets, FiniteSetsExt, TLC

CONSTANTS
  Texts        \* what the lexer is given

VARIABLES
  text,        \* the text
  rest,        \* what of it has not been matched
  tokens,      \* the STRING and CHARLIT tokens returned
  operands,    \* the labels parse_operand has put in the code, one a string
  str_section_head, \* the sections yet to be printed
  printed,     \* the sections written, with the characters between the quotes
  status

vars == <<text, rest, tokens, operands, str_section_head, printed, status>>

NewLine    == 10
Quote      == 34
Apostrophe == 39
BackSlash  == 92
LowerX     == 120
UpperX     == 88
Zero       == 48
UpperL     == 76
Slash      == 47
OctDigit == 48..55
HexDigit == (48..57) \cup (65..70) \cup (97..102)
Digit(c) == CASE c \in 48..57 -> c - 48 [] c \in 65..70 -> c - 55 [] OTHER -> c - 87

\* The escapes of one letter: \a \b \t \n \v \f \r and the four signs.
Escape == 97 :> 7 @@ 98 :> 8 @@ 116 :> 9 @@ 110 :> 10 @@ 118 :> 11 @@ 102 :> 12
          @@ 114 :> 13 @@ 34 :> 34 @@ 39 :> 39 @@ 63 :> 63 @@ 92 :> 92

ASSUME TextsAssumption ==
  \A t \in Texts :
    /\ t \in Seq(1..127)
    /\ \A k \in 1..(Len(t) - 1) : /\ t[k] = BackSlash => t[k + 1] # NewLine
                                 /\ t[k] = Slash => t[k + 1] \notin {Slash, 42}
    /\ \A k \in 2..Len(t) : t[k] # UpperL

\* The digits of D that s begins with, and the number n of them in a base.
Leading(s, D) ==
  CHOOSE n \in 0..Len(s) :
    /\ \A k \in 1..n : s[k] \in D
    /\ n < Len(s) => s[n + 1] \notin D
Number(s, n, base) == FoldLeft(LAMBDA v, c : v * base + Digit(c), 0, SubSeq(s, 1, n))
Smaller(a, b) == IF a < b THEN a ELSE b

-----------------------------------------------------------------------------
(* to_bytes: the byte inp begins with and the jump over it.  Without a     *)
(* digit sscanf leaves its variables alone; an unknown escape is exit(2).  *)
(* The two characters %2x reads may be the prefix 0x: glibc, which the     *)
(* program is built with, then stores 0 and goes on behind the prefix.     *)

Uninitialised == 256
Exit          == 257

\* How many characters sscanf("%2x") takes from s, and what it stores.
Scanned2x(s) ==
  LET n == Smaller(Leading(s, HexDigit), 2) IN
  CASE Len(s) > 1 /\ s[1] = Zero /\ s[2] \in {LowerX, UpperX} -> [n |-> 2, tmp |-> 0]
    [] n = 0 -> [n |-> 0, tmp |-> Uninitialised]
    [] OTHER -> [n |-> n, tmp |-> Number(s, n, 16)]

\* Mutant: the byte keeps the width of an int.
to_bytes_Wide(inp) ==
  LET hex == Scanned2x(SubSeq(inp, 3, Len(inp)))
      oct == Smaller(Leading(Tail(inp), OctDigit), 3) IN
  CASE inp[1] # BackSlash \/ Len(inp) = 1 -> [byte |-> inp[1], jump |-> 1]
    [] OTHER ->
  CASE inp[2] \in OctDigit -> [byte |-> Number(Tail(inp), oct, 8), jump |-> oct + 1]
    [] inp[2] = LowerX -> [byte |-> hex.tmp, jump |-> hex.n + 2]
    [] OTHER -> [byte |-> Escape[inp[2]], jump |-> 2]

to_bytes(inp) ==
  LET letter == IF Len(inp) = 1 THEN 0 ELSE inp[2]
      hex    == Scanned2x(SubSeq(inp, 3, Len(inp)))
      oct    == Smaller(Leading(Tail(inp), OctDigit), 3) IN
  CASE inp[1] # BackSlash -> [byte |-> inp[1], jump |-> 1]
    [] inp[1] = BackSlash /\ letter \in {UpperX, LowerX} ->
         [byte |-> hex.tmp, jump |-> hex.n + 2]
    [] inp[1] = BackSlash /\ letter \in OctDigit ->
         [byte |-> Number(Tail(inp), oct, 8) % 256, jump |-> oct + 1]
    [] inp[1] = BackSlash /\ letter \in DOMAIN Escape ->
         [byte |-> Escape[letter], jump |-> 2]
    [] OTHER -> [byte |-> Exit, jump |-> Len(inp)]

RECURSIVE Stored(_)
\* The bytes of what stands between the quotes of a string.
Stored(w) ==
  IF w = << >> THEN << >>
  ELSE LET b == to_bytes(w) IN <<b.byte>> \o Stored(SubSeq(w, b.jump + 1, Len(w)))

-----------------------------------------------------------------------------
(* The rules, as what the text p they match looks like, from its quote on. *)

Inside(p) == SubSeq(p, 2, Len(p) - 1)
Between(p, q) == Len(p) >= 2 /\ p[1] = q /\ Last(p) = q
\* A dot is no newline, but one character that is not among others may be.
OneLineBut(p, k) == \A i \in DOMAIN p : p[i] = NewLine => i = k
OneLine(p) == NewLine \notin ToSet(p)

\* \x with no digit after it, the closing quote included.
\* Mutant: a string that ends in \x is not looked at.
NoHexDigit_Inside(p) ==
  /\ Between(p, Quote)
  /\ \E k \in 2..(Len(p) - 3) :
       /\ p[k] = BackSlash /\ p[k + 1] = LowerX /\ p[k + 2] \notin HexDigit
       /\ OneLineBut(p, k + 2)

NoHexDigit(p) ==
  /\ Between(p, Quote)
  /\ \E k \in 2..(Len(p) - 2) :
       /\ p[k] = BackSlash /\ p[k + 1] = LowerX /\ p[k + 2] \notin HexDigit
       /\ OneLineBut(p, k + 2)

ThreeHexDigits(p) ==
  /\ Between(p, Quote) /\ OneLine(p)
  /\ \E k \in 2..(Len(p) - 5) : /\ p[k] = BackSlash /\ p[k + 1] = LowerX
                                /\ \A i \in 2..4 : p[k + i] \in HexDigit

UnknownEscape(p) ==
  /\ Between(p, Quote) /\ OneLine(p)
  /\ \E k \in 2..(Len(p) - 2) :
       p[k] = BackSlash /\ p[k + 1] \notin DOMAIN Escape \cup {LowerX} \cup OctDigit

\* A backslash before a quote may belong to it.
\* Mutant: the first quote ends the string.
StringRule_FirstQuote(p) ==
  Between(p, Quote) /\ ToSet(Inside(p)) \cap {Quote, NewLine} = {}

StringRule(p) ==
  /\ Between(p, Quote)
  /\ \A k \in 2..(Len(p) - 1) :
       p[k] \in {Quote, NewLine} => k > 2 /\ p[k - 1] = BackSlash

CharEscape(w) ==
  /\ Len(w) >= 2 /\ w[1] = BackSlash
  /\ \/ Len(w) = 2 /\ w[2] \in DOMAIN Escape
     \/ Len(w) <= 4 /\ ToSet(Tail(w)) \subseteq OctDigit
     \/ Len(w) \in 3..4 /\ w[2] = LowerX /\ ToSet(SubSeq(w, 3, Len(w))) \subseteq HexDigit

CharRule(p) ==
  /\ Between(p, Apostrophe) /\ Len(p) >= 3
  /\ BackSlash \notin ToSet(Inside(p)) \/ CharEscape(Inside(p))

BadCharRule(p) == Between(p, Apostrophe) /\ Len(p) >= 3 /\ OneLine(p)

\* An L may stand before each.
FromQuote(p) == IF p[1] = UpperL THEN Tail(p) ELSE p
Opens(q) == FromQuote(rest) # << >> /\ FromQuote(rest)[1] = q

\* The longest match wins, then the rule that stands first.
Matches(rule(_)) == {n \in 1..Len(rest) : rule(FromQuote(SubSeq(rest, 1, n)))}
Longest(rule(_)) == Max({0} \cup Matches(rule))

StringError == Max({Longest(NoHexDigit), Longest(ThreeHexDigits), Longest(UnknownEscape)})

-----------------------------------------------------------------------------
(* The lexer.                                                              *)

Lexing == status = "lexing" /\ rest # << >>

Consume(n) ==
  /\ rest' = SubSeq(rest, n + 1, Len(rest))
  /\ UNCHANGED <<text, operands, str_section_head, printed>>

\* What lies between the first and the last character of the match: the quotes,
\* or the L and a quote.
Contents(n) == Inside(SubSeq(rest, 1, n))

\* The three rules before the string's only write a message.
DropString ==
  /\ Lexing /\ Opens(Quote)
  /\ StringError > 0 /\ StringError >= Longest(StringRule)
  /\ Consume(StringError)
  /\ UNCHANGED <<tokens, status>>

ReturnString ==
  LET n == Longest(StringRule)
      bytes == Stored(Contents(n)) IN
  /\ Lexing /\ Opens(Quote)
  /\ n > StringError
  /\ Consume(n)
  /\ IF Exit \in ToSet(bytes)
       THEN status' = "exit" /\ UNCHANGED tokens
       ELSE /\ tokens' = Append(tokens, [type |-> "STRING", content |-> bytes])
            /\ UNCHANGED status

ReturnChar ==
  LET n == Longest(CharRule) IN
  /\ Lexing /\ Opens(Apostrophe)
  /\ n > 0 /\ n >= Longest(BadCharRule)
  /\ Consume(n)
  /\ tokens' = Append(tokens, [type |-> "CHARLIT",
                               content |-> <<to_bytes(Contents(n)).byte>>])
  /\ UNCHANGED status

InvalidChar ==
  /\ Lexing /\ Opens(Apostrophe)
  /\ Longest(BadCharRule) > Longest(CharRule)
  /\ Consume(Longest(BadCharRule))
  /\ status' = "exit"
  /\ UNCHANGED tokens

\* A quote that begins no literal is a token by itself, and so is whatever
\* else there is.
SkipOther ==
  /\ Lexing
  /\ Opens(Quote) => StringError = 0 /\ Longest(StringRule) = 0
  /\ Opens(Apostrophe) => Longest(BadCharRule) = 0 /\ Longest(CharRule) = 0
  /\ Consume(1)
  /\ UNCHANGED <<tokens, status>>

-----------------------------------------------------------------------------
(* The strings in the assembly.                                            *)

Octal(inp) == <<BackSlash, 48 + inp \div 64, 48 + ((inp \div 8) % 8), 48 + (inp % 8)>>
Escaped(inp) == {c \in DOMAIN Escape : Escape[c] = inp}

\* Mutant: a quote is written as it is.
to_char_Quote(inp) ==
  CASE inp = 0 -> <<BackSlash, 48>>
    [] inp \in (33..126) \ {BackSlash} -> <<inp>>
    [] inp \in {7, 8, 9, 10, 11, 12, 13, BackSlash} ->
         <<BackSlash, CHOOSE c \in Escaped(inp) : TRUE>>
    [] OTHER -> Octal(inp)

\* Only NUL has an octal escape of less than three digits.
to_char(inp) ==
  CASE inp = 0 -> <<BackSlash, 48>>
    [] inp \in (33..126) \ {Quote, Apostrophe, BackSlash} -> <<inp>>
    [] inp \in {7, 8, 9, 10, 11, 12, 13, Quote, Apostrophe, BackSlash} ->
         <<BackSlash, CHOOSE c \in Escaped(inp) : TRUE>>
    [] OTHER -> Octal(inp)

Strings == SelectSeq(tokens, LAMBDA t : t.type = "STRING")

EndOfText ==
  /\ status = "lexing" /\ rest = << >>
  /\ status' = "assembling"
  /\ UNCHANGED <<text, rest, tokens, operands, str_section_head, printed>>

\* parse_operand of a STRING_LITERAL; string_counter counts them.
parse_operand ==
  LET string_counter == Len(operands) IN
  /\ status = "assembling" /\ Len(operands) < Len(Strings)
  /\ operands' = Append(operands, string_counter)
  /\ str_section_head' =
       <<[label |-> string_counter,
          str |-> Strings[string_counter + 1].content]>> \o str_section_head
  /\ UNCHANGED <<text, rest, tokens, printed, status>>

\* A section per string, after the code of the function.
PrintSection ==
  /\ status = "assembling" /\ Len(operands) = Len(Strings)
  /\ str_section_head # << >>
  /\ printed' = Append(printed,
                       [label |-> Head(str_section_head).label,
                        string |-> FlattenSeq([k \in DOMAIN Head(str_section_head).str |->
                                                 to_char(Head(str_section_head).str[k])])])
  /\ str_section_head' = Tail(str_section_head)
  /\ UNCHANGED <<text, rest, tokens, operands, status>>

EndOfFunction ==
  /\ status = "assembling" /\ Len(operands) = Len(Strings)
  /\ str_section_head = << >>
  /\ status' = "done"
  /\ UNCHANGED <<text, rest, tokens, operands, str_section_head, printed>>

Init ==
  /\ text \in Texts /\ rest = text
  /\ tokens = << >> /\ operands = << >>
  /\ str_section_head = << >> /\ printed = << >>
  /\ status = "lexing"

Next == \/ DropString \/ ReturnString \/ ReturnChar \/ InvalidChar \/ SkipOther
        \/ EndOfText \/ parse_operand \/ PrintSection \/ EndOfFunction

Spec == Init /\ [][Next]_vars

-----------------------------------------------------------------------------
(* The assembler: it knows \b \f \n \r \t, the backslash, the quote and up *)
(* to three octal digits; any other character stands for itself, and a     *)
(* quote ends the string.                                                  *)

RECURSIVE Assembled(_)
Assembled(s) ==
  LET oct == Smaller(Leading(Tail(s), OctDigit), 3)
      Rest(n) == Assembled(SubSeq(s, n + 1, Len(s))) IN
  CASE s = << >> \/ s[1] = Quote -> <<0>>
    [] s # << >> /\ s[1] \notin {Quote, BackSlash} -> <<s[1]>> \o Rest(1)
    [] s # << >> /\ s[1] = BackSlash /\ s[2] \in OctDigit ->
         <<Number(Tail(s), oct, 8) % 256>> \o Rest(oct + 1)
    [] OTHER -> <<IF s[2] \in {97, 118} THEN s[2] ELSE Escape[s[2]]>> \o Rest(2)

-----------------------------------------------------------------------------
(* C: a literal ends at the first quote that no escape takes; an octal     *)
(* escape has up to three digits, a hexadecimal one all that follow.       *)

Illegal == <<[type |-> "illegal", content |-> << >>]>>

\* The first character of a literal's text s: its value and its length, 0
\* when C has no such escape.
CharOfC(s) ==
  LET oct == Smaller(Leading(Tail(s), OctDigit), 3)
      hex == Leading(SubSeq(s, 3, Len(s)), HexDigit)
      Value(base, from, n) ==
        LET v == Number(SubSeq(s, from, Len(s)), n, base) IN
        [value |-> v, length |-> IF n = 0 \/ v > 255 THEN 0 ELSE from - 1 + n] IN
  CASE s[1] # BackSlash -> [value |-> s[1], length |-> IF s[1] = NewLine THEN 0 ELSE 1]
    [] Len(s) > 1 /\ s[2] \in DOMAIN Escape -> [value |-> Escape[s[2]], length |-> 2]
    [] Len(s) > 1 /\ s[2] \in OctDigit -> Value(8, 2, oct)
    [] Len(s) > 1 /\ s[2] = LowerX -> Value(16, 3, hex)
    [] OTHER -> [value |-> 0, length |-> 0]

RECURSIVE LiteralOfC(_, _, _), TokensOfC(_)
\* The tokens of C from within a literal that ends in q and has begun with
\* the bytes so_far.  A character literal of several characters has no value
\* that C lays down.
LiteralOfC(s, q, so_far) ==
  IF s = << >> THEN Illegal
  ELSE IF s[1] # q
    THEN LET c == CharOfC(s) IN
         IF c.length = 0 THEN Illegal
         ELSE LiteralOfC(SubSeq(s, c.length + 1, Len(s)), q, Append(so_far, c.value))
  ELSE IF q = Apostrophe /\ Len(so_far) # 1 THEN Illegal
  ELSE <<[type |-> IF q = Quote THEN "STRING" ELSE "CHARLIT",
          content |-> so_far]>> \o TokensOfC(Tail(s))

TokensOfC(s) ==
  CASE s = << >> -> << >>
    [] s # << >> /\ s[1] \in {Quote, Apostrophe} -> LiteralOfC(Tail(s), s[1], << >>)
    [] s # << >> /\ s[1] = BackSlash -> Illegal
    [] OTHER -> TokensOfC(Tail(s))

LegalInC(s) == \A k \in DOMAIN TokensOfC(s) : TokensOfC(s)[k].type # "illegal"

-----------------------------------------------------------------------------
(* What is known to go wrong.                                              *)

\* The quote after an L becomes the first character of the literal.
WideLiteral(s) == Len(s) > 1 /\ s[1] = UpperL /\ s[2] \in {Quote, Apostrophe}

\* An escape of three hexadecimal digits, "\x041", is C; the string is dropped.
LongHex(s) ==
  \E k \in 1..(Len(s) - 4) : /\ s[k] = BackSlash /\ s[k + 1] = LowerX
                             /\ \A i \in 2..4 : s[k + i] \in HexDigit

\* The x after "\x0" is read as part of a prefix, and lost.
HexPrefix(s) ==
  \E k \in 1..(Len(s) - 3) : /\ s[k] = BackSlash /\ s[k + 1] = LowerX
                             /\ s[k + 2] = Zero /\ s[k + 3] \in {LowerX, UpperX}

\* The second backslash of "\\" is read as the start of an escape of its own:
\* the quote after it does not end the string when there is another one, and
\* with x or an ordinary character after it the string is dropped.
EscapedBackslash(s) ==
  \E k \in 1..(Len(s) - 2) :
    /\ s[k] = BackSlash /\ s[k + 1] = BackSlash
    /\ IF s[k + 2] = Quote THEN \E i \in (k + 3)..Len(s) : s[i] = Quote
       ELSE s[k + 2] \notin DOMAIN Escape \cup OctDigit

\* [^\\]+ takes in all that stands between two character literals, on any
\* number of lines, and with an escape in either of them '.+' does.
SeveralApostrophes(s) ==
  \E i, j, k \in DOMAIN s : i < j /\ j < k /\ {s[i], s[j], s[k]} = {Apostrophe}
                            /\ s[j - 1] # BackSlash

\* \0 and a digit are one octal escape to the assembler.
NulBeforeDigit(bytes) ==
  \E k \in 1..(Len(bytes) - 1) : bytes[k] = 0 /\ bytes[k + 1] \in OctDigit
\* \a and \v are no escapes to the assembler.
AlertOrTab(bytes) == ToSet(bytes) \cap {7, 11} # {}

-----------------------------------------------------------------------------
\* The variables range over what they are declared for.
TypeOK ==
  /\ IsSuffix(rest, text)
  /\ \A k \in DOMAIN tokens : /\ tokens[k].type \in {"STRING", "CHARLIT"}
                              /\ ToSet(tokens[k].content) \subseteq 0..Uninitialised
                              /\ tokens[k].type = "CHARLIT" => Len(tokens[k].content) = 1
  /\ \A k \in DOMAIN operands : operands[k] = k - 1
  /\ Len(operands) = Len(str_section_head) + Len(printed)
  /\ status \in {"lexing", "exit", "assembling", "done"}

\* A text that is C gives the literals C sees in it, each with C's bytes, but
\* for the four ways to lose a literal (lexer.l:58-91) and the one to lose an x
\* of it (to_bytes, lex_help.c:53).
LiteralsAsInC ==
  status \in {"assembling", "exit"} /\ LegalInC(text) =>
    \/ WideLiteral(text) \/ LongHex(text) \/ EscapedBackslash(text) \/ SeveralApostrophes(text)
    \/ HexPrefix(text)
    \/ status # "exit" /\ tokens = TokensOfC(text)

\* In any text at all, the rules for invalid strings and characters leave
\* to_bytes no escape whose digits sscanf would look for in vain
\* (lex_help.c:50-55).
EscapesReadable ==
  \A k \in DOMAIN tokens : Uninitialised \notin ToSet(tokens[k].content)

\* Where an instruction names a string, the assembler puts the string's bytes
\* and a NUL, once, but for the bytes to_char does not write so that they can
\* be read (assemble.c:117-130, 317-336).
SectionsHoldStrings ==
  status = "done" =>
    \A k \in DOMAIN operands :
      LET at == {i \in DOMAIN printed : printed[i].label = operands[k]} IN
      /\ Cardinality(at) = 1
      /\ \A i \in at :
           \/ NulBeforeDigit(Strings[k].content) \/ AlertOrTab(Strings[k].content)
           \/ Assembled(printed[i].string) = Append(Strings[k].content, 0)
=============================================================================
