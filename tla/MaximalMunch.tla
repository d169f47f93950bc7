---------------------------- MODULE MaximalMunch ----------------------------
(***************************************************************************)
(* What lexing is: the text is cut into lexemes, each the longest that     *)
(* begins where the one before it ended (C17 6.4p4).  Which ranges of      *)
(* bytes are lexemes is said without saying how to find them; a character  *)
(* that begins none is an unknown lexeme.                                  *)
(***************************************************************************)
EXTENDS SourceFile

CONSTANTS
  Blanks, IdentStart, Digits,  \* the bytes of blanks, and of identifiers and numbers
  Keywords, Punctuators        \* the texts of keywords and of punctuators

VARIABLE
  lexemes  \* [kind, lo, hi] in the order of the text

Bytes(from, to) == [i \in 1 .. to - from |-> Byte(from + i - 1)]
Every(from, to, set) == \A q \in from .. to - 1 : Byte(q) \in set
None(from, to, set) == \A q \in from .. to - 1 : Byte(q) \notin set

-----------------------------------------------------------------------------
(* Lexemes.                                                                   *)

Newline(from, to) == Bytes(from, to) \in {<<"LF">>, <<"CR">>, <<"CR", "LF">>}

LineComment(from, to) ==
  Bytes(from, from + 2) = <<"/", "/">> /\ from + 2 <= to /\ None(from, to, {"LF", "CR"})

\* A comment ends at the first */ after its opening, or with the file.
BlockComment(from, to) ==
  LET closes == {q \in from + 4 .. Size : Bytes(q - 2, q) = <<"*", "/">>}
  IN Bytes(from, from + 2) = <<"/", "*">> /\ to = Min(closes \cup {Size})

\* An escaped byte comes after an odd number of backslashes.
Escaped(q, body) ==
  LET first == Min({r \in body .. q : Every(r, q, {"\\"})}) IN (q - first) % 2 = 1

\* A literal ends with the first closing quote that is not escaped; one that has
\* none on its line ends before the line does.
Literal(quote, from, to) ==
  \E prefix \in {<<>>, <<"u">>, <<"u", "8">>, <<"U">>, <<"L">>} :
    LET body == from + Len(prefix) + 1
        end == Min({Size} \cup {q \in body .. Size - 1 : Byte(q) \in {quote, "LF"} /\ ~Escaped(q, body)})
    IN /\ Bytes(from, body) = Append(prefix, quote)
       /\ to = IF Byte(end) = quote THEN end + 1 ELSE end

Word(from, to) == Byte(from) \in IdentStart /\ Every(from, to, IdentStart \cup Digits)

Base(from) ==
  CASE Bytes(from, from + 2) \in {<<"0", "x">>, <<"0", "X">>} -> "hex"
    [] Bytes(from, from + 2) \in {<<"0", "b">>, <<"0", "B">>} -> "binary"
    [] Bytes(from, from + 2) \in {<<"0", d>> : d \in Digits} -> "octal"
    [] OTHER -> "decimal"

Exponents(from) == IF Base(from) = "hex" THEN {"p", "P"} ELSE {"e", "E"}

\* A preprocessing number: a sign belongs to it after the exponent letter of its base.
Numeral(from, to) ==
  /\ Byte(from) \in Digits \/ (Byte(from) = "." /\ Byte(from + 1) \in Digits)
  /\ \A q \in from .. to - 1 :
       \/ Byte(q) \in IdentStart \cup Digits \cup {".", "'"}
       \/ Byte(q) \in {"+", "-"} /\ Byte(q - 1) \in Exponents(from)

IsFloat(from, to) == ~None(from, to, {"."} \cup Exponents(from))

IntKinds == [decimal |-> "int_decimal", octal |-> "int_octal", hex |-> "int_hex", binary |-> "int_binary"]

NumeralKinds == {"float_literal", "int_decimal", "int_octal", "int_hex", "int_binary"}
WordKinds == {"keyword", "ident"}

NumeralKind(from, to) == IF IsFloat(from, to) THEN "float_literal" ELSE IntKinds[Base(from)]
WordKind(from, to) == IF Bytes(from, to) \in Keywords THEN "keyword" ELSE "ident"

Lexeme(kind, from, to) ==
  \/ kind = "newline" /\ Newline(from, to)
  \/ kind = "whitespace" /\ Every(from, to, Blanks)
  \/ kind = "line_comment" /\ LineComment(from, to)
  \/ kind = "block_comment" /\ BlockComment(from, to)
  \/ kind = "string_literal" /\ Literal("\"", from, to)
  \/ kind = "char_literal" /\ Literal("'", from, to)
  \/ kind \in WordKinds /\ Word(from, to) /\ kind = WordKind(from, to)
  \/ kind \in NumeralKinds /\ Numeral(from, to) /\ kind = NumeralKind(from, to)
  \/ kind = "punctuator" /\ Bytes(from, to) \in Punctuators

Kinds ==
  {"newline", "whitespace", "line_comment", "block_comment", "string_literal", "char_literal", "punctuator"}
    \cup WordKinds \cup NumeralKinds

LexemesAt(from) == {l \in [kind : Kinds, lo : {from}, hi : from + 1 .. Size] : Lexeme(l.kind, from, l.hi)}

-----------------------------------------------------------------------------
(* The text is cut.                                                           *)

Start == IF lexemes = <<>> THEN 0 ELSE Last(lexemes).hi
AtEnd == lexemes # <<>> /\ Last(lexemes).kind = "eof"

Init == lexemes = <<>>

Munch(here) ==
  /\ Start < Size
  /\ \E l \in IF here = {} THEN {[kind |-> "unknown", lo |-> Start, hi |-> NextChar(Start)]} ELSE here :
       /\ \A other \in here : other.hi <= l.hi
       /\ lexemes' = Append(lexemes, l)

End ==
  /\ Start = Size /\ ~AtEnd
  /\ lexemes' = Append(lexemes, [kind |-> "eof", lo |-> Size, hi |-> Size])

Next == (Munch(LexemesAt(Start)) \/ End) /\ UNCHANGED text

\* Every lexeme is a longest one; Spec says besides that the text is cut to its end.
Safety == Init /\ [][Next]_<<text, lexemes>>

Spec == Safety /\ WF_<<text, lexemes>>(Next)
=============================================================================
