-------------------------------- MODULE Lexer --------------------------------
(***************************************************************************)
(* The lexer (crates/rccx_lexer) over one source file.                     *)
(*                                                                         *)
(* next_token looks at the bytes at `pos` and runs one of a handful of     *)
(* loops; `doing` says which one, and an action is one round of it.  A     *)
(* token is its kind and the half-open range of its bytes; punctuators are *)
(* of one kind, told apart by their bytes.  The keyword table is cut to    *)
(* the two keywords of two letters, byte classes to a few of their bytes.  *)
(* Messages are left out: a diagnostic is its code and its span.           *)
(***************************************************************************)
EXTENDS SourceFile

CONSTANT
  Texts  \* the texts Init may pick

ASSUME TextsAssumption == \A t \in Texts : IsUtf8(t)

VARIABLES
  pos,         \* Lexer::pos
  lo,          \* where the token being read begins
  doing,       \* "next_token", the loop that runs, or "done"
  base,        \* base in number
  isFloat,     \* is_float in number
  tokens,      \* what lex has collected
  diagnostics  \* Lexer::diagnostics

vars == <<text, pos, lo, doing, base, isFloat, tokens, diagnostics>>

-----------------------------------------------------------------------------
(* Bytes.                                                                     *)

Blanks == {" ", "TAB"}
Quotes == {"\"", "'"}
Digits == {"0", "1", "8"}
HexLetters == {"b", "d", "e", "f", "B", "E"}
Letters == HexLetters \cup {"i", "o", "p", "u", "x", "L", "P", "U", "X"}

IdentStart == Letters \cup {"_"}
IdentContinue == IdentStart \cup Digits

Keywords == {<<"d", "o">>, <<"i", "f">>}

Punctuators3 == {<<".", ".", ".">>, <<"<", "<", "=">>, <<">", ">", "=">>}

Punctuators2 ==
  {<<"-", ">">>, <<"+", "+">>, <<"-", "-">>, <<"<", "<">>, <<">", ">">>, <<"&", "&">>, <<"|", "|">>,
   <<"#", "#">>, <<":", ":">>}
    \cup {<<b, "=">> : b \in {"<", ">", "=", "!", "+", "-", "*", "/", "%", "&", "|", "^"}}

Punctuators1 ==
  {"(", ")", "{", "}", "[", "]", ";", ",", ".", "+", "-", "*", "/", "%", "&", "|", "^", "~", "!",
   "<", ">", "=", "?", ":", "#"}

Ahead(n) == [i \in 1 .. n |-> Byte(pos + i - 1)]

\* Mutant: the two-byte forms are tried before the three-byte ones.
PunctuatorLength_ShortestFirst ==
  CASE Ahead(2) \in Punctuators2 -> 2
    [] Ahead(2) \notin Punctuators2 /\ Ahead(3) \in Punctuators3 -> 3
    [] Ahead(2) \notin Punctuators2 /\ Ahead(3) \notin Punctuators3 /\ Byte(pos) \in Punctuators1 -> 1
    [] OTHER -> 0

PunctuatorLength ==
  CASE Ahead(3) \in Punctuators3 -> 3
    [] Ahead(3) \notin Punctuators3 /\ Ahead(2) \in Punctuators2 -> 2
    [] Ahead(3) \notin Punctuators3 /\ Ahead(2) \notin Punctuators2 /\ Byte(pos) \in Punctuators1 -> 1
    [] OTHER -> 0

-----------------------------------------------------------------------------
(* Steps of next_token.                                                       *)

Init ==
  /\ text \in Texts
  /\ pos = 0 /\ lo = 0 /\ doing = "next_token"
  /\ base = "decimal" /\ isFloat = FALSE
  /\ tokens = <<>> /\ diagnostics = <<>>

\* Go on reading at q in the loop.
Read(loop, q) ==
  /\ doing' = loop /\ pos' = q
  /\ UNCHANGED <<text, lo, base, isFloat, tokens, diagnostics>>

\* The token ends at q.
Emit(kind, q, errors) ==
  /\ tokens' = Append(tokens, [kind |-> kind, lo |-> lo, hi |-> q])
  /\ diagnostics' = diagnostics \o [i \in DOMAIN errors |-> [code |-> errors[i], lo |-> lo, hi |-> q]]
  /\ doing' = "next_token" /\ pos' = q /\ lo' = q
  /\ base' = "decimal" /\ isFloat' = FALSE
  /\ UNCHANGED text

At(loop) == doing = loop

LexNewline == At("next_token") /\ Byte(pos) = "LF" /\ Emit("newline", pos + 1, <<>>)

LexReturn ==
  /\ At("next_token") /\ Byte(pos) = "CR"
  /\ Emit("newline", IF Byte(pos + 1) = "LF" THEN pos + 2 ELSE pos + 1, <<>>)

LexWhitespace == At("next_token") /\ Byte(pos) \in Blanks /\ Read("whitespace", pos)

Whitespace ==
  /\ At("whitespace")
  /\ IF Byte(pos) \in Blanks THEN Read("whitespace", NextChar(pos)) ELSE Emit("whitespace", pos, <<>>)

-----------------------------------------------------------------------------
(* Comments.                                                                  *)

StartsLineComment == Ahead(2) = <<"/", "/">>
StartsBlockComment == Ahead(2) = <<"/", "*">>

LexLineComment == At("next_token") /\ StartsLineComment /\ Read("line_comment", pos + 2)

\* Mutant: a line comment ends at LF only.
LineComment_LfOnly ==
  /\ At("line_comment")
  /\ IF Byte(pos) \in {"LF", "none"} THEN Emit("line_comment", pos, <<>>)
     ELSE Read("line_comment", NextChar(pos))

LineComment ==
  /\ At("line_comment")
  /\ IF Byte(pos) \in {"LF", "CR", "none"} THEN Emit("line_comment", pos, <<>>)
     ELSE Read("line_comment", NextChar(pos))

LexBlockComment == At("next_token") /\ StartsBlockComment /\ Read("block_comment", pos + 2)

BlockComment ==
  /\ At("block_comment")
  /\ CASE Byte(pos) = "none" -> Emit("block_comment", pos, <<"E0103">>)
       [] Ahead(2) = <<"*", "/">> -> Emit("block_comment", pos + 2, <<>>)
       [] OTHER -> Read("block_comment", NextChar(pos))

-----------------------------------------------------------------------------
(* String and character literals, with an encoding prefix u, u8, U or L.      *)

Prefix ==
  CASE Byte(pos) \notin {"u", "U", "L"} -> 0
    [] Ahead(2) = <<"u", "8">> -> 2
    [] OTHER -> 1

StartsLiteral == Byte(pos + Prefix) \in Quotes

LexLiteral ==
  /\ At("next_token") /\ StartsLiteral
  /\ Read(IF Byte(pos + Prefix) = "'" THEN "char_literal" ELSE "string_literal", pos + Prefix + 1)

Unterminated == IF At("char_literal") THEN "E0102" ELSE "E0101"

Literal ==
  /\ doing \in {"string_literal", "char_literal"}
  /\ CASE Byte(pos) = (IF At("char_literal") THEN "'" ELSE "\"") -> Emit(doing, pos + 1, <<>>)
       [] Byte(pos) = "\\" -> Read(doing, IF pos + 1 < Size THEN NextChar(pos + 1) ELSE pos + 1)
       [] Byte(pos) \in {"LF", "none"} -> Emit(doing, pos, <<Unterminated>>)
       [] OTHER -> Read(doing, NextChar(pos))

-----------------------------------------------------------------------------
(* Identifiers and keywords.                                                  *)

LexIdent == At("next_token") /\ ~StartsLiteral /\ Byte(pos) \in IdentStart /\ Read("ident", pos)

Ident ==
  /\ At("ident")
  /\ IF Byte(pos) \in IdentContinue THEN Read("ident", NextChar(pos))
     ELSE Emit(IF SubSeq(text, lo + 1, pos) \in Keywords THEN "keyword" ELSE "ident", pos, <<>>)

-----------------------------------------------------------------------------
(* Numbers.                                                                   *)

StartsNumber == Byte(pos) \in Digits \/ (Byte(pos) = "." /\ Byte(pos + 1) \in Digits)

\* The base a leading 0 announces, and where the loop begins.
BaseAhead ==
  CASE Byte(pos) # "0" -> "decimal"
    [] Ahead(2) \in {<<"0", "x">>, <<"0", "X">>} -> "hex"
    [] Ahead(2) \in {<<"0", "b">>, <<"0", "B">>} -> "binary"
    [] Ahead(2) \in {<<"0", d>> : d \in Digits} -> "octal"
    [] OTHER -> "decimal"

LexNumber ==
  /\ At("next_token") /\ StartsNumber
  /\ doing' = "number" /\ base' = BaseAhead /\ isFloat' = (Byte(pos) = ".")
  /\ pos' = CASE BaseAhead \in {"hex", "binary"} -> pos + 2
              [] Byte(pos) \in {".", "0"} /\ BaseAhead \notin {"hex", "binary"} -> pos + 1
              [] OTHER -> pos
  /\ UNCHANGED <<text, lo, tokens, diagnostics>>

ValidDigits ==
  {"'"} \cup CASE base = "hex" -> Digits \cup HexLetters
               [] base = "binary" -> {"0", "1"}
               [] OTHER -> Digits

Exponents == IF base = "hex" THEN {"p", "P"} ELSE {"e", "E"}

IntLiteral ==
  [decimal |-> "int_decimal", octal |-> "int_octal", hex |-> "int_hex", binary |-> "int_binary"]

NumberPart == ValidDigits \cup (IdentContinue \ Exponents)

FloatPart(q) ==
  /\ isFloat' = TRUE /\ pos' = q
  /\ UNCHANGED <<text, lo, doing, base, tokens, diagnostics>>

Number ==
  /\ At("number")
  /\ CASE Byte(pos) \in NumberPart -> Read("number", NextChar(pos))
       [] Byte(pos) = "." -> FloatPart(pos + 1)
       [] Byte(pos) \in Exponents ->
            FloatPart(IF Byte(pos + 1) \in {"+", "-"} THEN pos + 2 ELSE pos + 1)
       [] OTHER -> Emit(IF isFloat THEN "float_literal" ELSE IntLiteral[base], pos, <<>>)

-----------------------------------------------------------------------------
(* Punctuators, anything else, and the end of the file.                       *)

LexPunctuator ==
  /\ At("next_token") /\ ~StartsLineComment /\ ~StartsBlockComment /\ ~StartsNumber
  /\ PunctuatorLength > 0
  /\ Emit("punctuator", pos + PunctuatorLength, <<>>)

Known ==
  \/ Byte(pos) \in Blanks \cup {"LF", "CR"} \cup IdentStart
  \/ StartsLiteral \/ StartsNumber \/ PunctuatorLength > 0

\* Mutant: a stray character is skipped by its first byte.
LexStray_OneByte ==
  /\ At("next_token") /\ Byte(pos) # "none" /\ ~Known
  /\ Emit("unknown", pos + 1, <<"E0104">>)

LexStray ==
  /\ At("next_token") /\ Byte(pos) # "none" /\ ~Known
  /\ Emit("unknown", NextChar(pos), <<"E0104">>)

LexEof ==
  /\ At("next_token") /\ Byte(pos) = "none"
  /\ tokens' = Append(tokens, [kind |-> "eof", lo |-> Size, hi |-> Size])
  /\ doing' = "done"
  /\ UNCHANGED <<text, pos, lo, base, isFloat, diagnostics>>

-----------------------------------------------------------------------------

NextToken ==
  \/ LexNewline \/ LexReturn \/ LexWhitespace \/ LexLineComment \/ LexBlockComment
  \/ LexLiteral \/ LexIdent \/ LexNumber \/ LexPunctuator \/ LexStray

Loops == Whitespace \/ LineComment \/ BlockComment \/ Literal \/ Ident \/ Number

Lex == NextToken \/ Loops \/ LexEof

Terminating == At("done") /\ UNCHANGED vars

Next == Lex \/ Terminating

\* lex calls next_token until it returns None.
Spec == Init /\ [][Next]_vars /\ WF_vars(Lex)
=============================================================================
