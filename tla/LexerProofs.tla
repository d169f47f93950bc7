----------------------------- MODULE LexerProofs -----------------------------
(***************************************************************************)
(* Theorems about Lexer, for every set of texts: its invariants, and that  *)
(* it implements maximal munch (every step of Lexer is a step of           *)
(* MaximalMunch or changes no token).                                      *)
(***************************************************************************)
EXTENDS LexMeaning, SequenceFacts, SequenceTheorems, FiniteSetTheorems, WellFoundedInduction, TLAPS

-----------------------------------------------------------------------------
(* Lemmas about the text. *)

LEMMA TextType ==
  ASSUME text \in Texts
  PROVE  /\ Size \in Nat
         /\ \A p \in Nat : Byte(p) # "none" <=> p < Size
         /\ IsBoundary(Size) /\ IsBoundary(0)
         /\ \A p \in Nat : Byte(p) \notin {"none", "C3", "E2"} \cup Continuation => IsBoundary(p + 1)
<1>1. IsUtf8(text)
  BY TextsAssumption
<1>2. Size \in Nat /\ DOMAIN text = 1 .. Size
  BY <1>1 DEF IsUtf8, Size
<1> HIDE DEF Size
<1>a. /\ \A i \in 1 .. Size : text[i] # "none"
      /\ \A i \in 1 .. Size : text[i] \in Continuation =>
           i > 1 /\ text[i - 1] \in Continuation \cup {"C3", "E2"}
  BY <1>1, <1>2 DEF IsUtf8
<1>3. ASSUME NEW p \in Nat PROVE Byte(p) # "none" <=> p < Size
  <2>1. CASE p < Size
    <3>1. p + 1 \in 1 .. Size /\ Byte(p) = text[p + 1]
      BY <1>2, <2>1 DEF Byte
    <3> QED
      BY <2>1, <3>1, <1>a
  <2>2. CASE ~ (p < Size)
    BY <2>2 DEF Byte
  <2> QED
    BY <2>1, <2>2
<1>4. IsBoundary(Size) /\ IsBoundary(0)
  BY <1>1, <1>2 DEF IsUtf8, Byte, IsBoundary, Continuation
<1>5. ASSUME NEW p \in Nat, Byte(p) \notin {"none", "C3", "E2"} \cup Continuation
      PROVE  IsBoundary(p + 1)
  <2>1. p < Size /\ Byte(p) = text[p + 1]
    BY <1>3, <1>5 DEF Byte
  <2>2. CASE p + 1 < Size
    <3>1. p + 2 \in 1 .. Size /\ Byte(p + 1) = text[p + 2] /\ (p + 2) - 1 = p + 1
      BY <1>2, <2>2 DEF Byte
    <3>2. text[p + 2] \notin Continuation
      BY <1>a, <1>5, <2>1, <3>1
    <3> QED
      BY <3>1, <3>2 DEF IsBoundary
  <2>3. CASE p + 1 = Size
    BY <1>4, <2>3
  <2> QED
    BY <1>2, <2>1, <2>2, <2>3
<1> QED
  BY <1>2, <1>3, <1>4, <1>5

\* The next character begins behind this one, at a boundary.
LEMMA NextCharType ==
  ASSUME text \in Texts, NEW p \in Nat, p < Size
  PROVE  NextChar(p) \in p + 1 .. Size /\ IsBoundary(NextChar(p))
<1> DEFINE S == {q \in p + 1 .. Size : IsBoundary(q)}
<1>1. Size \in S /\ S \in SUBSET Nat
  BY TextType
<1>2. Min(S) \in S
  BY <1>1, MinIsLeast
<1> QED
  BY <1>2 DEF NextChar

\* Behind a byte of ASCII there is a boundary.
LEMMA AfterAscii ==
  ASSUME text \in Texts, NEW p \in Nat, Byte(p) \notin {"none", "C3", "E2"} \cup Continuation
  PROVE  p + 1 <= Size /\ IsBoundary(p + 1)
BY TextType

LEMMA AheadBytes ==
  ASSUME pos \in Nat
  PROVE  /\ \A a, b : Ahead(2) = <<a, b>> => Byte(pos) = a /\ Byte(pos + 1) = b
         /\ \A a, b, c : Ahead(3) = <<a, b, c>> => Byte(pos) = a /\ Byte(pos + 1) = b /\ Byte(pos + 2) = c
<1>1. Ahead(2)[1] = Byte(pos) /\ Ahead(2)[2] = Byte(pos + 1)
  BY DEF Ahead
<1>2. Ahead(3)[1] = Byte(pos) /\ Ahead(3)[2] = Byte(pos + 1) /\ Ahead(3)[3] = Byte(pos + 2)
  BY DEF Ahead
<1> QED
  BY <1>1, <1>2

\* A punctuator is in the text as a whole.
LEMMA PunctuatorType ==
  ASSUME text \in Texts, pos \in Nat, PunctuatorLength > 0
  PROVE  /\ PunctuatorLength \in 1 .. 3
         /\ pos + PunctuatorLength <= Size
         /\ IsBoundary(pos + PunctuatorLength)
<1>1. \A p \in Nat : Byte(p) \in Punctuators1 => p + 1 <= Size /\ IsBoundary(p + 1)
  BY AfterAscii DEF Punctuators1, Continuation
<1>2. CASE Ahead(3) \in Punctuators3
  <2>1. PunctuatorLength = 3
    BY <1>2 DEF PunctuatorLength
  <2>2. Byte(pos + 2) \in Punctuators1
    BY <1>2, AheadBytes DEF Punctuators3, Punctuators1
  <2>3. (pos + 2) + 1 <= Size /\ IsBoundary((pos + 2) + 1) /\ (pos + 2) + 1 = pos + 3
    BY <1>1, <2>2
  <2> QED
    BY <2>1, <2>3
<1>3. CASE Ahead(3) \notin Punctuators3 /\ Ahead(2) \in Punctuators2
  <2>1. PunctuatorLength = 2
    BY <1>3 DEF PunctuatorLength
  <2>2. Byte(pos + 1) \in Punctuators1
    BY <1>3, AheadBytes DEF Punctuators2, Punctuators1
  <2>3. (pos + 1) + 1 <= Size /\ IsBoundary((pos + 1) + 1) /\ (pos + 1) + 1 = pos + 2
    BY <1>1, <2>2
  <2> QED
    BY <2>1, <2>3
<1>4. CASE Ahead(3) \notin Punctuators3 /\ Ahead(2) \notin Punctuators2
  <2>1. PunctuatorLength = 1 /\ Byte(pos) \in Punctuators1
    BY <1>4 DEF PunctuatorLength
  <2> QED
    BY <1>1, <2>1
<1> QED
  BY <1>2, <1>3, <1>4

-----------------------------------------------------------------------------
(* The inductive invariant. *)

TokenKinds ==
  {"newline", "whitespace", "line_comment", "block_comment", "string_literal", "char_literal", "ident", "keyword",
   "float_literal", "int_decimal", "int_octal", "int_hex", "int_binary", "punctuator", "unknown", "eof"}
ErrorCodes == {"E0101", "E0102", "E0103", "E0104"}
LoopNames == {"whitespace", "line_comment", "block_comment", "string_literal", "char_literal", "ident", "number"}

TypeInv ==
  /\ text \in Texts
  /\ lo \in Nat /\ pos \in Nat
  /\ doing \in LoopNames \cup {"next_token", "done"}
  /\ base \in DOMAIN IntLiteral /\ isFloat \in BOOLEAN
  /\ tokens \in Seq([kind : TokenKinds, lo : Nat, hi : Nat])
  /\ diagnostics \in Seq([code : ErrorCodes, lo : Nat, hi : Nat])

\* The loops that are entered before their first byte is consumed, and that byte.
FirstByte == [whitespace |-> Blanks, ident |-> IdentStart, number |-> Digits]
Begun(loop, q) == lo < q \/ (loop \in DOMAIN FirstByte /\ Byte(q) \in FirstByte[loop])

\* Between two tokens nothing is consumed; within one, something is or will be.
ProgressInv ==
  /\ doing \in {"next_token", "done"} => pos = lo
  /\ doing \in LoopNames => Begun(doing, pos)

TokensBehind == \A i \in DOMAIN tokens : tokens[i].hi <= lo

TilingInv == TypeInv /\ ProgressInv /\ TokensBehind /\ TokensTile

LEMMA InitTiles == Init => TilingInv
<1> SUFFICES ASSUME Init PROVE TilingInv
  OBVIOUS
<1>1. TypeInv
  <2>1. base \in DOMAIN IntLiteral
    BY DEF Init, IntLiteral
  <2>2. tokens \in Seq([kind : TokenKinds, lo : Nat, hi : Nat])
    BY DEF Init
  <2>3. diagnostics \in Seq([code : ErrorCodes, lo : Nat, hi : Nat])
    BY DEF Init
  <2> QED
    BY <2>1, <2>2, <2>3 DEF Init, TypeInv
<1>2. ProgressInv /\ TokensBehind
  BY DEF Init, ProgressInv, TokensBehind, LoopNames
<1>3. IsBoundary(0) /\ Size \in Nat
  BY TextType DEF Init
<1>4. TokensTile
  BY <1>3 DEF Init, TokensTile, End
<1> QED
  BY <1>1, <1>2, <1>4 DEF TilingInv

\* What a step does not change as long as the text stays.
LEMMA SameText ==
  ASSUME text' = text
  PROVE  Size' = Size /\ \A p : Byte(p)' = Byte(p) /\ IsBoundary(p)' = IsBoundary(p)
BY DEF Size, Byte, IsBoundary

\* A step that reads on inside of a token.
LEMMA ReadTiles ==
  ASSUME TilingInv, doing # "done",
         NEW loop \in LoopNames, NEW q \in Nat, pos <= q, q <= Size, IsBoundary(q), Begun(loop, q),
         doing' = loop, pos' = q, UNCHANGED <<text, lo, tokens, diagnostics>>,
         base' \in DOMAIN IntLiteral, isFloat' \in BOOLEAN
  PROVE  TilingInv'
<1>1. TypeInv'
  BY DEF TilingInv, TypeInv
<1>2. ProgressInv'
  <2>1. Byte(q)' = Byte(q)
    BY SameText
  <2>2. Begun(doing, pos)'
    BY <2>1 DEF Begun
  <2> QED
    BY <2>2 DEF ProgressInv, LoopNames
<1>3. TokensBehind'
  BY DEF TilingInv, TokensBehind
<1>4. TokensTile'
  <2>1. Size' = Size /\ (\A p : IsBoundary(p)' = IsBoundary(p)) /\ \A i : End(i)' = End(i)
    BY SameText DEF End
  <2>2. \A d, t : IsAbout(d, t)' = IsAbout(d, t)
    BY DEF IsAbout
  <2>3. doing' # "done" /\ lo \in Nat /\ pos \in Nat /\ Size \in Nat
    BY TextType DEF LoopNames, TilingInv, TypeInv
  <2>4. lo' <= pos' /\ pos' <= Size'
    BY <2>1, <2>3 DEF TilingInv, TokensTile
  <2> QED
    BY <2>1, <2>2, <2>3, <2>4 DEF TilingInv, TokensTile
<1> QED
  BY <1>1, <1>2, <1>3, <1>4 DEF TilingInv

\* A step that ends a token, with at most one diagnostic about it.
LEMMA EmitTiles ==
  ASSUME TilingInv, doing # "done",
         NEW kind \in TokenKinds \ {"eof"}, NEW q \in Nat, lo < q, q <= Size, IsBoundary(q),
         NEW errors \in Seq(ErrorCodes), Len(errors) <= 1,
         \A e \in DOMAIN errors : kind \in DOMAIN Codes /\ errors[e] \in Codes[kind],
         kind = "unknown" => errors # <<>>,
         Emit(kind, q, errors)
  PROVE  TilingInv'
<1> DEFINE tok == [kind |-> kind, lo |-> lo, hi |-> q]
           es == [i \in DOMAIN errors |-> [code |-> errors[i], lo |-> lo, hi |-> q]]
           Tok == [kind : TokenKinds, lo : Nat, hi : Nat]
           Diag == [code : ErrorCodes, lo : Nat, hi : Nat]
<1>a. tokens \in Seq(Tok) /\ diagnostics \in Seq(Diag) /\ lo \in Nat /\ pos \in Nat
  BY DEF TilingInv, TypeInv
<1>n. PICK n \in Nat : n = Len(tokens)
  BY <1>a
<1>m. PICK m \in Nat : m = Len(diagnostics)
  BY <1>a
<1>1. /\ tokens' \in Seq(Tok) /\ Len(tokens') = n + 1 /\ DOMAIN tokens' = 1 .. n + 1
      /\ n \in Nat /\ DOMAIN tokens = 1 .. n
      /\ \A i \in 1 .. n : tokens'[i] = tokens[i]
      /\ tokens'[n + 1] = tok
  <2>1. tok \in Tok /\ tokens' = Append(tokens, tok)
    BY <1>a DEF Emit
  <2> QED
    BY <1>a, <1>n, <2>1
<1>2. es \in Seq(Diag) /\ Len(es) = Len(errors) /\ Len(errors) \in {0, 1} /\ DOMAIN errors = 1 .. Len(errors)
  <2>1. \A i \in 1 .. Len(errors) : [code |-> errors[i], lo |-> lo, hi |-> q] \in Diag
    BY <1>a
  <2>2. DOMAIN errors = 1 .. Len(errors) /\ Len(errors) \in Nat
    OBVIOUS
  <2>3. es \in [1 .. Len(errors) -> Diag]
    BY <2>1, <2>2
  <2> QED
    BY <2>2, <2>3
<1>3. /\ diagnostics' \in Seq(Diag) /\ m \in Nat /\ DOMAIN diagnostics = 1 .. m
      /\ DOMAIN diagnostics' = 1 .. m + Len(errors)
      /\ \A j \in 1 .. m : diagnostics'[j] = diagnostics[j]
      /\ \A j \in DOMAIN errors : diagnostics'[m + j] = [code |-> errors[j], lo |-> lo, hi |-> q]
  <2>1. diagnostics' = diagnostics \o es
    BY DEF Emit
  <2>2. \A j \in DOMAIN errors : es[j] = [code |-> errors[j], lo |-> lo, hi |-> q]
    OBVIOUS
  <2> HIDE DEF es
  <2>3. /\ diagnostics' \in Seq(Diag)
        /\ Len(diagnostics') = m + Len(errors)
        /\ \A j \in 1 .. m + Len(errors) :
             diagnostics'[j] = IF j <= m THEN diagnostics[j] ELSE es[j - m]
    BY <1>a, <1>m, <1>2, <2>1, ConcatProperties
  <2>4. DOMAIN diagnostics' = 1 .. m + Len(errors) /\ DOMAIN diagnostics = 1 .. m
    BY <1>a, <1>m, <2>3
  <2>5. \A j \in 1 .. m : diagnostics'[j] = diagnostics[j]
    BY <1>2, <2>3
  <2>6. ASSUME NEW j \in DOMAIN errors PROVE diagnostics'[m + j] = es[j]
    <3>1. m + j \in 1 .. m + Len(errors) /\ ~ (m + j <= m) /\ (m + j) - m = j
      BY <1>2
    <3> QED
      BY <2>3, <3>1
  <2> QED
    BY <2>2, <2>3, <2>4, <2>5, <2>6
<1> HIDE DEF tok, es, Tok, Diag
<1>e. ASSUME 1 \in DOMAIN errors
      PROVE  IsAbout(diagnostics'[m + 1], tokens'[n + 1]) /\ diagnostics'[m + 1].lo = lo
  <2>1. diagnostics'[m + 1] = [code |-> errors[1], lo |-> lo, hi |-> q]
    BY <1>3, <1>e
  <2>2. kind \in DOMAIN Codes /\ errors[1] \in Codes[kind]
    BY <1>e
  <2> QED
    BY <1>1, <2>1, <2>2 DEF IsAbout, tok
<1>4. /\ \A i \in 0 .. n : End(i)' = End(i)
      /\ End(n + 1)' = q
  BY <1>1 DEF End, tok
<1>5. /\ lo' = q /\ pos' = q /\ doing' = "next_token" /\ text' = text
      /\ Size' = Size /\ \A p : IsBoundary(p)' = IsBoundary(p)
  BY SameText DEF Emit
<1>6. TypeInv'
  <2>1. base' \in DOMAIN IntLiteral /\ isFloat' \in BOOLEAN
    BY DEF Emit, IntLiteral
  <2> QED
    BY <1>1, <1>3, <1>5, <2>1 DEF TilingInv, TypeInv, Tok, Diag
<1>7. ProgressInv'
  BY <1>5 DEF ProgressInv, LoopNames
<1>8. TokensBehind'
  <2>0. \A i \in 1 .. n : tokens[i] \in Tok
    BY <1>a, <1>1
  <2>1. \A i \in 1 .. n : tokens[i].hi <= lo /\ tokens[i].hi \in Nat
    BY <1>1, <2>0 DEF TilingInv, TokensBehind, Tok
  <2>2. \A i \in 1 .. n + 1 : tokens'[i].hi <= q
    BY <1>a, <1>1, <2>1 DEF tok
  <2> QED
    BY <1>1, <1>5, <2>2 DEF TokensBehind
<1>9. \A j \in 1 .. m + Len(errors) : \E i \in 1 .. n + 1 : IsAbout(diagnostics'[j], tokens'[i])
  <2> SUFFICES ASSUME NEW j \in 1 .. m + Len(errors)
               PROVE  \E i \in 1 .. n + 1 : IsAbout(diagnostics'[j], tokens'[i])
    OBVIOUS
  <2>1. CASE j \in 1 .. m
    <3>1. PICK i \in 1 .. n : IsAbout(diagnostics[j], tokens[i])
      BY <1>1, <1>3, <2>1 DEF TilingInv, TokensTile
    <3> QED
      BY <1>1, <1>3, <2>1, <3>1, SMTT(30)
  <2>2. CASE j \notin 1 .. m
    <3>1. 1 \in DOMAIN errors /\ j = m + 1
      BY <1>2, <1>3, <2>2
    <3>2. IsAbout(diagnostics'[j], tokens'[n + 1])
      BY <1>e, <3>1
    <3> QED
      BY <1>1, <3>2
  <2> QED
    BY <2>1, <2>2
<1>10. \A j, k \in 1 .. m + Len(errors) : j < k => diagnostics'[j].hi <= diagnostics'[k].lo
  <2> SUFFICES ASSUME NEW j \in 1 .. m + Len(errors), NEW k \in 1 .. m + Len(errors), j < k
               PROVE  diagnostics'[j].hi <= diagnostics'[k].lo
    OBVIOUS
  <2>1. j \in 1 .. m
    BY <1>2, <1>3
  <2>2. CASE k \in 1 .. m
    BY <1>3, <2>1, <2>2 DEF TilingInv, TokensTile
  <2>3. CASE k \notin 1 .. m
    <3>0. 1 \in DOMAIN errors /\ k = m + 1
      BY <1>2, <1>3, <2>3, SMTT(30)
    <3>1. diagnostics'[k].lo = lo
      BY <1>e, <3>0
    <3>2. PICK i \in 1 .. n : diagnostics[j].hi = tokens[i].hi
      BY <1>1, <1>3, <2>1 DEF TilingInv, TokensTile, IsAbout
    <3>3. tokens[i].hi <= lo
      BY <1>1, <3>2 DEF TilingInv, TokensBehind
    <3> QED
      BY <1>3, <2>1, <3>1, <3>2, <3>3
  <2> QED
    BY <2>2, <2>3
<1>11. ASSUME NEW i \in 1 .. n + 1
       PROVE  /\ tokens'[i].lo = End(i - 1)'
              /\ tokens'[i].kind # "eof" => tokens'[i].lo < tokens'[i].hi
              /\ tokens'[i].kind # "eof"
              /\ tokens'[i].kind = "unknown" =>
                   \E j \in 1 .. m + Len(errors) : IsAbout(diagnostics'[j], tokens'[i])
  <2>1. CASE i \in 1 .. n
    <3>1. /\ tokens[i].lo = End(i - 1)
          /\ tokens[i].kind # "eof" => tokens[i].lo < tokens[i].hi
          /\ tokens[i].kind # "eof"
      BY <1>1, <2>1 DEF TilingInv, TokensTile
    <3>2. ASSUME tokens[i].kind = "unknown"
          PROVE  \E j \in 1 .. m : IsAbout(diagnostics[j], tokens[i])
      BY <1>1, <1>3, <2>1, <3>2 DEF TilingInv, TokensTile
    <3>3. End(i - 1)' = End(i - 1)
      BY <1>1, <1>4, <2>1
    <3>4. 1 .. m \subseteq 1 .. m + Len(errors)
      BY <1>2, <1>3
    <3> QED
      BY <1>1, <1>3, <2>1, <3>1, <3>2, <3>3, <3>4
  <2>2. CASE i = n + 1
    <3>1. End(n)' = lo /\ i - 1 = n
      BY <1>n, <1>1, <1>4, <2>2 DEF TilingInv, TokensTile
    <3>2. ASSUME kind = "unknown"
          PROVE  \E j \in 1 .. m + Len(errors) : IsAbout(diagnostics'[j], tokens'[i])
      <4>1. 1 \in DOMAIN errors /\ m + 1 \in 1 .. m + Len(errors)
        BY <1>2, <1>3, <3>2
      <4>2. IsAbout(diagnostics'[m + 1], tokens'[i])
        BY <1>e, <2>2, <4>1
      <4> QED
        BY <4>1, <4>2
    <3> QED
      BY <1>1, <2>2, <3>1, <3>2 DEF tok
  <2> QED
    BY <1>1, <2>1, <2>2
<1>12. TokensTile'
  <2>1. ASSUME NEW i \in 0 .. n + 1 PROVE IsBoundary(End(i))'
    <3>1. IsBoundary(End(i)) \/ End(i)' = q
      BY <1>n, <1>1, <1>4 DEF TilingInv, TokensTile
    <3>2. End(i)' = End(i) \/ End(i)' = q
      BY <1>1, <1>4
    <3> QED
      BY <1>5, <3>1, <3>2 DEF IsBoundary, Byte, Size
  <2>2. lo' = End(n + 1)' /\ lo' <= pos' /\ pos' <= Size'
    BY <1>4, <1>5
  <2> QED
    BY <1>1, <1>3, <1>5, <1>9, <1>10, <1>11, <2>1, <2>2 DEF TokensTile, IsAbout
<1> QED
  BY <1>6, <1>7, <1>8, <1>12 DEF TilingInv

LEMMA EmitPlain ==
  ASSUME TilingInv, doing # "done", NEW kind \in TokenKinds \ {"eof", "unknown"},
         NEW q \in Nat, lo < q, q <= Size, IsBoundary(q), Emit(kind, q, <<>>)
  PROVE  TilingInv'
<1>1. <<>> \in Seq(ErrorCodes) /\ Len(<<>>) <= 1 /\ DOMAIN <<>> = {}
  OBVIOUS
<1> QED
  BY <1>1, EmitTiles

LEMMA EmitError ==
  ASSUME TilingInv, doing # "done", NEW kind \in DOMAIN Codes, NEW c \in Codes[kind],
         NEW q \in Nat, lo < q, q <= Size, IsBoundary(q), Emit(kind, q, <<c>>)
  PROVE  TilingInv'
<1>1. kind \in TokenKinds \ {"eof"} /\ c \in ErrorCodes
  <2>1. DOMAIN Codes = {"unknown", "block_comment", "string_literal", "char_literal"}
    BY DEF Codes
  <2>2. kind \in TokenKinds \ {"eof"}
    BY <2>1 DEF TokenKinds
  <2>3. c \in ErrorCodes
    BY <2>1 DEF Codes, ErrorCodes
  <2> QED
    BY <2>2, <2>3
<1>2. <<c>> \in Seq(ErrorCodes) /\ Len(<<c>>) <= 1 /\ DOMAIN <<c>> = {1} /\ <<c>>[1] = c /\ <<c>> # <<>>
  BY <1>1
<1> QED
  BY <1>1, <1>2, EmitTiles

LEMMA ReadStep ==
  ASSUME TilingInv, doing # "done", NEW loop \in LoopNames,
         NEW q \in Nat, pos <= q, q <= Size, IsBoundary(q), Begun(loop, q), Read(loop, q)
  PROVE  TilingInv'
BY ReadTiles DEF Read, TilingInv, TypeInv

\* What the invariant says of the position, and what is known of the bytes there.
Ascii == Blanks \cup Quotes \cup IdentContinue \cup Punctuators1 \cup {"LF", "CR", "\\"}

LEMMA Here ==
  ASSUME TilingInv
  PROVE  /\ text \in Texts /\ lo \in Nat /\ pos \in Nat /\ Size \in Nat
         /\ lo <= pos /\ pos <= Size /\ IsBoundary(pos)
         /\ doing = "next_token" => pos = lo
         /\ doing \in LoopNames => Begun(doing, pos)
BY TextType DEF TilingInv, TypeInv, ProgressInv, TokensTile

LEMMA AsciiAhead ==
  ASSUME text \in Texts, NEW p \in Nat, Byte(p) \in Ascii
  PROVE  p < Size /\ p + 1 <= Size /\ IsBoundary(p + 1)
<1>1. Byte(p) \notin {"none", "C3", "E2"} \cup Continuation
  BY DEF Ascii, Continuation, Blanks, Quotes, IdentContinue, IdentStart, Letters, HexLetters, Digits, Punctuators1
<1> QED
  BY <1>1, AfterAscii, TextType

\* A round of a loop that consumes one character.
LEMMA NextCharStep ==
  ASSUME TilingInv, doing \in LoopNames, Byte(pos) # "none", Read(doing, NextChar(pos))
  PROVE  TilingInv'
<1>1. pos < Size
  BY Here, TextType
<1>2. NextChar(pos) \in pos + 1 .. Size /\ IsBoundary(NextChar(pos))
  BY <1>1, Here, NextCharType
<1>3. Begun(doing, NextChar(pos)) /\ doing # "done" /\ NextChar(pos) \in Nat /\ pos <= NextChar(pos)
  BY <1>2, Here DEF Begun, LoopNames
<1> QED
  BY <1>2, <1>3, Here, ReadStep

-----------------------------------------------------------------------------
(* The actions. *)

LEMMA NewlinesTile ==
  ASSUME TilingInv, LexNewline \/ LexReturn
  PROVE  TilingInv'
<1> USE Here
<1>1. lo = pos /\ doing # "done" /\ "newline" \in TokenKinds \ {"eof", "unknown"}
  BY DEF LexNewline, LexReturn, At, TokenKinds
<1>2. \A p \in Nat : Byte(p) \in {"LF", "CR"} => p + 1 <= Size /\ IsBoundary(p + 1)
  BY AsciiAhead DEF Ascii
<1>3. CASE LexNewline
  BY <1>1, <1>2, <1>3, EmitPlain DEF LexNewline
<1>4. CASE LexReturn /\ Byte(pos + 1) = "LF"
  <2>1. (pos + 1) + 1 <= Size /\ IsBoundary((pos + 1) + 1) /\ (pos + 1) + 1 = pos + 2
    BY <1>2, <1>4
  <2> QED
    BY <1>1, <1>4, <2>1, EmitPlain DEF LexReturn
<1>5. CASE LexReturn /\ Byte(pos + 1) # "LF"
  BY <1>1, <1>2, <1>5, EmitPlain DEF LexReturn
<1> QED
  BY <1>3, <1>4, <1>5

LEMMA WhitespaceTiles ==
  ASSUME TilingInv, LexWhitespace \/ Whitespace
  PROVE  TilingInv'
<1> USE Here
<1>1. doing # "done" /\ "whitespace" \in LoopNames /\ "whitespace" \in TokenKinds \ {"eof", "unknown"}
  BY DEF LexWhitespace, Whitespace, At, TokenKinds, LoopNames
<1>2. \A q : Byte(q) \in Blanks => Begun("whitespace", q)
  BY DEF Begun, FirstByte
<1>3. CASE LexWhitespace
  BY <1>1, <1>2, <1>3, ReadStep DEF LexWhitespace
<1>4. CASE Whitespace /\ Byte(pos) \in Blanks
  <2>1. Byte(pos) # "none" /\ Read(doing, NextChar(pos)) /\ doing \in LoopNames
    BY <1>1, <1>4 DEF Whitespace, At, Blanks
  <2> QED
    BY <2>1, NextCharStep
<1>5. CASE Whitespace /\ Byte(pos) \notin Blanks
  <2>1. lo < pos
    BY <1>1, <1>5 DEF Whitespace, At, Begun, FirstByte
  <2> QED
    BY <1>1, <1>5, <2>1, EmitPlain DEF Whitespace
<1> QED
  BY <1>3, <1>4, <1>5

LEMMA LineCommentTiles ==
  ASSUME TilingInv, LexLineComment \/ LineComment
  PROVE  TilingInv'
<1> USE Here
<1>1. doing # "done" /\ "line_comment" \in LoopNames /\ "line_comment" \in TokenKinds \ {"eof", "unknown"}
  BY DEF LexLineComment, LineComment, At, TokenKinds, LoopNames
<1>2. CASE LexLineComment
  <2>1. Byte(pos + 1) \in Ascii /\ lo = pos
    BY <1>2, AheadBytes DEF LexLineComment, StartsLineComment, Ascii, Punctuators1, At
  <2>2. pos + 2 <= Size /\ IsBoundary(pos + 2)
    <3>1. (pos + 1) + 1 <= Size /\ IsBoundary((pos + 1) + 1) /\ (pos + 1) + 1 = pos + 2
      BY <2>1, AsciiAhead
    <3> QED
      BY <3>1
  <2> QED
    BY <1>1, <1>2, <2>1, <2>2, ReadStep DEF LexLineComment, Begun
<1>3. CASE LineComment /\ Byte(pos) \in {"LF", "CR", "none"}
  <2>1. lo < pos
    BY <1>1, <1>3 DEF LineComment, At, Begun, FirstByte
  <2> QED
    BY <1>1, <1>3, <2>1, EmitPlain DEF LineComment
<1>4. CASE LineComment /\ Byte(pos) \notin {"LF", "CR", "none"}
  BY <1>1, <1>4, NextCharStep DEF LineComment, At
<1> QED
  BY <1>2, <1>3, <1>4

LEMMA BlockCommentTiles ==
  ASSUME TilingInv, LexBlockComment \/ BlockComment
  PROVE  TilingInv'
<1> USE Here
<1>1. doing # "done" /\ "block_comment" \in LoopNames /\ "block_comment" \in TokenKinds \ {"eof", "unknown"}
  BY DEF LexBlockComment, BlockComment, At, TokenKinds, LoopNames
<1>2. \A p \in Nat : Byte(p + 1) \in Ascii => p + 2 <= Size /\ IsBoundary(p + 2)
  <2> TAKE p \in Nat
  <2> HAVE Byte(p + 1) \in Ascii
  <2>1. (p + 1) + 1 <= Size /\ IsBoundary((p + 1) + 1) /\ (p + 1) + 1 = p + 2
    BY AsciiAhead
  <2> QED
    BY <2>1
<1>3. CASE LexBlockComment
  <2>1. Byte(pos + 1) \in Ascii /\ lo = pos
    BY <1>3, AheadBytes DEF LexBlockComment, StartsBlockComment, Ascii, Punctuators1, At
  <2> QED
    BY <1>1, <1>2, <1>3, <2>1, ReadStep DEF LexBlockComment, Begun
<1>4. CASE BlockComment
  <2>1. lo < pos
    BY <1>1, <1>4 DEF BlockComment, At, Begun, FirstByte
  <2>2. CASE Byte(pos) = "none"
    <3>1. Emit("block_comment", pos, <<"E0103">>)
      BY <1>4, <2>2, AheadBytes DEF BlockComment
    <3>2. "block_comment" \in DOMAIN Codes /\ "E0103" \in Codes["block_comment"]
      BY DEF Codes
    <3> QED
      BY <1>1, <2>1, <3>1, <3>2, EmitError
  <2>3. CASE Byte(pos) # "none" /\ Ahead(2) = <<"*", "/">>
    <3>1. Byte(pos + 1) \in Ascii
      BY <2>3, AheadBytes DEF Ascii, Punctuators1
    <3>2. Emit("block_comment", pos + 2, <<>>)
      BY <1>4, <2>3 DEF BlockComment
    <3> QED
      BY <1>1, <1>2, <2>1, <3>1, <3>2, EmitPlain
  <2>4. CASE Byte(pos) # "none" /\ Ahead(2) # <<"*", "/">>
    <3>1. Read("block_comment", NextChar(pos))
      BY <1>4, <2>4 DEF BlockComment
    <3> QED
      BY <1>1, <1>4, <2>4, <3>1, NextCharStep DEF BlockComment, At
  <2> QED
    BY <2>2, <2>3, <2>4
<1> QED
  BY <1>3, <1>4

LEMMA LiteralsTile ==
  ASSUME TilingInv, LexLiteral \/ Literal
  PROVE  TilingInv'
<1> USE Here
<1> DEFINE Names == {"string_literal", "char_literal"}
<1>1. Names \subseteq LoopNames /\ Names \subseteq TokenKinds \ {"eof", "unknown"} /\ doing # "done"
  BY DEF LexLiteral, Literal, At, TokenKinds, LoopNames
<1>2. CASE LexLiteral
  <2>1. Prefix \in Nat /\ pos + Prefix \in Nat /\ lo = pos
    BY <1>2 DEF Prefix, LexLiteral, At
  <2>2. Byte(pos + Prefix) \in Ascii
    BY <1>2 DEF LexLiteral, StartsLiteral, Ascii
  <2>3. (pos + Prefix) + 1 <= Size /\ IsBoundary((pos + Prefix) + 1)
    BY <2>1, <2>2, AsciiAhead
  <2>4. PICK loop \in Names : Read(loop, (pos + Prefix) + 1)
    BY <1>2 DEF LexLiteral
  <2> QED
    BY <1>1, <2>1, <2>3, <2>4, ReadStep DEF Begun
<1>3. CASE Literal
  <2> DEFINE quote == IF At("char_literal") THEN "'" ELSE "\""
  <2>1. PICK kind \in Names : kind = doing
    BY <1>3 DEF Literal
  <2>a. kind \in LoopNames /\ kind \in TokenKinds \ {"eof", "unknown"} /\ quote \in Ascii /\ quote # "\\"
    BY <1>1, <2>1 DEF Ascii, Quotes
  <2>2. lo < pos
    BY <1>1, <2>1 DEF Begun, FirstByte
  <2>3. CASE Byte(pos) = quote
    <3>1. Emit(kind, pos + 1, <<>>)
      BY <1>3, <2>1, <2>a, <2>3 DEF Literal
    <3>2. pos + 1 <= Size /\ IsBoundary(pos + 1)
      BY <2>a, <2>3, AsciiAhead
    <3> QED
      <4>1. lo < pos + 1 /\ pos + 1 \in Nat
        BY <2>2
      <4>2. doing # "done"
        BY <1>1
      <4> HIDE DEF quote, Names
      <4> QED
        BY <2>a, <3>1, <3>2, <4>1, <4>2, EmitPlain
  <2>4. CASE Byte(pos) # quote /\ Byte(pos) = "\\"
    <3>1. pos + 1 <= Size /\ IsBoundary(pos + 1)
      BY <2>4, AsciiAhead DEF Ascii
    <3>2. PICK q \in Nat : Read(kind, q) /\ pos < q /\ q <= Size /\ IsBoundary(q)
      <4>1. Read(kind, IF pos + 1 < Size THEN NextChar(pos + 1) ELSE pos + 1)
        BY <1>3, <2>1, <2>4 DEF Literal
      <4>2. CASE pos + 1 < Size
        <5>1. NextChar(pos + 1) \in (pos + 1) + 1 .. Size /\ IsBoundary(NextChar(pos + 1))
          BY <4>2, NextCharType
        <5> QED
          BY <4>1, <4>2, <5>1
      <4>3. CASE ~ (pos + 1 < Size)
        BY <3>1, <4>1, <4>3
      <4> QED
        BY <4>2, <4>3
    <3> QED
      <4>1. Begun(kind, q) /\ pos <= q
        BY <3>2 DEF Begun
      <4>2. doing # "done"
        BY <1>1
      <4> HIDE DEF quote, Names
      <4> QED
        BY <2>a, <3>2, <4>1, <4>2, ReadStep
  <2>5. CASE Byte(pos) # quote /\ Byte(pos) # "\\" /\ Byte(pos) \in {"LF", "none"}
    <3>1. PICK c : c = Unterminated /\ Emit(kind, pos, <<c>>)
      BY <1>3, <2>1, <2>5 DEF Literal
    <3>2. kind \in DOMAIN Codes /\ c \in Codes[kind]
      <4>1. CASE kind = "string_literal"
        BY <2>1, <3>1, <4>1 DEF Codes, Unterminated, At
      <4>2. CASE kind = "char_literal"
        BY <2>1, <3>1, <4>2 DEF Codes, Unterminated, At
      <4> QED
        BY <2>1, <4>1, <4>2
    <3> QED
      BY <1>1, <2>2, <3>1, <3>2, EmitError
  <2>6. CASE Byte(pos) # quote /\ Byte(pos) # "\\" /\ Byte(pos) \notin {"LF", "none"}
    <3>1. Read(doing, NextChar(pos))
      BY <1>3, <2>6 DEF Literal
    <3> QED
      BY <1>1, <2>1, <2>6, <3>1, NextCharStep
  <2> QED
    BY <2>3, <2>4, <2>5, <2>6
<1> QED
  BY <1>2, <1>3

LEMMA IdentsTile ==
  ASSUME TilingInv, LexIdent \/ Ident
  PROVE  TilingInv'
<1> USE Here
<1>1. doing # "done" /\ "ident" \in LoopNames /\ {"ident", "keyword"} \subseteq TokenKinds \ {"eof", "unknown"}
  BY DEF LexIdent, Ident, At, TokenKinds, LoopNames
<1>2. CASE LexIdent
  BY <1>1, <1>2, ReadStep DEF LexIdent, Begun, FirstByte
<1>3. CASE Ident /\ Byte(pos) \in IdentContinue
  <2>1. Byte(pos) # "none" /\ Read(doing, NextChar(pos)) /\ doing \in LoopNames
    BY <1>1, <1>3, AsciiAhead, TextType DEF Ident, At, Ascii
  <2> QED
    BY <2>1, NextCharStep
<1>4. CASE Ident /\ Byte(pos) \notin IdentContinue
  <2>1. lo < pos
    BY <1>1, <1>4 DEF Ident, At, Begun, FirstByte, IdentContinue
  <2>2. PICK kind \in {"ident", "keyword"} : Emit(kind, pos, <<>>)
    BY <1>4 DEF Ident
  <2> QED
    BY <1>1, <2>1, <2>2, EmitPlain
<1> QED
  BY <1>2, <1>3, <1>4

LEMMA NumberBegins ==
  ASSUME TilingInv, LexNumber
  PROVE  TilingInv'
<1> USE Here
<1>1. lo = pos /\ doing # "done" /\ "number" \in LoopNames
  BY DEF LexNumber, At, LoopNames
<1>2. \A p \in Nat : Byte(p) \in {".", "0"} => p + 1 <= Size /\ IsBoundary(p + 1)
  BY AsciiAhead DEF Ascii, Punctuators1, IdentContinue, Digits
<1>3. BaseAhead \in DOMAIN IntLiteral /\ doing' = "number" /\ UNCHANGED <<text, lo, tokens, diagnostics>>
  BY DEF LexNumber, BaseAhead, IntLiteral
<1>4. BaseAhead \in {"hex", "binary"} => pos + 2 <= Size /\ IsBoundary(pos + 2)
  <2> HAVE BaseAhead \in {"hex", "binary"}
  <2>1. Byte(pos + 1) \in Ascii
    BY AheadBytes DEF BaseAhead, Ascii, IdentContinue, IdentStart, Letters, HexLetters
  <2>2. (pos + 1) + 1 <= Size /\ IsBoundary((pos + 1) + 1) /\ (pos + 1) + 1 = pos + 2
    BY <2>1, AsciiAhead
  <2> QED
    BY <2>2
<1>5. PICK q \in Nat : pos' = q /\ pos <= q /\ q <= Size /\ IsBoundary(q) /\ Begun("number", q)
  <2>1. CASE BaseAhead \in {"hex", "binary"}
    <3>1. pos' = pos + 2
      BY <2>1 DEF LexNumber
    <3> QED
      BY <1>1, <1>4, <2>1, <3>1 DEF Begun
  <2>2. CASE BaseAhead \notin {"hex", "binary"} /\ Byte(pos) \in {".", "0"}
    <3>1. pos' = pos + 1
      BY <2>2 DEF LexNumber
    <3> QED
      BY <1>1, <1>2, <2>2, <3>1 DEF Begun
  <2>3. CASE BaseAhead \notin {"hex", "binary"} /\ Byte(pos) \notin {".", "0"}
    <3>1. pos' = pos
      BY <2>3 DEF LexNumber
    <3>2. Byte(pos) \in Digits
      BY <2>3 DEF LexNumber, StartsNumber
    <3> QED
      BY <1>1, <3>1, <3>2 DEF Begun, FirstByte
  <2> QED
    BY <2>1, <2>2, <2>3
<1>6. base' \in DOMAIN IntLiteral /\ isFloat' \in BOOLEAN
  BY <1>3 DEF LexNumber
<1> QED
  BY <1>1, <1>3, <1>5, <1>6, ReadTiles

\* A byte that goes on a number fits one arm only, and is consumed as a whole.
LEMMA NumberReadsOn ==
  ASSUME TilingInv, Number, Byte(pos) \in NumberPart \cup {"."} \cup Exponents
  PROVE  TilingInv'
<1> USE Here
<1>1. doing = "number" /\ doing # "done" /\ "number" \in LoopNames
  BY DEF Number, At, LoopNames
<1>2. NumberPart \cup {".", "+", "-"} \cup Exponents \subseteq Ascii
  BY DEF NumberPart, ValidDigits, Exponents, Ascii, Quotes, IdentContinue, IdentStart, Letters, HexLetters, Digits,
         Punctuators1
<1>3. \A p \in Nat : Byte(p) \in NumberPart \cup {".", "+", "-"} \cup Exponents =>
        p + 1 <= Size /\ IsBoundary(p + 1)
  BY <1>2, AsciiAhead
<1>4. Exponents \cap (NumberPart \cup {"."}) = {} /\ "." \notin NumberPart
  BY DEF NumberPart, ValidDigits, Exponents, IdentContinue, IdentStart, Letters, HexLetters, Digits
<1>5. CASE Byte(pos) \in NumberPart
  <2>0. Byte(pos) # "none"
    BY <1>2, <1>5, AsciiAhead, TextType
  <2>1. Read("number", NextChar(pos))
    BY <1>4, <1>5 DEF Number
  <2> QED
    BY <1>1, <2>0, <2>1, NextCharStep
<1>6. CASE Byte(pos) \in {"."} \cup Exponents
  <2>1. PICK q \in {pos + 1, pos + 2} : FloatPart(q) /\ q <= Size /\ IsBoundary(q)
    <3>1. CASE Byte(pos) = "."
      BY <1>3, <1>4, <3>1 DEF Number
    <3>2. CASE Byte(pos) \in Exponents /\ Byte(pos + 1) \in {"+", "-"}
      <4>1. FloatPart(pos + 2)
        BY <1>4, <3>2 DEF Number
      <4>2. (pos + 1) + 1 <= Size /\ IsBoundary((pos + 1) + 1) /\ (pos + 1) + 1 = pos + 2
        BY <1>3, <3>2
      <4> QED
        BY <4>1, <4>2
    <3>3. CASE Byte(pos) \in Exponents /\ Byte(pos + 1) \notin {"+", "-"}
      <4>1. FloatPart(pos + 1)
        BY <1>4, <3>3 DEF Number
      <4> QED
        BY <1>3, <3>3, <4>1
    <3> QED
      BY <1>6, <3>1, <3>2, <3>3
  <2>2. q \in Nat /\ pos <= q /\ Begun("number", q)
    BY DEF Begun
  <2>3. /\ doing' = "number" /\ pos' = q /\ UNCHANGED <<text, lo, tokens, diagnostics>>
        /\ base' \in DOMAIN IntLiteral /\ isFloat' \in BOOLEAN
    BY <1>1, <2>1 DEF FloatPart, TilingInv, TypeInv
  <2> QED
    BY <1>1, <2>1, <2>2, <2>3, ReadTiles
<1> QED
  BY <1>5, <1>6

LEMMA NumberEnds ==
  ASSUME TilingInv, Number, Byte(pos) \notin NumberPart \cup {"."} \cup Exponents
  PROVE  TilingInv'
<1> USE Here
<1>1. doing = "number" /\ doing # "done" /\ "number" \in LoopNames
  BY DEF Number, At, LoopNames
<1>2. Byte(pos) \notin Digits
  BY DEF NumberPart, IdentContinue, Exponents, Digits
<1>3. lo < pos
  BY <1>1, <1>2 DEF Begun, FirstByte
<1>4. Emit(IF isFloat THEN "float_literal" ELSE IntLiteral[base], pos, <<>>)
  BY DEF Number
<1>5. IntLiteral[base] \in TokenKinds \ {"eof", "unknown"} /\ "float_literal" \in TokenKinds \ {"eof", "unknown"}
  BY DEF TilingInv, TypeInv, IntLiteral, TokenKinds
<1>6. PICK kind \in TokenKinds \ {"eof", "unknown"} : Emit(kind, pos, <<>>)
  BY <1>4, <1>5
<1> QED
  BY <1>1, <1>3, <1>6, EmitPlain

LEMMA PunctuatorsTile ==
  ASSUME TilingInv, LexPunctuator
  PROVE  TilingInv'
<1> USE Here
<1>1. lo = pos /\ doing # "done" /\ "punctuator" \in TokenKinds \ {"eof", "unknown"}
  BY DEF LexPunctuator, At, TokenKinds
<1>2. PICK n \in 1 .. 3 : n = PunctuatorLength /\ pos + n <= Size /\ IsBoundary(pos + n)
  BY PunctuatorType DEF LexPunctuator
<1>3. Emit("punctuator", pos + n, <<>>)
  BY <1>2 DEF LexPunctuator
<1> QED
  BY <1>1, <1>2, <1>3, EmitPlain

LEMMA StrayTiles ==
  ASSUME TilingInv, LexStray
  PROVE  TilingInv'
<1> USE Here
<1>1. lo = pos /\ doing # "done" /\ pos < Size
  BY TextType DEF LexStray, At
<1>2. NextChar(pos) \in pos + 1 .. Size /\ IsBoundary(NextChar(pos))
  BY <1>1, NextCharType
<1>3. "unknown" \in DOMAIN Codes /\ "E0104" \in Codes["unknown"]
  BY DEF Codes
<1> QED
  BY <1>1, <1>2, <1>3, EmitError DEF LexStray

LEMMA EofTiles ==
  ASSUME TilingInv, LexEof
  PROVE  TilingInv'
<1> USE Here
<1> DEFINE eof == [kind |-> "eof", lo |-> Size, hi |-> Size]
           Tok == [kind : TokenKinds, lo : Nat, hi : Nat]
<1>1. lo = pos /\ pos = Size /\ doing # "done"
  BY TextType DEF LexEof, At
<1>n. PICK n \in Nat : n = Len(tokens)
  BY DEF TilingInv, TypeInv
<1>2. /\ tokens' \in Seq(Tok) /\ DOMAIN tokens' = 1 .. n + 1 /\ DOMAIN tokens = 1 .. n /\ Len(tokens') = n + 1
      /\ \A i \in 1 .. n : tokens'[i] = tokens[i] /\ tokens[i] \in Tok
      /\ tokens'[n + 1] = eof
  <2>1. tokens \in Seq(Tok) /\ tokens' = Append(tokens, eof)
    BY DEF LexEof, TilingInv, TypeInv
  <2>2. eof \in Tok
    BY DEF TokenKinds
  <2> QED
    <3> HIDE DEF eof, Tok
    <3>1. /\ tokens' \in Seq(Tok) /\ Len(tokens') = n + 1
          /\ \A i \in 1 .. n : tokens'[i] = tokens[i]
          /\ tokens'[n + 1] = eof
      BY <1>n, <2>1, <2>2, AppendProperties
    <3>2. DOMAIN tokens' = 1 .. n + 1 /\ DOMAIN tokens = 1 .. n
      BY <1>n, <2>1, <3>1
    <3>3. \A i \in 1 .. n : tokens[i] \in Tok
      BY <2>1, <3>2
    <3> QED
      BY <3>1, <3>2, <3>3
<1>3. /\ doing' = "done" /\ UNCHANGED <<text, pos, lo, base, isFloat, diagnostics>>
      /\ Size' = Size /\ \A p : IsBoundary(p)' = IsBoundary(p)
  BY SameText DEF LexEof
<1>4. (\A i \in 0 .. n : End(i)' = End(i)) /\ End(n + 1)' = Size
  BY <1>2 DEF End
<1>5. TypeInv'
  BY <1>2, <1>3 DEF TilingInv, TypeInv
<1>6. ProgressInv'
  BY <1>1, <1>3 DEF ProgressInv, LoopNames
<1>7. TokensBehind'
  <2>1. \A i \in 1 .. n : tokens[i].hi <= lo
    BY <1>2 DEF TilingInv, TokensBehind
  <2>2. \A i \in 1 .. n + 1 : tokens'[i].hi <= lo
    BY <1>1, <1>2, <2>1
  <2> QED
    BY <1>2, <1>3, <2>2 DEF TokensBehind
<1>8. TokensTile'
  <2>1. ASSUME NEW i \in 1 .. n + 1
        PROVE  /\ tokens'[i].lo = End(i - 1)'
               /\ tokens'[i].kind # "eof" => tokens'[i].lo < tokens'[i].hi
               /\ tokens'[i].kind = "eof" <=> i = n + 1
               /\ tokens'[i].kind = "unknown" => \E j \in DOMAIN diagnostics : IsAbout(diagnostics[j], tokens'[i])
    <3>1. CASE i \in 1 .. n
      <4>1. /\ tokens[i].lo = End(i - 1)
            /\ tokens[i].kind # "eof" => tokens[i].lo < tokens[i].hi
            /\ tokens[i].kind # "eof"
            /\ tokens[i].kind = "unknown" => \E j \in DOMAIN diagnostics : IsAbout(diagnostics[j], tokens[i])
        BY <1>1, <1>2, <3>1 DEF TilingInv, TokensTile
      <4>2. End(i - 1)' = End(i - 1) /\ i # n + 1
        BY <1>4, <3>1
      <4> QED
        BY <1>2, <3>1, <4>1, <4>2
    <3>2. CASE i = n + 1
      <4>0. lo = End(n)
        BY <1>n DEF TilingInv, TokensTile
      <4>1. End(n)' = Size /\ i - 1 = n
        BY <1>1, <1>4, <3>2, <4>0
      <4> QED
        BY <1>2, <3>2, <4>1
    <3> QED
      BY <3>1, <3>2
  <2>2. ASSUME NEW i \in 0 .. n + 1 PROVE IsBoundary(End(i))'
    <3>1. IsBoundary(End(i)) \/ End(i)' = Size
      BY <1>n, <1>4 DEF TilingInv, TokensTile
    <3>2. End(i)' = End(i) \/ End(i)' = Size
      BY <1>4
    <3>3. IsBoundary(Size)
      BY TextType
    <3> QED
      BY <1>3, <3>1, <3>2, <3>3 DEF IsBoundary, Byte, Size
  <2>3. ASSUME NEW j \in DOMAIN diagnostics
        PROVE  \E i \in 1 .. n + 1 : IsAbout(diagnostics[j], tokens'[i])
    <3>1. PICK i \in 1 .. n : IsAbout(diagnostics[j], tokens[i])
      BY <1>2 DEF TilingInv, TokensTile
    <3> QED
      BY <1>2, <3>1
  <2>4. \A j, k \in DOMAIN diagnostics : j < k => diagnostics[j].hi <= diagnostics[k].lo
    BY DEF TilingInv, TokensTile
  <2>5. lo' = End(n + 1)' /\ lo' <= pos' /\ pos' <= Size' /\ IsBoundary(pos)' /\ lo' = Size'
    BY <1>1, <1>3, <1>4 DEF IsBoundary, Byte, Size
  <2> QED
    BY <1>2, <1>3, <2>1, <2>2, <2>3, <2>4, <2>5 DEF TokensTile, IsAbout
<1> QED
  BY <1>5, <1>6, <1>7, <1>8 DEF TilingInv

LEMMA StutterTiles ==
  ASSUME TilingInv, UNCHANGED vars
  PROVE  TilingInv'
BY DEF vars, TilingInv, TypeInv, ProgressInv, Begun, TokensBehind, TokensTile, End, IsAbout, IsBoundary, Byte, Size

-----------------------------------------------------------------------------
(* Lines and newlines. *)

LineBytes == {"LF", "CR"}
Plain(from, to) == \A r \in from .. to - 1 : Byte(r) \notin LineBytes

\* The loops of tokens that stay on a line.
OneLineLoops == {"whitespace", "line_comment", "ident", "number"}

LineInv ==
  /\ NewlinesAreLines
  /\ doing \in OneLineLoops => Plain(lo, pos)

LEMMA SameLines ==
  ASSUME text' = text
  PROVE  \A p : LineEndsAt(p)' = LineEndsAt(p) /\ \A q : Plain(p, q)' = Plain(p, q)
<1>1. \A p : Byte(p)' = Byte(p)
  BY SameText
<1> QED
  BY <1>1 DEF LineEndsAt, Plain

LEMMA PlainHasNoEnd ==
  ASSUME NEW from \in Nat, NEW to \in Nat, Plain(from, to), NEW p \in from + 1 .. to
  PROVE  ~ LineEndsAt(p)
<1>1. p - 1 \in from .. to - 1
  OBVIOUS
<1>2. Byte(p - 1) \notin LineBytes
  BY <1>1 DEF Plain
<1> QED
  BY <1>2 DEF LineEndsAt, LineBytes

LEMMA PlainJoins ==
  ASSUME NEW a \in Nat, NEW b \in Nat, NEW c \in Nat, Plain(a, b), Plain(b, c)
  PROVE  Plain(a, c)
BY DEF Plain

LEMMA PlainBytes ==
  ASSUME NEW p \in Nat, Byte(p) \notin LineBytes
  PROVE  Plain(p, p + 1) /\ (Byte(p + 1) \notin LineBytes => Plain(p, p + 2))
BY DEF Plain

\* One character that is no newline has no byte of one.
LEMMA PlainChar ==
  ASSUME text \in Texts, NEW p \in Nat, p < Size, Byte(p) \notin LineBytes
  PROVE  Plain(p, NextChar(p))
<1> DEFINE S == {q \in p + 1 .. Size : IsBoundary(q)}
<1>1. Size \in S /\ S \in SUBSET Nat /\ Size \in Nat
  BY TextType
<1>2. NextChar(p) \in p + 1 .. Size /\ \A y \in S : NextChar(p) <= y
  BY <1>1, MinIsLeast, NextCharType DEF NextChar
<1>3. ASSUME NEW r \in p .. NextChar(p) - 1 PROVE Byte(r) \notin LineBytes
  <2>1. CASE r = p
    BY <2>1
  <2>2. CASE r # p
    <3>1. r \notin S /\ r \in p + 1 .. Size
      BY <1>1, <1>2, <2>2
    <3>2. Byte(r) \in Continuation
      BY <3>1 DEF IsBoundary
    <3> QED
      BY <3>2 DEF Continuation, LineBytes
  <2> QED
    BY <2>1, <2>2
<1> QED
  BY <1>3 DEF Plain

LEMMA ReadLines ==
  ASSUME TilingInv, LineInv, NEW loop, NEW q \in Nat,
         doing' = loop, pos' = q, UNCHANGED <<text, lo, tokens>>,
         loop \in OneLineLoops => Plain(lo, q)
  PROVE  LineInv'
<1>1. NewlinesAreLines'
  BY SameLines DEF LineInv, NewlinesAreLines, Token, EndsLine
<1>2. (doing \in OneLineLoops => Plain(lo, pos))'
  <2>1. Plain(lo, q)' = Plain(lo, q)
    BY DEF Plain, Byte, Size
  <2>2. Plain(lo, pos)' = Plain(lo, q)'
    BY DEF Plain, Byte, Size
  <2> QED
    BY <2>1, <2>2
<1> QED
  BY <1>1, <1>2 DEF LineInv

\* A token ends at q: either it is a newline, or it may go over several lines, or
\* no line ends in it.
LEMMA EmitLines ==
  ASSUME TilingInv, LineInv, NEW kind, NEW q \in Nat, NEW errors, lo < q, Emit(kind, q, errors),
         \/ kind = "newline" /\ LineEndsAt(q) /\ \A p \in lo + 1 .. q - 1 : ~ LineEndsAt(p)
         \/ kind \in Multiline
         \/ kind # "newline" /\ Plain(lo, q)
  PROVE  LineInv'
<1> DEFINE tok == [kind |-> kind, lo |-> lo, hi |-> q]
<1>1. text' = text /\ lo' = q /\ doing' = "next_token" /\ lo \in Nat
  BY Here DEF Emit
<1>2. Range(tokens') = Range(tokens) \cup {tok}
  <2>1. tokens' = Append(tokens, tok) /\ tokens \in Seq([kind : TokenKinds, lo : Nat, hi : Nat])
    BY DEF Emit, TilingInv, TypeInv
  <2>2. DOMAIN tokens = 1 .. Len(tokens) /\ DOMAIN tokens' = 1 .. Len(tokens) + 1 /\ Len(tokens) \in Nat
    BY <2>1
  <2>3. (\A i \in 1 .. Len(tokens) : tokens'[i] = tokens[i]) /\ tokens'[Len(tokens) + 1] = tok
    BY <2>1
  <2> HIDE DEF tok
  <2> QED
    BY <2>2, <2>3 DEF Range
<1>3. \A p : LineEndsAt(p)' = LineEndsAt(p)
  BY <1>1, SameLines
<1>4. ASSUME NEW t \in Range(tokens'), t.kind = "newline" PROVE LineEndsAt(t.hi)
  <2>1. CASE t \in Range(tokens)
    BY <1>4, <2>1 DEF LineInv, NewlinesAreLines, Token
  <2>2. CASE t = tok
    BY <1>4, <2>2 DEF Multiline
  <2> QED
    BY <1>2, <2>1, <2>2
<1>5. ASSUME NEW p \in 1 .. q, LineEndsAt(p) PROVE \E t \in Range(tokens') : EndsLine(t, p)
  <2>1. CASE p <= lo
    BY <1>1, <1>2, <1>5, <2>1 DEF LineInv, NewlinesAreLines, Token
  <2>2. CASE ~ (p <= lo)
    <3>1. p \in lo + 1 .. q
      BY <1>1, <2>2
    <3>2. kind = "newline" => p = q
      BY <1>1, <1>5, <3>1 DEF Multiline
    <3>3. kind = "newline" \/ kind \in Multiline
      BY <1>1, <1>5, <3>1, PlainHasNoEnd
    <3>4. EndsLine(tok, p)
      BY <1>1, <3>1, <3>2, <3>3 DEF EndsLine
    <3> QED
      BY <1>2, <3>4
  <2> QED
    BY <2>1, <2>2
<1>6. NewlinesAreLines'
  BY <1>1, <1>3, <1>4, <1>5 DEF NewlinesAreLines, Token, EndsLine
<1> QED
  BY <1>1, <1>6 DEF LineInv, OneLineLoops

\* A round of a one-line loop that consumes a character.
LEMMA NextCharLines ==
  ASSUME TilingInv, LineInv, doing \in LoopNames, Byte(pos) # "none", Read(doing, NextChar(pos)),
         doing \in OneLineLoops => Byte(pos) \notin LineBytes
  PROVE  LineInv'
<1> USE Here
<1>1. pos < Size /\ NextChar(pos) \in Nat
  BY TextType, NextCharType
<1>2. doing \in OneLineLoops => Plain(lo, NextChar(pos))
  BY <1>1, PlainChar, PlainJoins DEF LineInv
<1>3. PICK loop : loop = doing
  OBVIOUS
<1> QED
  BY <1>1, <1>2, <1>3, ReadLines DEF Read

LEMMA NewlineEnds ==
  ASSUME TilingInv, LineInv, NEW q \in Nat, lo < q, Emit("newline", q, <<>>),
         LineEndsAt(q), \A p \in lo + 1 .. q - 1 : ~ LineEndsAt(p)
  PROVE  LineInv'
BY EmitLines

LEMMA NewlineLines ==
  ASSUME TilingInv, LineInv, LexNewline \/ LexReturn
  PROVE  LineInv'
<1> USE Here
<1>1. lo = pos /\ pos \in Nat
  BY DEF LexNewline, LexReturn, At
<1>2. PICK q \in {pos + 1, pos + 2} :
        /\ Emit("newline", q, <<>>) /\ LineEndsAt(q)
        /\ q = pos + 2 => ~ LineEndsAt(pos + 1)
  <2>1. CASE LexNewline
    BY <1>1, <2>1 DEF LexNewline, LineEndsAt
  <2>2. CASE LexReturn /\ Byte(pos + 1) = "LF"
    BY <1>1, <2>2 DEF LexReturn, LineEndsAt
  <2>3. CASE LexReturn /\ Byte(pos + 1) # "LF"
    BY <1>1, <2>3 DEF LexReturn, LineEndsAt
  <2> QED
    BY <2>1, <2>2, <2>3
<1>3. q \in Nat /\ lo < q /\ \A p \in lo + 1 .. q - 1 : p = pos + 1 /\ q = pos + 2
  BY <1>1, <1>2
<1> QED
  BY <1>2, <1>3, NewlineEnds

\* The actions that begin a token of several bytes.
LEMMA BeginningLines ==
  ASSUME TilingInv, LineInv,
         LexWhitespace \/ LexLineComment \/ LexBlockComment \/ LexLiteral \/ LexIdent \/ LexNumber
  PROVE  LineInv'
<1> USE Here
<1>1. lo = pos
  BY DEF LexWhitespace, LexLineComment, LexBlockComment, LexLiteral, LexIdent, LexNumber, At
<1>2. Plain(lo, pos)
  BY <1>1 DEF Plain
<1>3. CASE LexWhitespace \/ LexIdent
  BY <1>2, <1>3, ReadLines DEF LexWhitespace, LexIdent, Read
<1>4. CASE LexLineComment
  <2>1. Byte(pos) \notin LineBytes /\ Byte(pos + 1) \notin LineBytes
    BY <1>4, AheadBytes DEF LexLineComment, StartsLineComment, LineBytes
  <2>2. Plain(lo, pos + 2)
    BY <1>1, <2>1, PlainBytes
  <2> QED
    BY <1>4, <2>2, ReadLines DEF LexLineComment, Read
<1>5. CASE LexBlockComment
  BY <1>5, ReadLines DEF LexBlockComment, Read, OneLineLoops
<1>6. CASE LexLiteral
  <2>1. pos + Prefix + 1 \in Nat
    BY DEF Prefix
  <2>2. PICK loop \in {"string_literal", "char_literal"} : Read(loop, pos + Prefix + 1)
    BY <1>6 DEF LexLiteral
  <2>3. PICK q \in Nat : q = pos + Prefix + 1
    BY <2>1
  <2> QED
    BY <2>2, <2>3, ReadLines DEF Read, OneLineLoops
<1>7. CASE LexNumber
  <2>1. \A p : Byte(p) \in Digits \cup {"."} \cup Letters => Byte(p) \notin LineBytes
    BY DEF Digits, Letters, HexLetters, LineBytes
  <2>2. Byte(pos) \notin LineBytes
    BY <1>7, <2>1 DEF LexNumber, StartsNumber
  <2>3. PICK q \in Nat : pos' = q /\ Plain(lo, q)
    <3>1. CASE BaseAhead \in {"hex", "binary"}
      <4>1. Byte(pos + 1) \notin LineBytes
        BY <3>1, AheadBytes DEF BaseAhead, LineBytes
      <4>2. pos' = pos + 2 /\ Plain(lo, pos + 2)
        BY <1>1, <1>7, <2>2, <3>1, <4>1, PlainBytes DEF LexNumber
      <4> QED
        BY <4>2
    <3>2. CASE BaseAhead \notin {"hex", "binary"} /\ Byte(pos) \in {".", "0"}
      <4>1. pos' = pos + 1 /\ Plain(lo, pos + 1)
        BY <1>1, <1>7, <2>2, <3>2, PlainBytes DEF LexNumber
      <4> QED
        BY <4>1
    <3>3. CASE BaseAhead \notin {"hex", "binary"} /\ Byte(pos) \notin {".", "0"}
      <4>1. pos' = pos
        BY <1>7, <3>3 DEF LexNumber
      <4> QED
        BY <1>2, <4>1
    <3> QED
      BY <3>1, <3>2, <3>3
  <2> QED
    BY <1>7, <2>3, ReadLines DEF LexNumber
<1> QED
  BY <1>3, <1>4, <1>5, <1>6, <1>7

LEMMA OneLineLoopLines ==
  ASSUME TilingInv, LineInv, Whitespace \/ LineComment \/ Ident
  PROVE  LineInv'
<1> USE Here
<1>1. doing \in OneLineLoops /\ doing \in LoopNames /\ Plain(lo, pos)
  BY DEF Whitespace, LineComment, Ident, At, OneLineLoops, LoopNames, LineInv
<1>2. CASE \E kind \in {"whitespace", "line_comment", "ident", "keyword"} : Emit(kind, pos, <<>>)
  <2>1. PICK kind \in {"whitespace", "line_comment", "ident", "keyword"} : Emit(kind, pos, <<>>)
    BY <1>2
  <2>2. lo < pos
    <3>1. CASE Whitespace
      <4>1. Byte(pos) \notin Blanks \/ lo < pos
        BY <2>1, <3>1, <1>1 DEF Whitespace, Emit, Read, At, LoopNames
      <4> QED
        BY <1>1, <3>1, <4>1 DEF Whitespace, At, Begun, FirstByte
    <3>2. CASE LineComment
      BY <1>1, <3>2 DEF LineComment, At, Begun, FirstByte
    <3>3. CASE Ident
      <4>1. Byte(pos) \notin IdentContinue \/ lo < pos
        BY <2>1, <3>3, <1>1 DEF Ident, Emit, Read, At, LoopNames
      <4> QED
        BY <1>1, <3>3, <4>1 DEF Ident, At, Begun, FirstByte, IdentContinue
    <3> QED
      BY <3>1, <3>2, <3>3
  <2> QED
    BY <1>1, <2>1, <2>2, EmitLines
<1>3. CASE Read(doing, NextChar(pos)) /\ Byte(pos) \notin LineBytes /\ Byte(pos) # "none"
  BY <1>1, <1>3, NextCharLines
<1>4. \/ \E kind \in {"whitespace", "line_comment", "ident", "keyword"} : Emit(kind, pos, <<>>)
      \/ Read(doing, NextChar(pos)) /\ Byte(pos) \notin LineBytes /\ Byte(pos) # "none"
  <2>1. (Blanks \cup IdentContinue) \cap (LineBytes \cup {"none"}) = {}
    BY DEF Blanks, IdentContinue, IdentStart, Letters, HexLetters, Digits, LineBytes
  <2>2. CASE Whitespace
    BY <2>1, <2>2 DEF Whitespace, At
  <2>3. CASE LineComment
    BY <2>3 DEF LineComment, At, LineBytes
  <2>4. CASE Ident
    BY <2>1, <2>4 DEF Ident, At
  <2> QED
    BY <2>2, <2>3, <2>4
<1> QED
  BY <1>2, <1>3, <1>4

\* The loops of comments and literals that may go over several lines.
LEMMA MultilineLoopLines ==
  ASSUME TilingInv, LineInv, BlockComment \/ Literal
  PROVE  LineInv'
<1> USE Here
<1>1. doing \in Multiline /\ doing \in LoopNames /\ doing \notin OneLineLoops /\ lo < pos
  BY DEF BlockComment, Literal, At, Multiline, LoopNames, OneLineLoops, Begun, FirstByte
<1>2. PICK kind \in Multiline : kind = doing
  BY <1>1
<1>3. CASE \E q \in Nat : \E errors : lo < q /\ Emit(kind, q, errors)
  BY <1>2, <1>3, EmitLines
<1>4. CASE \E q \in Nat : Read(kind, q)
  <2>1. PICK q \in Nat : Read(kind, q)
    BY <1>4
  <2> QED
    BY <1>1, <1>2, <2>1, ReadLines DEF Read
<1>5. ASSUME NEW p \in Nat, p < Size PROVE NextChar(p) \in Nat
  BY <1>5, NextCharType
<1>6. \/ \E q \in Nat : \E errors : lo < q /\ Emit(kind, q, errors)
      \/ \E q \in Nat : Read(kind, q)
  <2>1. CASE BlockComment
    <3>1. kind = "block_comment"
      BY <1>2, <2>1 DEF BlockComment, At
    <3>2. CASE Byte(pos) = "none"
      <4>1. Emit(kind, pos, <<"E0103">>)
        BY <2>1, <3>1, <3>2, AheadBytes DEF BlockComment
      <4> QED
        BY <1>1, <4>1
    <3>3. CASE Byte(pos) # "none" /\ Ahead(2) = <<"*", "/">>
      <4>1. Emit(kind, pos + 2, <<>>)
        BY <2>1, <3>1, <3>3 DEF BlockComment
      <4>2. pos + 2 \in Nat /\ lo < pos + 2
        BY <1>1
      <4> QED
        BY <4>1, <4>2
    <3>4. CASE Byte(pos) # "none" /\ Ahead(2) # <<"*", "/">>
      <4>1. Read(kind, NextChar(pos))
        BY <2>1, <3>1, <3>4 DEF BlockComment
      <4>2. NextChar(pos) \in Nat
        BY <1>5, <3>4, TextType
      <4> QED
        BY <4>1, <4>2
    <3> QED
      BY <3>2, <3>3, <3>4
  <2>2. CASE Literal
    <3> DEFINE quote == IF At("char_literal") THEN "'" ELSE "\""
    <3>1. CASE Byte(pos) = quote
      <4>1. Emit(kind, pos + 1, <<>>)
        BY <1>2, <2>2, <3>1 DEF Literal
      <4>2. pos + 1 \in Nat /\ lo < pos + 1
        BY <1>1
      <4> QED
        BY <4>1, <4>2
    <3>2. CASE Byte(pos) # quote /\ Byte(pos) = "\\"
      <4>1. Read(kind, IF pos + 1 < Size THEN NextChar(pos + 1) ELSE pos + 1)
        BY <1>2, <2>2, <3>2 DEF Literal
      <4>2. CASE pos + 1 < Size
        BY <1>5, <4>1, <4>2
      <4>3. CASE ~ (pos + 1 < Size)
        BY <4>1, <4>3
      <4> QED
        BY <4>2, <4>3
    <3>3. CASE Byte(pos) # quote /\ Byte(pos) # "\\" /\ Byte(pos) \in {"LF", "none"}
      <4>1. Emit(kind, pos, <<Unterminated>>)
        BY <1>2, <2>2, <3>3 DEF Literal
      <4>2. PICK errors : errors = <<Unterminated>>
        OBVIOUS
      <4> QED
        BY <1>1, <4>1, <4>2
    <3>4. CASE Byte(pos) # quote /\ Byte(pos) # "\\" /\ Byte(pos) \notin {"LF", "none"}
      <4>1. Read(kind, NextChar(pos))
        BY <1>2, <2>2, <3>4 DEF Literal
      <4>2. NextChar(pos) \in Nat
        BY <1>5, <3>4, TextType
      <4> QED
        BY <4>1, <4>2
    <3> QED
      BY <3>1, <3>2, <3>3, <3>4
  <2> QED
    BY <2>1, <2>2
<1> QED
  BY <1>3, <1>4, <1>6

LEMMA NumberLines ==
  ASSUME TilingInv, LineInv, Number
  PROVE  LineInv'
<1> USE Here
<1>1. doing = "number" /\ doing \in LoopNames /\ Plain(lo, pos)
  BY DEF Number, At, LoopNames, OneLineLoops, LineInv
<1>2. (NumberPart \cup {".", "+", "-"} \cup Exponents) \cap (LineBytes \cup {"none"}) = {}
  BY DEF NumberPart, ValidDigits, Exponents, IdentContinue, IdentStart, Letters, HexLetters, Digits, LineBytes
<1>3. CASE Byte(pos) \in NumberPart
  <2>1. Read("number", NextChar(pos))
    BY <1>3 DEF Number, NumberPart, Exponents, ValidDigits, IdentContinue, IdentStart, Letters, HexLetters, Digits
  <2> QED
    BY <1>1, <1>2, <1>3, <2>1, NextCharLines
<1>4. CASE Byte(pos) \notin NumberPart /\ Byte(pos) \in {"."} \cup Exponents
  <2>2. FloatPart(pos + 1) \/ (FloatPart(pos + 2) /\ Byte(pos + 1) \in {"+", "-"})
    BY <1>4 DEF Number, Exponents
  <2>3. Plain(pos, pos + 1) /\ (Byte(pos + 1) \in {"+", "-"} => Plain(pos, pos + 2))
    BY <1>2, <1>4, PlainBytes
  <2>4. PICK r \in Nat : FloatPart(r) /\ Plain(pos, r)
    BY <2>2, <2>3
  <2>5. Plain(lo, r)
    BY <1>1, <2>4, PlainJoins
  <2> QED
    BY <1>1, <2>4, <2>5, ReadLines DEF FloatPart
<1>5. CASE Byte(pos) \notin NumberPart \cup {"."} \cup Exponents
  <2>1. lo < pos
    BY <1>1, <1>5 DEF Begun, FirstByte, NumberPart, IdentContinue, Exponents, Digits
  <2>2. PICK kind \in {"float_literal", IntLiteral[base]} : Emit(kind, pos, <<>>)
    BY <1>5 DEF Number
  <2>3. kind # "newline"
    BY DEF TilingInv, TypeInv, IntLiteral
  <2> QED
    BY <1>1, <2>1, <2>2, <2>3, EmitLines
<1> QED
  BY <1>3, <1>4, <1>5

LEMMA PunctuatorAndStrayLines ==
  ASSUME TilingInv, LineInv, LexPunctuator \/ LexStray
  PROVE  LineInv'
<1> USE Here
<1>1. lo = pos
  BY DEF LexPunctuator, LexStray, At
<1>2. CASE LexPunctuator
  <2>1. \A b \in Punctuators1 : b \notin LineBytes
    BY DEF Punctuators1, LineBytes
  <2>2. PICK n \in 1 .. 3 : n = PunctuatorLength
    BY <1>2, PunctuatorType DEF LexPunctuator
  <2>3. Plain(pos, pos + n)
    <3>1. CASE n = 3
      <4>1. Ahead(3) \in Punctuators3
        BY <2>2, <3>1 DEF PunctuatorLength
      <4>2. {Byte(pos), Byte(pos + 1), Byte(pos + 2)} \subseteq Punctuators1
        BY <4>1, AheadBytes DEF Punctuators3, Punctuators1
      <4> QED
        BY <2>1, <3>1, <4>2 DEF Plain
    <3>2. CASE n = 2
      <4>1. Ahead(2) \in Punctuators2
        BY <2>2, <3>2 DEF PunctuatorLength
      <4>2. {Byte(pos), Byte(pos + 1)} \subseteq Punctuators1
        BY <4>1, AheadBytes DEF Punctuators2, Punctuators1
      <4> QED
        BY <2>1, <3>2, <4>2 DEF Plain
    <3>3. CASE n = 1
      <4>1. Byte(pos) \in Punctuators1
        BY <2>2, <3>3 DEF PunctuatorLength
      <4> QED
        BY <2>1, <3>3, <4>1 DEF Plain
    <3> QED
      BY <3>1, <3>2, <3>3
  <2>4. Emit("punctuator", pos + n, <<>>) /\ lo < pos + n /\ pos + n \in Nat
    BY <1>1, <1>2, <2>2 DEF LexPunctuator
  <2> QED
    BY <1>1, <2>3, <2>4, EmitLines
<1>3. CASE LexStray
  <2>1. pos < Size /\ Byte(pos) \notin LineBytes
    BY <1>3, TextType DEF LexStray, Known, LineBytes
  <2>2. PICK q \in pos + 1 .. Size : q = NextChar(pos) /\ Plain(lo, q)
    BY <1>1, <2>1, NextCharType, PlainChar
  <2>3. Emit("unknown", q, <<"E0104">>)
    BY <1>3, <2>2 DEF LexStray
  <2>4. q \in Nat /\ lo < q
    BY <1>1, <2>2
  <2> QED
    BY <2>2, <2>3, <2>4, EmitLines
<1> QED
  BY <1>2, <1>3

LEMMA LinesStep == TilingInv /\ LineInv /\ [Next]_vars => LineInv'
<1> SUFFICES ASSUME TilingInv, LineInv, [Next]_vars PROVE LineInv'
  OBVIOUS
<1>1. CASE NextToken
  BY <1>1, NewlineLines, BeginningLines, PunctuatorAndStrayLines DEF NextToken
<1>2. CASE Loops
  BY <1>2, OneLineLoopLines, MultilineLoopLines, NumberLines DEF Loops
<1>3. CASE LexEof
  <2>1. /\ lo' = lo /\ text' = text /\ doing' = "done"
        /\ tokens' = Append(tokens, [kind |-> "eof", lo |-> Size, hi |-> Size])
        /\ tokens \in Seq([kind : TokenKinds, lo : Nat, hi : Nat])
    BY <1>3 DEF LexEof, TilingInv, TypeInv
  <2>2. Range(tokens') = Range(tokens) \cup {[kind |-> "eof", lo |-> Size, hi |-> Size]}
    <3>1. DOMAIN tokens = 1 .. Len(tokens) /\ DOMAIN tokens' = 1 .. Len(tokens) + 1 /\ Len(tokens) \in Nat
      BY <2>1
    <3>2. /\ \A i \in 1 .. Len(tokens) : tokens'[i] = tokens[i]
          /\ tokens'[Len(tokens) + 1] = [kind |-> "eof", lo |-> Size, hi |-> Size]
      BY <2>1
    <3> QED
      BY <3>1, <3>2 DEF Range
  <2>3. \A p : LineEndsAt(p)' = LineEndsAt(p)
    BY <2>1, SameLines
  <2> QED
    BY <2>1, <2>2, <2>3 DEF LineInv, NewlinesAreLines, Token, EndsLine, OneLineLoops
<1>4. CASE Terminating \/ UNCHANGED vars
  <2>1. UNCHANGED vars
    BY <1>4 DEF Terminating
  <2> QED
    BY <2>1 DEF vars, LineInv, NewlinesAreLines, Token, EndsLine, LineEndsAt, Plain, Byte, Size
<1> QED
  BY <1>1, <1>2, <1>3, <1>4 DEF Next, Lex

-----------------------------------------------------------------------------
(* The theorems. *)

LEMMA TilesStep == TilingInv /\ [Next]_vars => TilingInv'
<1> SUFFICES ASSUME TilingInv, [Next]_vars PROVE TilingInv'
  OBVIOUS
<1>1. CASE NextToken
  BY <1>1, NewlinesTile, WhitespaceTiles, LineCommentTiles, BlockCommentTiles, LiteralsTile, IdentsTile,
     NumberBegins, PunctuatorsTile, StrayTiles DEF NextToken
<1>2. CASE Loops
  BY <1>2, WhitespaceTiles, LineCommentTiles, BlockCommentTiles, LiteralsTile, IdentsTile,
     NumberReadsOn, NumberEnds DEF Loops
<1>3. CASE LexEof
  BY <1>3, EofTiles
<1>4. CASE Terminating \/ UNCHANGED vars
  BY <1>4, StutterTiles DEF Terminating
<1> QED
  BY <1>1, <1>2, <1>3, <1>4 DEF Next, Lex

\* Whatever the text, the tokens tile what has been read of it, without a gap and
\* at character boundaries, and each diagnostic is about one of them.  A position
\* inside of a character would make `bump` (rccx_lexer lib.rs:79) panic.
THEOREM TokensAlwaysTile == Spec => []TokensTile
<1>1. Init => TilingInv
  BY InitTiles
<1>2. TilingInv /\ [Next]_vars => TilingInv'
  BY TilesStep
<1>3. TilingInv => TokensTile
  BY DEF TilingInv
<1> QED
  BY <1>1, <1>2, <1>3, PTL DEF Spec

\* Whatever the text, a Newline token ends where a line ends, and a line end
\* without one is inside of a comment or a literal: the preprocessor's lines
\* (next_token and its loops) are those of the line table, CR LF or not.
THEOREM NewlinesAreAlwaysLines == Spec => []NewlinesAreLines
<1>1. Init => TilingInv /\ LineInv
  BY InitTiles DEF Init, LineInv, NewlinesAreLines, Token, Range, OneLineLoops
<1>2. (TilingInv /\ LineInv) /\ [Next]_vars => (TilingInv /\ LineInv)'
  BY TilesStep, LinesStep
<1>3. TilingInv /\ LineInv => NewlinesAreLines
  BY DEF LineInv
<1> QED
  BY <1>1, <1>2, <1>3, PTL DEF Spec

-----------------------------------------------------------------------------
(* The line table.                                                            *)

\* What ComputeLineStarts says of the bytes from i on, given what f says of
\* those behind.
StartsFrom(f, i) ==
  CASE i = Size -> <<>>
    [] Byte(i) = "LF" -> <<i + 1>> \o f[i + 1]
    [] Byte(i) = "CR" /\ Byte(i + 1) = "LF" -> <<i + 2>> \o f[i + 2]
    [] Byte(i) = "CR" /\ Byte(i + 1) # "LF" -> <<i + 1>> \o f[i + 1]
    [] OTHER -> f[i + 1]
StartsBy(f, n) == f = [i \in n .. Size |-> StartsFrom(f, i)]

LEMMA StartsFromIs ==
  ASSUME text \in Texts, NEW f, NEW i \in 0 .. Size
  PROVE  StartsFrom(f, i)
         = IF i = Size THEN <<>>
           ELSE IF LineEndsAt(i + 1) THEN <<i + 1>> \o f[i + 1]
           ELSE IF Byte(i) = "CR" THEN <<i + 2>> \o f[i + 2]
           ELSE f[i + 1]
<1>1. i + 1 > 0 /\ (i + 1) - 1 = i
  OBVIOUS
<1>2. LineEndsAt(i + 1) <=> Byte(i) = "LF" \/ (Byte(i) = "CR" /\ Byte(i + 1) # "LF")
  BY <1>1 DEF LineEndsAt
<1>3. CASE i = Size
  <2>1. Byte(i) = "none"
    BY <1>3, TextType DEF Byte
  <2> QED
    BY <1>3, <2>1 DEF StartsFrom
<1>4. CASE i # Size /\ Byte(i) = "LF"
  BY <1>2, <1>4 DEF StartsFrom
<1>5. CASE i # Size /\ Byte(i) = "CR" /\ Byte(i + 1) = "LF"
  BY <1>2, <1>5 DEF StartsFrom
<1>6. CASE i # Size /\ Byte(i) = "CR" /\ Byte(i + 1) # "LF"
  BY <1>2, <1>6 DEF StartsFrom
<1>7. CASE i # Size /\ Byte(i) # "LF" /\ Byte(i) # "CR"
  BY <1>2, <1>7 DEF StartsFrom
<1> QED
  BY <1>3, <1>4, <1>5, <1>6, <1>7

\* A byte of a line end is within the text.
LEMMA BytesOfEnds ==
  ASSUME text \in Texts, NEW p \in Nat, Byte(p) \in LineBytes
  PROVE  p < Size
BY TextType DEF LineBytes

LEMMA StartsAgree ==
  ASSUME text \in Texts, NEW i \in 0 .. Size, NEW f, NEW g, \A j \in i + 1 .. Size : f[j] = g[j]
  PROVE  StartsFrom(f, i) = StartsFrom(g, i)
<1>1. Size \in Nat
  BY TextType
<1>2. CASE i = Size
  BY <1>2, StartsFromIs
<1>3. CASE i # Size
  <2>1. i + 1 \in i + 1 .. Size
    BY <1>1, <1>3
  <2>2. ASSUME Byte(i) = "CR", ~LineEndsAt(i + 1)
        PROVE  i + 2 \in i + 1 .. Size
    <3>1. Byte(i + 1) \in LineBytes
      BY <2>2 DEF LineEndsAt, LineBytes
    <3> QED
      BY <1>1, <3>1, BytesOfEnds
  <2> QED
    BY <1>3, <2>1, <2>2, StartsFromIs
<1> QED
  BY <1>2, <1>3

LEMMA StartsExist ==
  ASSUME text \in Texts
  PROVE  \E f : StartsBy(f, 0)
<1>1. Size \in Nat
  BY TextType
<1> DEFINE S == {k \in Nat : k <= Size => \E f : StartsBy(f, Size - k)}
<1>2. 0 \in S
  <2>1. StartsBy([i \in Size .. Size |-> <<>>], Size)
    <3> DEFINE f == [i \in Size .. Size |-> <<>>]
    <3>1. \A i \in Size .. Size : i \in 0 .. Size /\ i = Size
      BY <1>1
    <3>2. \A i \in Size .. Size : StartsFrom(f, i) = <<>>
      <4> HIDE DEF f
      <4> QED
        BY <3>1, StartsFromIs
    <3> QED
      BY <3>2 DEF StartsBy
  <2>2. Size - 0 = Size
    BY <1>1
  <2> QED
    BY <2>1, <2>2
<1>3. ASSUME NEW k \in Nat, k \in S
      PROVE  k + 1 \in S
  <2> SUFFICES ASSUME k + 1 <= Size
               PROVE  \E f : StartsBy(f, Size - (k + 1))
    OBVIOUS
  <2> DEFINE n == Size - (k + 1)
  <2>1. n \in Nat /\ n + 1 = Size - k /\ n < Size /\ k <= Size
    BY <1>1
  <2>2. PICK f : StartsBy(f, n + 1)
    BY <1>3, <2>1
  <2> HIDE DEF n
  <2> DEFINE g == [i \in n .. Size |-> IF i = n THEN StartsFrom(f, n) ELSE f[i]]
  <2>3. \A i \in n + 1 .. Size : g[i] = f[i]
    BY <2>1
  <2>4. ASSUME NEW i \in n .. Size
        PROVE  g[i] = StartsFrom(g, i)
    <3>1. i \in 0 .. Size /\ \A j \in i + 1 .. Size : f[j] = g[j]
      BY <1>1, <2>1, <2>3
    <3>2. StartsFrom(f, i) = StartsFrom(g, i)
      <4> HIDE DEF g
      <4> QED
        BY <3>1, StartsAgree
    <3>3. CASE i = n
      BY <3>2, <3>3
    <3>4. CASE i # n
      <4>1. i \in n + 1 .. Size
        BY <2>1, <3>4
      <4>2. f[i] = StartsFrom(f, i)
        BY <2>2, <4>1 DEF StartsBy
      <4> QED
        BY <2>3, <3>2, <4>1, <4>2
    <3> QED
      BY <3>3, <3>4
  <2>5. StartsBy(g, n)
    <3>1. g = [i \in n .. Size |-> g[i]]
      OBVIOUS
    <3> HIDE DEF g
    <3> QED
      BY <2>4, <3>1 DEF StartsBy
  <2> QED
    BY <2>5 DEF n
<1>4. Nat \subseteq S
  <2> HIDE DEF S
  <2> QED
    BY <1>2, <1>3, SetInduction
<1>5. Size \in S /\ Size - Size = 0
  BY <1>1, <1>4
<1> QED
  BY <1>1, <1>5

\* s lists the line ends behind i, in order.
ListsEnds(s, i) ==
  /\ s \in Seq(Nat)
  /\ \A a \in 1 .. Len(s) : s[a] \in i + 1 .. Size /\ LineEndsAt(s[a])
  /\ \A a, b \in 1 .. Len(s) : a < b => s[a] < s[b]
  /\ \A p \in i + 1 .. Size : LineEndsAt(p) => \E a \in 1 .. Len(s) : s[a] = p

LEMMA ListsOneMore ==
  ASSUME Size \in Nat, NEW i \in Nat, NEW j \in Nat, i < j, j <= Size, NEW s, ListsEnds(s, j),
         LineEndsAt(j), \A p \in i + 1 .. j - 1 : ~LineEndsAt(p)
  PROVE  ListsEnds(<<j>> \o s, i)
<1> DEFINE t == <<j>> \o s
           n == Len(s)
<1>1. <<j>> \in Seq(Nat) /\ Len(<<j>>) = 1 /\ <<j>>[1] = j /\ s \in Seq(Nat) /\ n \in Nat
  BY LenProperties DEF ListsEnds
<1>2. t \in Seq(Nat) /\ Len(t) = 1 + n /\ t[1] = j /\ \A a \in 1 .. n : t[1 + a] = s[a]
  <2>1. /\ t \in Seq(Nat) /\ Len(t) = Len(<<j>>) + Len(s)
        /\ \A a \in 1 .. Len(<<j>>) + Len(s) :
             t[a] = IF a <= Len(<<j>>) THEN <<j>>[a] ELSE s[a - Len(<<j>>)]
    BY <1>1, ConcatProperties
  <2> HIDE DEF t, n
  <2>2. Len(t) = 1 + n /\ \A a \in 1 .. 1 + n : t[a] = IF a <= 1 THEN <<j>>[a] ELSE s[a - 1]
    BY <1>1, <2>1 DEF n
  <2>3. ASSUME NEW a \in 1 .. n
        PROVE  t[1 + a] = s[a]
    <3>1. 1 + a \in 1 .. 1 + n /\ ~ (1 + a <= 1) /\ (1 + a) - 1 = a
      BY <1>1
    <3> QED
      BY <2>2, <3>1
  <2>4. t[1] = j
    BY <1>1, <2>2
  <2> QED
    BY <2>1, <2>2, <2>3, <2>4
<1> HIDE DEF t, n
<1>3. \A a \in 1 .. 1 + n : a = 1 \/ (a - 1 \in 1 .. n /\ 1 + (a - 1) = a)
  BY <1>1
<1>4. /\ \A a \in 1 .. n : s[a] \in j + 1 .. Size /\ LineEndsAt(s[a])
      /\ \A a, b \in 1 .. n : a < b => s[a] < s[b]
      /\ \A p \in j + 1 .. Size : LineEndsAt(p) => \E a \in 1 .. n : s[a] = p
  BY DEF ListsEnds, n
<1>5. \A a \in 1 .. 1 + n : t[a] \in i + 1 .. Size /\ LineEndsAt(t[a])
  BY <1>2, <1>3, <1>4, SMTT(30)
<1>6. ASSUME NEW a \in 1 .. 1 + n, NEW b \in 1 .. 1 + n, a < b
      PROVE  t[a] < t[b]
  <2>1. b - 1 \in 1 .. n /\ 1 + (b - 1) = b
    BY <1>1, <1>6
  <2>2. t[b] = s[b - 1] /\ s[b - 1] \in j + 1 .. Size
    BY <1>2, <1>4, <2>1
  <2>3. CASE a = 1
    BY <1>2, <2>2, <2>3
  <2>4. CASE a # 1
    <3>1. a - 1 \in 1 .. n /\ 1 + (a - 1) = a /\ a - 1 < b - 1
      BY <1>1, <1>6, <2>4
    <3>2. t[a] = s[a - 1]
      BY <1>2, <3>1
    <3> QED
      BY <1>4, <2>1, <2>2, <3>1, <3>2
  <2> QED
    BY <2>3, <2>4
<1>7. ASSUME NEW p \in i + 1 .. Size, LineEndsAt(p)
      PROVE  \E a \in 1 .. 1 + n : t[a] = p
  <2>1. p = j \/ p \in j + 1 .. Size
    BY <1>7
  <2>2. CASE p = j
    BY <1>1, <1>2, <2>2
  <2>3. CASE p \in j + 1 .. Size
    <3>1. PICK a \in 1 .. n : s[a] = p
      BY <1>4, <1>7, <2>3
    <3>2. 1 + a \in 1 .. 1 + n /\ t[1 + a] = p
      BY <1>1, <1>2, <3>1
    <3> QED
      BY <3>2
  <2> QED
    BY <2>1, <2>2, <2>3
<1> QED
  BY <1>2, <1>5, <1>6, <1>7 DEF ListsEnds, t

LEMMA ListsNoMore ==
  ASSUME Size \in Nat, NEW i \in Nat, NEW s, ListsEnds(s, i + 1), ~LineEndsAt(i + 1)
  PROVE  ListsEnds(s, i)
<1>1. \A p \in i + 1 .. Size : p = i + 1 \/ p \in (i + 1) + 1 .. Size
  OBVIOUS
<1>2. \A p \in (i + 1) + 1 .. Size : p \in i + 1 .. Size
  OBVIOUS
<1> QED
  BY <1>1, <1>2 DEF ListsEnds

LEMMA StartsList ==
  ASSUME text \in Texts, NEW f, StartsBy(f, 0)
  PROVE  ListsEnds(f[0], 0)
<1>1. Size \in Nat
  BY TextType
<1>2. \A i \in 0 .. Size : f[i] = StartsFrom(f, i)
  BY DEF StartsBy
<1> DEFINE S == {k \in Nat : \A i \in 0 .. Size : Size - i <= k => ListsEnds(f[i], i)}
<1>3. 0 \in S
  <2> SUFFICES ASSUME NEW i \in 0 .. Size, Size - i <= 0
               PROVE  ListsEnds(f[i], i)
    OBVIOUS
  <2>1. i = Size
    BY <1>1
  <2>2. f[i] = <<>>
    BY <1>2, <2>1, StartsFromIs
  <2>3. Len(<<>>) = 0 /\ <<>> \in Seq(Nat)
    BY EmptySeq
  <2>4. \A p : p \notin i + 1 .. Size
    BY <1>1, <2>1
  <2> QED
    BY <2>2, <2>3, <2>4 DEF ListsEnds
<1>4. ASSUME NEW k \in Nat, k \in S
      PROVE  k + 1 \in S
  <2> SUFFICES ASSUME NEW i \in 0 .. Size, Size - i <= k + 1, i # Size
               PROVE  ListsEnds(f[i], i)
    <3>1. ASSUME NEW i \in 0 .. Size, i = Size
          PROVE  Size - i <= k
      BY <1>1, <3>1
    <3> QED
      BY <1>4, <3>1
  <2>1. i \in Nat /\ i + 1 \in 0 .. Size /\ Size - (i + 1) <= k /\ i < i + 1
    BY <1>1
  <2>2. ListsEnds(f[i + 1], i + 1)
    BY <1>4, <2>1
  <2>3. f[i] = IF LineEndsAt(i + 1) THEN <<i + 1>> \o f[i + 1]
               ELSE IF Byte(i) = "CR" THEN <<i + 2>> \o f[i + 2]
               ELSE f[i + 1]
    BY <1>2, StartsFromIs
  <2>4. CASE LineEndsAt(i + 1)
    <3>1. \A p : p \notin i + 1 .. (i + 1) - 1
      BY <2>1
    <3>2. i + 1 \in Nat /\ i + 1 <= Size
      BY <2>1, <1>1
    <3> QED
      BY <1>1, <2>1, <2>2, <2>3, <2>4, <3>1, <3>2, ListsOneMore
  <2>5. CASE ~LineEndsAt(i + 1) /\ Byte(i) = "CR"
    <3>1. Byte(i + 1) = "LF"
      BY <2>1, <2>5 DEF LineEndsAt
    <3>2. i + 1 < Size
      BY <2>1, <3>1, BytesOfEnds DEF LineBytes
    <3>3. /\ i + 2 \in 0 .. Size /\ Size - (i + 2) <= k /\ i < i + 2 /\ i + 2 \in Nat /\ i + 2 <= Size
          /\ i + 2 > 0 /\ (i + 2) - 1 = i + 1
      BY <1>1, <2>1, <3>2
    <3>4. LineEndsAt(i + 2)
      BY <3>1, <3>3 DEF LineEndsAt
    <3>5. ListsEnds(f[i + 2], i + 2)
      BY <1>4, <3>3
    <3>6. \A p \in i + 1 .. (i + 2) - 1 : ~LineEndsAt(p)
      <4>1. \A p \in i + 1 .. (i + 2) - 1 : p = i + 1
        BY <2>1
      <4> QED
        BY <2>5, <4>1
    <3> QED
      BY <1>1, <2>1, <2>3, <2>5, <3>3, <3>4, <3>5, <3>6, ListsOneMore
  <2>6. CASE ~LineEndsAt(i + 1) /\ Byte(i) # "CR"
    BY <1>1, <2>1, <2>2, <2>3, <2>6, ListsNoMore
  <2> QED
    BY <2>4, <2>5, <2>6
<1>5. Nat \subseteq S
  <2> HIDE DEF S
  <2> QED
    BY <1>3, <1>4, SetInduction
<1>6. Size \in S /\ 0 \in 0 .. Size /\ Size - 0 <= Size
  BY <1>1, <1>5
<1> QED
  BY <1>6

\* The line table is where the lines begin, in order.
IsTable(starts) ==
  /\ starts \in Seq(Nat) /\ Len(starts) > 0 /\ starts[1] = 0
  /\ \A a, b \in 1 .. Len(starts) : a < b => starts[a] < starts[b]
  /\ \A p : p \in Starts <=> \E a \in 1 .. Len(starts) : starts[a] = p

LEMMA TableIs ==
  ASSUME text \in Texts
  PROVE  IsTable(ComputeLineStarts)
<1> DEFINE h == CHOOSE f : StartsBy(f, 0)
<1>1. StartsBy(h, 0)
  BY StartsExist
<1>2. ComputeLineStarts = <<0>> \o h[0]
  BY DEF ComputeLineStarts, StartsBy, StartsFrom
<1> HIDE DEF h
<1>3. ListsEnds(h[0], 0) /\ Size \in Nat
  BY <1>1, StartsList, TextType
<1> DEFINE s == h[0]
           t == <<0>> \o s
           n == Len(s)
<1>4. /\ s \in Seq(Nat) /\ n \in Nat
      /\ \A a \in 1 .. n : s[a] \in 1 .. Size /\ LineEndsAt(s[a])
      /\ \A a, b \in 1 .. n : a < b => s[a] < s[b]
      /\ \A p \in 1 .. Size : LineEndsAt(p) => \E a \in 1 .. n : s[a] = p
  BY <1>3, LenProperties DEF ListsEnds
<1>5. t \in Seq(Nat) /\ Len(t) = 1 + n /\ t[1] = 0 /\ \A a \in 1 .. n : t[1 + a] = s[a]
  <2>1. <<0>> \in Seq(Nat) /\ Len(<<0>>) = 1 /\ <<0>>[1] = 0
    OBVIOUS
  <2>2. /\ t \in Seq(Nat) /\ Len(t) = Len(<<0>>) + Len(s)
        /\ \A a \in 1 .. Len(<<0>>) + Len(s) :
             t[a] = IF a <= Len(<<0>>) THEN <<0>>[a] ELSE s[a - Len(<<0>>)]
    <3> HIDE DEF s
    <3> QED
      BY <1>4, <2>1, ConcatProperties
  <2> HIDE DEF t, n, s
  <2>3. Len(t) = 1 + n /\ \A a \in 1 .. 1 + n : t[a] = IF a <= 1 THEN <<0>>[a] ELSE s[a - 1]
    BY <1>4, <2>1, <2>2 DEF n
  <2>4. ASSUME NEW a \in 1 .. n
        PROVE  t[1 + a] = s[a]
    <3>1. 1 + a \in 1 .. 1 + n /\ ~ (1 + a <= 1) /\ (1 + a) - 1 = a
      BY <1>4
    <3> QED
      BY <2>3, <3>1
  <2>5. t[1] = 0
    BY <1>4, <2>1, <2>3
  <2> QED
    BY <2>2, <2>3, <2>4, <2>5
<1> HIDE DEF t, n, s
<1>6. ASSUME NEW a \in 1 .. 1 + n, NEW b \in 1 .. 1 + n, a < b
      PROVE  t[a] < t[b]
  <2>1. b - 1 \in 1 .. n /\ 1 + (b - 1) = b
    BY <1>4, <1>6
  <2>2. t[b] = s[b - 1] /\ s[b - 1] \in 1 .. Size
    BY <1>4, <1>5, <2>1
  <2>3. CASE a = 1
    BY <1>3, <1>5, <2>2, <2>3
  <2>4. CASE a # 1
    <3>1. a - 1 \in 1 .. n /\ 1 + (a - 1) = a /\ a - 1 < b - 1
      BY <1>4, <1>6, <2>4
    <3>2. t[a] = s[a - 1]
      BY <1>5, <3>1
    <3> QED
      BY <1>4, <2>1, <2>2, <3>1, <3>2
  <2> QED
    BY <2>3, <2>4
<1>7. ASSUME NEW p
      PROVE  p \in Starts <=> \E a \in 1 .. 1 + n : t[a] = p
  <2>1. p \in Starts <=> p = 0 \/ \E a \in 1 .. n : s[a] = p
    BY <1>4 DEF Starts
  <2>2. \A a \in 1 .. 1 + n : a = 1 \/ (a - 1 \in 1 .. n /\ 1 + (a - 1) = a)
    BY <1>4
  <2>3. 1 \in 1 .. 1 + n /\ \A a \in 1 .. n : 1 + a \in 1 .. 1 + n
    BY <1>4
  <2>4. CASE p = 0
    BY <1>5, <2>1, <2>3, <2>4
  <2>5. CASE p # 0
    <3>1. ASSUME NEW a \in 1 .. n, s[a] = p
          PROVE  \E b \in 1 .. 1 + n : t[b] = p
      BY <1>5, <2>3, <3>1
    <3>2. ASSUME NEW b \in 1 .. 1 + n, t[b] = p
          PROVE  \E a \in 1 .. n : s[a] = p
      <4>1. b - 1 \in 1 .. n /\ t[1 + (b - 1)] = p
        BY <1>5, <2>2, <2>5, <3>2
      <4> QED
        BY <1>5, <4>1
    <3> QED
      BY <2>1, <2>5, <3>1, <3>2
  <2> QED
    BY <2>4, <2>5
<1> QED
  BY <1>2, <1>4, <1>5, <1>6, <1>7 DEF IsTable, t, s

-----------------------------------------------------------------------------
(* What a diagnostic shows.                                                   *)

LEMMA MinOfTwo ==
  ASSUME NEW a \in Nat, NEW b \in Nat, a <= b
  PROVE  Min({a, b}) = a /\ Max({b, a}) = b
<1>1. {a, b} \in SUBSET Nat /\ {a, b} # {}
  OBVIOUS
<1>2. Min({a, b}) \in {a, b} /\ Min({a, b}) <= a
  BY <1>1, MinIsLeast
<1>3. {b, a} \in SUBSET (0 .. b) /\ {b, a} # {}
  OBVIOUS
<1>4. Max({b, a}) \in {b, a} /\ b <= Max({b, a})
  BY <1>3, MaxIsGreatest
<1> QED
  BY <1>2, <1>4

\* The binary search finds the line that the offset is on, and its number.
LEMMA LineIs ==
  ASSUME text \in Texts, NEW starts, IsTable(starts), NEW off \in 0 .. Size
  PROVE  /\ LineIndex(starts, off) \in 1 .. Len(starts)
         /\ starts[LineIndex(starts, off)] = LineStart(off)
         /\ LineStart(off) \in Starts /\ LineStart(off) \in 0 .. off
         /\ \A p \in Starts : p <= LineStart(off) \/ p > off
         /\ LineIndex(starts, off) = Cardinality({s \in Starts : s <= off})
<1> DEFINE n == Len(starts)
           at == {i \in DOMAIN starts : starts[i] <= off}
           line == Max(at)
           upTo == {s \in Starts : s <= off}
<1>1. /\ n \in Nat /\ DOMAIN starts = 1 .. n /\ \A a \in 1 .. n : starts[a] \in Nat
      /\ n > 0 /\ starts[1] = 0
      /\ \A a, b \in 1 .. n : a < b => starts[a] < starts[b]
      /\ \A p : p \in Starts <=> \E a \in 1 .. n : starts[a] = p
  BY LenProperties DEF IsTable
<1>2. off \in Nat /\ Size \in Nat
  BY TextType
<1> HIDE DEF n
<1>3. at \in SUBSET (0 .. n) /\ 1 \in at
  BY <1>1, <1>2
<1>4. line \in at /\ \A i \in at : i <= line
  <2> HIDE DEF at
  <2> QED
    BY <1>1, <1>3, MaxIsGreatest
<1>5. line \in 1 .. n /\ starts[line] <= off /\ starts[line] \in Nat
  BY <1>1, <1>4
<1>6. \A a \in 1 .. n : starts[a] <= off => a <= line
  BY <1>1, <1>4
<1>7. LineIndex(starts, off) = line
  BY DEF LineIndex
<1> HIDE DEF line, at
<1>8. \A a \in 1 .. line : a \in 1 .. n /\ starts[a] <= starts[line]
  <2> SUFFICES ASSUME NEW a \in 1 .. line
               PROVE  a \in 1 .. n /\ starts[a] <= starts[line]
    OBVIOUS
  <2>1. a \in 1 .. n /\ (a = line \/ a < line)
    BY <1>1, <1>5
  <2> QED
    BY <1>1, <1>5, <2>1
<1>9. LineStart(off) = starts[line]
  <2>1. upTo \in SUBSET (0 .. off)
    BY <1>1, <1>2
  <2>2. starts[line] \in upTo
    BY <1>1, <1>5
  <2>3. \A p \in upTo : p <= starts[line]
    <3> SUFFICES ASSUME NEW p \in upTo
                 PROVE  p <= starts[line]
      OBVIOUS
    <3>1. PICK a \in 1 .. n : starts[a] = p
      BY <1>1
    <3>2. a \in 1 .. line
      BY <1>1, <1>5, <1>6, <3>1
    <3> QED
      BY <1>8, <3>1, <3>2
  <2>4. LineStart(off) = Max(upTo)
    BY DEF LineStart
  <2> HIDE DEF upTo
  <2>5. Max(upTo) \in upTo /\ \A p \in upTo : p <= Max(upTo)
    BY <1>2, <2>1, <2>2, MaxIsGreatest
  <2> DEFINE m == Max(upTo)
  <2>6. m \in upTo /\ \A p \in upTo : p <= m
    BY <2>5
  <2> HIDE DEF m
  <2>7. m \in Nat /\ starts[line] <= m /\ m <= starts[line]
    <3>1. m \in 0 .. off
      BY <2>1, <2>6
    <3>2. starts[line] <= m
      BY <2>2, <2>6
    <3>3. m <= starts[line]
      BY <2>3, <2>6
    <3> QED
      BY <1>2, <3>1, <3>2, <3>3
  <2>8. m = starts[line]
    BY <1>5, <2>7
  <2> QED
    BY <2>4, <2>8 DEF m
<1>10. line = Cardinality(upTo)
  <2> DEFINE f == [a \in 1 .. line |-> starts[a]]
  <2>1. \A a \in 1 .. line : starts[a] \in upTo
    <3> SUFFICES ASSUME NEW a \in 1 .. line
                 PROVE  starts[a] \in Starts /\ starts[a] <= off
      OBVIOUS
    <3>1. a \in 1 .. n /\ starts[a] <= starts[line] /\ starts[a] \in Nat
      BY <1>1, <1>8
    <3> QED
      BY <1>1, <1>2, <1>5, <3>1
  <2>2. \A p \in upTo : \E a \in 1 .. line : starts[a] = p
    BY <1>1, <1>5, <1>6
  <2>3. \A a, b \in 1 .. line : starts[a] = starts[b] => a = b
    <3> SUFFICES ASSUME NEW a \in 1 .. line, NEW b \in 1 .. line, starts[a] = starts[b], a # b
                 PROVE  FALSE
      OBVIOUS
    <3>1. a \in 1 .. n /\ b \in 1 .. n /\ (a < b \/ b < a) /\ starts[a] \in Nat
      BY <1>1, <1>8
    <3> QED
      BY <1>1, <3>1
  <2> HIDE DEF upTo
  <2>4. /\ f \in [1 .. line -> upTo]
        /\ \A p \in upTo : \E a \in 1 .. line : f[a] = p
        /\ \A a, b \in 1 .. line : f[a] = f[b] => a = b
    BY <2>1, <2>2, <2>3
  <2> HIDE DEF f
  <2>5. f \in Bijection(1 .. line, upTo)
    <3>1. \A a, b \in DOMAIN f : f[a] = f[b] => a = b
      BY <2>4
    <3>2. \A p \in upTo : \E a \in 1 .. line : f[a] = p
      BY <2>4
    <3> QED
      BY <2>4, <3>1, <3>2 DEF Bijection, Injection, Surjection, IsInjective
  <2>6. ExistsBijection(1 .. line, upTo)
    BY <2>5 DEF ExistsBijection
  <2>7. line \in Nat /\ IsFiniteSet(1 .. line) /\ Cardinality(1 .. line) = line
    BY <1>5, FS_Interval
  <2> QED
    BY <2>6, <2>7, FS_Bijection
<1>11. \A p \in Starts : p <= LineStart(off) \/ p > off
  <2> SUFFICES ASSUME NEW p \in Starts, p <= off
               PROVE  p <= starts[line]
    BY <1>1, <1>2, <1>9
  <2>1. PICK a \in 1 .. n : starts[a] = p
    BY <1>1
  <2>2. a \in 1 .. line
    BY <1>1, <1>5, <1>6, <2>1
  <2> QED
    BY <1>8, <2>1, <2>2
<1> QED
  BY <1>1, <1>2, <1>5, <1>7, <1>9, <1>10, <1>11 DEF n

\* The last line has no end that could be stripped.
LEMMA LastLineIs ==
  ASSUME text \in Texts, NEW s \in Starts, \A p \in Starts : p <= s
  PROVE  LineEnd(s) = Size
<1>1. Size \in Nat /\ s \in 0 .. Size
  BY TextType DEF Starts
<1>2. ASSUME NEW q \in s .. Size - 1, Byte(q) \in {"LF", "CR"}
      PROVE  FALSE
  <2>1. q \in Nat /\ q + 1 \in 1 .. Size /\ q + 1 > s /\ (q + 1) - 1 = q
    BY <1>1
  <2>2. ~LineEndsAt(q + 1)
    BY <1>1, <2>1 DEF Starts
  <2>3. Byte(q) = "CR" /\ Byte(q + 1) = "LF"
    BY <1>2, <2>1, <2>2 DEF LineEndsAt
  <2>4. q + 1 < Size
    BY <2>1, <2>3, BytesOfEnds DEF LineBytes
  <2>5. q + 2 \in 1 .. Size /\ q + 2 > s /\ (q + 2) - 1 = q + 1
    BY <1>1, <2>1, <2>4
  <2>6. LineEndsAt(q + 2)
    BY <2>3, <2>5 DEF LineEndsAt
  <2> QED
    BY <1>1, <2>5, <2>6 DEF Starts
<1>3. {Size} \cup {q \in s .. Size - 1 : Byte(q) \in {"LF", "CR"}} = {Size}
  BY <1>2
<1>4. {Size} \in SUBSET Nat /\ Min({Size}) \in {Size}
  BY <1>1, MinIsLeast
<1> QED
  BY <1>3, <1>4 DEF LineEnd

\* The text of a line goes on to its first LF or CR.
LEMMA LineEndIs ==
  ASSUME text \in Texts, NEW s \in 0 .. Size
  PROVE  /\ LineEnd(s) \in s .. Size
         /\ \A q \in s .. LineEnd(s) - 1 : Byte(q) \notin {"LF", "CR"}
         /\ LineEnd(s) < Size => Byte(LineEnd(s)) \in {"LF", "CR"}
<1> DEFINE Q == {q \in s .. Size - 1 : Byte(q) \in {"LF", "CR"}}
           e == Min({Size} \cup Q)
<1>1. Size \in Nat
  BY TextType
<1>2. {Size} \cup Q \in SUBSET Nat /\ {Size} \cup Q # {}
  BY <1>1
<1>3. e \in {Size} \cup Q /\ \A y \in {Size} \cup Q : e <= y
  BY <1>2, MinIsLeast
<1>4. LineEnd(s) = e
  BY DEF LineEnd
<1> HIDE DEF e
<1>5. e \in s .. Size /\ (e < Size => Byte(e) \in {"LF", "CR"})
  BY <1>1, <1>3
<1>6. ASSUME NEW q \in s .. e - 1, Byte(q) \in {"LF", "CR"}
      PROVE  FALSE
  <2>1. q \in s .. Size - 1 /\ q < e
    BY <1>1, <1>5
  <2>2. e <= q
    BY <1>3, <1>6, <2>1
  <2> QED
    BY <1>1, <1>5, <2>1, <2>2
<1> QED
  BY <1>4, <1>5, <1>6

\* LineRange strips every LF and CR before the next line: that is the one end
\* of this line, LF, CR or CR LF.
LEMMA InnerLineIs ==
  ASSUME text \in Texts, NEW s \in Starts, NEW next \in Starts, s < next,
         \A p \in Starts : p <= s \/ next <= p
  PROVE  Min({e \in s .. next : \A q \in e .. next - 1 : Byte(q) \in {"LF", "CR"}}) = LineEnd(s)
<1> DEFINE E == {e \in s .. next : \A q \in e .. next - 1 : Byte(q) \in {"LF", "CR"}}
           end == LineEnd(s)
<1>1. Size \in Nat /\ s \in 0 .. Size /\ next \in 1 .. Size /\ LineEndsAt(next)
  BY TextType DEF Starts
<1>2. /\ end \in s .. Size
      /\ \A q \in s .. end - 1 : Byte(q) \notin {"LF", "CR"}
      /\ end < Size => Byte(end) \in {"LF", "CR"}
  BY <1>1, LineEndIs
<1> HIDE DEF end
<1>3. Byte(next - 1) \in {"LF", "CR"}
  BY <1>1 DEF LineEndsAt
<1>4. end \in s .. next - 1
  <2>1. next - 1 \in s .. Size
    BY <1>1
  <2>2. ~ (next - 1 \in s .. end - 1)
    BY <1>2, <1>3
  <2> QED
    BY <1>1, <1>2, <2>1, <2>2
<1>5. end \in Nat /\ end < Size /\ Byte(end) \in {"LF", "CR"}
  BY <1>1, <1>2, <1>4
<1>6. \A p \in 1 .. Size : p > s /\ LineEndsAt(p) => next <= p
  BY <1>1 DEF Starts
<1>7. \A q \in end .. next - 1 : Byte(q) \in {"LF", "CR"}
  <2>1. end + 1 \in 1 .. Size /\ end + 1 > s /\ (end + 1) - 1 = end
    BY <1>1, <1>4, <1>5
  <2>2. CASE LineEndsAt(end + 1)
    <3>1. next <= end + 1
      BY <1>6, <2>1, <2>2
    <3>2. \A q \in end .. next - 1 : q = end
      BY <1>1, <1>4, <3>1
    <3> QED
      BY <1>5, <3>2
  <2>3. CASE ~LineEndsAt(end + 1)
    <3>1. Byte(end) = "CR" /\ Byte(end + 1) = "LF"
      BY <1>5, <2>1, <2>3 DEF LineEndsAt
    <3>2. end + 1 < Size
      BY <2>1, <3>1, BytesOfEnds DEF LineBytes
    <3>3. end + 2 \in 1 .. Size /\ end + 2 > s /\ (end + 2) - 1 = end + 1
      BY <1>1, <1>4, <1>5, <3>2
    <3>4. LineEndsAt(end + 2)
      BY <3>1, <3>3 DEF LineEndsAt
    <3>5. next <= end + 2
      BY <1>6, <3>3, <3>4
    <3>6. \A q \in end .. next - 1 : q = end \/ q = end + 1
      BY <1>1, <1>4, <3>5
    <3> QED
      BY <3>1, <3>6
  <2> QED
    BY <2>2, <2>3
<1>8. end \in E
  BY <1>1, <1>4, <1>7
<1>9. E \in SUBSET Nat /\ E # {}
  BY <1>1, <1>8
<1>10. ASSUME NEW e \in E, e < end
       PROVE  FALSE
  <2>1. e \in s .. end - 1 /\ e \in e .. next - 1
    BY <1>1, <1>4, <1>10
  <2>2. Byte(e) \in {"LF", "CR"}
    BY <2>1
  <2> QED
    BY <1>2, <2>1, <2>2
<1>11. Min(E) \in E /\ \A e \in E : Min(E) <= e
  <2> HIDE DEF E
  <2> QED
    BY <1>9, MinIsLeast
<1> DEFINE m == Min(E)
<1>12. m \in E /\ m <= end /\ ~ (m < end)
  <2>1. m \in E /\ m <= end
    BY <1>8, <1>11
  <2> HIDE DEF E, m
  <2> QED
    BY <1>10, <2>1
<1>13. m \in s .. next
  BY <1>12
<1> HIDE DEF m
<1>14. m = end
  BY <1>1, <1>4, <1>12, <1>13
<1> QED
  BY <1>14 DEF m, end

\* The text of the line an offset is on.
LEMMA LineRangeIs ==
  ASSUME text \in Texts, NEW starts, IsTable(starts), NEW off \in 0 .. Size
  PROVE  LineRange(starts, LineIndex(starts, off))
         = [lo |-> LineStart(off), hi |-> LineEnd(LineStart(off))]
<1> DEFINE n == Len(starts)
           line == LineIndex(starts, off)
           s == LineStart(off)
<1>1. /\ n \in Nat /\ \A a \in 1 .. n : starts[a] \in Nat
      /\ \A a, b \in 1 .. n : a < b => starts[a] < starts[b]
      /\ \A p : p \in Starts <=> \E a \in 1 .. n : starts[a] = p
  BY LenProperties DEF IsTable
<1>2. line \in 1 .. n /\ starts[line] = s /\ s \in Starts
  BY LineIs
<1> HIDE DEF n, line, s
<1>3. \A a \in 1 .. n : a <= line => starts[a] <= s
  <2> SUFFICES ASSUME NEW a \in 1 .. n, a <= line
               PROVE  starts[a] <= s
    OBVIOUS
  <2>1. a = line \/ a < line
    BY <1>2
  <2> QED
    BY <1>1, <1>2, <2>1
<1>4. CASE line = n
  <2>1. \A a \in 1 .. n : a <= line
    BY <1>1, <1>4
  <2>2. \A p \in Starts : p <= s
    BY <1>1, <1>3, <2>1
  <2>3. LineEnd(s) = Size
    BY <1>2, <2>2, LastLineIs
  <2> QED
    BY <1>2, <1>4, <2>3 DEF LineRange, n, line, s
<1>5. CASE line # n
  <2> DEFINE next == starts[line + 1]
  <2>1. line + 1 \in 1 .. n /\ line < line + 1
    BY <1>1, <1>2, <1>5
  <2>2. next \in Starts /\ s < next /\ next \in Nat
    BY <1>1, <1>2, <2>1
  <2>3. \A p \in Starts : p <= s \/ next <= p
    <3> SUFFICES ASSUME NEW a \in 1 .. n
                 PROVE  starts[a] <= s \/ next <= starts[a]
      BY <1>1
    <3>1. a <= line \/ a = line + 1 \/ line + 1 < a
      BY <1>2
    <3> QED
      BY <1>1, <1>3, <2>1, <2>2, <3>1
  <2>4. Min({e \in s .. next : \A q \in e .. next - 1 : Byte(q) \in {"LF", "CR"}}) = LineEnd(s)
    <3> HIDE DEF next
    <3> QED
      BY <1>2, <2>2, <2>3, InnerLineIs
  <2> QED
    BY <1>2, <1>5, <2>4 DEF LineRange, n, line, s
<1> QED
  BY <1>4, <1>5

-----------------------------------------------------------------------------
(* The labels.                                                                *)

LEMMA CharsAreCounted ==
  ASSUME NEW a \in Nat, NEW b \in Nat
  PROVE  CharsIn(a, b) \in Nat
<1>1. IsFiniteSet(a .. b - 1)
  BY FS_Interval
<1>2. {q \in a .. b - 1 : IsBoundary(q)} \in SUBSET (a .. b - 1)
  OBVIOUS
<1> QED
  BY <1>1, <1>2, FS_Subset, FS_CardinalityType DEF CharsIn

LEMMA LabelIs ==
  ASSUME text \in Texts, NEW starts, IsTable(starts), NEW t, t.lo \in 0 .. Size, t.hi \in Nat
  PROVE  Labelled(starts, t)
<1> DEFINE p == t.lo
           line == LineIndex(starts, p)
           start == LineStart(p)
           end == LineEnd(start)
           range == [lo |-> start, hi |-> end]
<1>1. Size \in Nat /\ p \in 0 .. Size
  BY TextType
<1>2. Min({p, Size}) = p
  BY <1>1, MinOfTwo
<1>3. /\ starts[line] = start /\ start \in 0 .. p
      /\ line = Cardinality({s \in Starts : s <= p})
  BY <1>1, LineIs
<1>4. LineRange(starts, line) = range
  BY <1>1, LineRangeIs
<1>5. Max({p, start}) = p
  BY <1>1, <1>3, MinOfTwo
<1>6. CharsIn(start, p) \in Nat
  <2>1. start \in Nat /\ p \in Nat
    BY <1>1, <1>3
  <2> HIDE DEF start, p
  <2> QED
    BY <2>1, CharsAreCounted
<1>7. LineCol(starts, t.lo) = [line |-> line, column |-> CharsIn(start, p) + 1]
  BY <1>2, <1>3 DEF LineCol
<1>8. CaretFor(starts, t, line)
      = [lead |-> CharsIn(start, p), width |-> Max({CharsIn(p, Min({t.hi, end})), 1})]
  BY <1>4, <1>5 DEF CaretFor
<1> HIDE DEF line, start, end
<1>9. CharsIn(start, p) + 1 = 1 + CharsIn(start, p) /\ (CharsIn(start, p) + 1) - 1 = CharsIn(start, p)
  BY <1>6
<1> QED
  BY <1>3, <1>4, <1>7, <1>8, <1>9 DEF Labelled, line, start, end

\* The renderer shows a label of every token, whatever the text: the line, the
\* column and the marks that the line table, the binary search and the clipping
\* of render give are those that a reader of the text would name.
THEOREM LabelsPointRight == Spec => []LabelsAreWhereTheyPoint
<1>1. Init => TilingInv
  BY InitTiles
<1>2. TilingInv /\ [Next]_vars => TilingInv'
  BY TilesStep
<1>3. TilingInv => LabelsAreWhereTheyPoint
  <2> SUFFICES ASSUME TilingInv, NEW t \in Token
               PROVE  Labelled(ComputeLineStarts, t)
    BY DEF LabelsAreWhereTheyPoint
  <2>1. text \in Texts /\ tokens \in Seq([kind : TokenKinds, lo : Nat, hi : Nat])
    BY DEF TilingInv, TypeInv
  <2>2. PICK i \in DOMAIN tokens : t = tokens[i]
    BY DEF Token, Range
  <2>3. t.lo \in Nat /\ t.hi \in Nat
    <3>1. t \in [kind : TokenKinds, lo : Nat, hi : Nat]
      <4> DEFINE T == [kind : TokenKinds, lo : Nat, hi : Nat]
      <4>1. tokens \in Seq(T)
        BY <2>1
      <4> HIDE DEF T
      <4>2. tokens[i] \in T
        BY <2>2, <4>1
      <4> QED
        BY <2>2, <4>2 DEF T
    <3> QED
      BY <3>1
  <2>4. t.lo <= Size
    <3>1. /\ \A j \in DOMAIN tokens : tokens[j].hi <= lo
          /\ t.lo = End(i - 1) /\ lo <= pos /\ pos <= Size /\ lo \in Nat /\ pos \in Nat
      BY <2>2 DEF TilingInv, TypeInv, TokensBehind, TokensTile
    <3>2. DOMAIN tokens = 1 .. Len(tokens) /\ Len(tokens) \in Nat
      BY <2>1, LenProperties
    <3>3. Size \in Nat
      BY <2>1, TextType
    <3>4. CASE i = 1
      BY <3>1, <3>3, <3>4 DEF End
    <3>5. CASE i # 1
      <4>1. i - 1 \in DOMAIN tokens /\ i - 1 # 0
        BY <3>2, <3>5
      <4>2. t.lo = tokens[i - 1].hi /\ tokens[i - 1].hi <= lo
        BY <3>1, <4>1 DEF End
      <4> QED
        BY <2>3, <3>1, <3>3, <4>2
    <3> QED
      BY <3>4, <3>5
  <2>5. IsTable(ComputeLineStarts)
    BY <2>1, TableIs
  <2> QED
    BY <2>1, <2>3, <2>4, <2>5, LabelIs, TextType
<1> QED
  BY <1>1, <1>2, <1>3, PTL DEF Spec

-----------------------------------------------------------------------------
(* Lemmas about the text as MaximalMunch reads it. *)

LEMMA SameFile ==
  /\ MM!Size = Size
  /\ \A p : MM!Byte(p) = Byte(p)
  /\ \A p : MM!NextChar(p) = NextChar(p)
<1>1. MM!Size = Size /\ \A p : MM!Byte(p) = Byte(p)
  BY DEF MM!Size, Size, MM!Byte, Byte
<1>2. \A p : MM!IsBoundary(p) = IsBoundary(p)
  BY <1>1 DEF MM!IsBoundary, IsBoundary, MM!Continuation, Continuation
<1>3. \A S : MM!Min(S) = Min(S)
  BY DEF MM!Min, Min
<1>4. ASSUME NEW p PROVE MM!NextChar(p) = NextChar(p)
  <2>1. {q \in p + 1 .. MM!Size : MM!IsBoundary(q)} = {q \in p + 1 .. Size : IsBoundary(q)}
    BY <1>1, <1>2
  <2> QED
    BY <1>3, <2>1 DEF MM!NextChar, NextChar
<1> QED
  BY <1>1, <1>4

LEMMA BytesAre ==
  /\ \A from, to \in Nat : MM!Bytes(from, to) = [i \in 1 .. to - from |-> Byte(from + i - 1)]
  /\ \A from, to, set : MM!Every(from, to, set) <=> \A q \in from .. to - 1 : Byte(q) \in set
  /\ \A from, to, set : MM!None(from, to, set) <=> \A q \in from .. to - 1 : Byte(q) \notin set
BY SameFile DEF MM!Bytes, MM!Every, MM!None

\* The bytes of a lexeme of one, two or three bytes.
LEMMA FewBytes ==
  ASSUME NEW p \in Nat
  PROVE  /\ MM!Bytes(p, p + 1) = <<Byte(p)>>
         /\ MM!Bytes(p, p + 2) = <<Byte(p), Byte(p + 1)>>
         /\ MM!Bytes(p, p + 3) = <<Byte(p), Byte(p + 1), Byte(p + 2)>>
<1>1. /\ MM!Bytes(p, p + 1) = [i \in 1 .. 1 |-> Byte(p + i - 1)]
      /\ MM!Bytes(p, p + 2) = [i \in 1 .. 2 |-> Byte(p + i - 1)]
      /\ MM!Bytes(p, p + 3) = [i \in 1 .. 3 |-> Byte(p + i - 1)]
  <2>1. p + 1 \in Nat /\ p + 2 \in Nat /\ p + 3 \in Nat
    OBVIOUS
  <2>2. (p + 1) - p = 1 /\ (p + 2) - p = 2 /\ (p + 3) - p = 3
    OBVIOUS
  <2>3. /\ MM!Bytes(p, p + 1) = [i \in 1 .. (p + 1) - p |-> Byte(p + i - 1)]
        /\ MM!Bytes(p, p + 2) = [i \in 1 .. (p + 2) - p |-> Byte(p + i - 1)]
        /\ MM!Bytes(p, p + 3) = [i \in 1 .. (p + 3) - p |-> Byte(p + i - 1)]
    BY <2>1, BytesAre, Zenon
  <2> QED
    BY <2>2, <2>3, Zenon
<1>2. p + 1 - 1 = p /\ p + 2 - 1 = p + 1 /\ p + 3 - 1 = p + 2
  OBVIOUS
<1>3. [i \in 1 .. 1 |-> Byte(p + i - 1)] = <<Byte(p)>>
  BY <1>2
<1>4. [i \in 1 .. 2 |-> Byte(p + i - 1)] = <<Byte(p), Byte(p + 1)>>
  BY <1>2
<1>5. [i \in 1 .. 3 |-> Byte(p + i - 1)] = <<Byte(p), Byte(p + 1), Byte(p + 2)>>
  BY <1>2
<1> QED
  BY <1>1, <1>3, <1>4, <1>5

\* Within a character there are only continuation bytes.
LEMMA WithinChar ==
  ASSUME text \in Texts, NEW p \in Nat, p < Size
  PROVE  \A r \in p + 1 .. NextChar(p) - 1 : Byte(r) \in Continuation
<1> DEFINE S == {q \in p + 1 .. Size : IsBoundary(q)}
<1>1. Size \in Nat /\ Size \in S /\ S \in SUBSET Nat
  BY TextType
<1>2. NextChar(p) \in S /\ \A q \in S : NextChar(p) <= q
  <2> HIDE DEF S
  <2>1. Min(S) \in S /\ \A q \in S : Min(S) <= q
    BY <1>1, MinIsLeast
  <2> QED
    BY <2>1 DEF NextChar, S
<1>3. ASSUME NEW r \in p + 1 .. NextChar(p) - 1 PROVE Byte(r) \in Continuation
  <2>1. r \notin S /\ r \in p + 1 .. Size
    BY <1>1, <1>2, <1>3
  <2> QED
    BY <2>1 DEF IsBoundary
<1> QED
  BY <1>3

LEMMA LeastIs ==
  ASSUME NEW S \in SUBSET Nat, NEW x \in S, \A y \in S : x <= y
  PROVE  MM!Min(S) = x
<1>1. Min(S) \in S /\ Min(S) <= x
  BY MinIsLeast
<1>2. Min(S) = x
  <2>1. Min(S) \in Nat /\ x \in Nat /\ x <= Min(S)
    BY <1>1
  <2> QED
    BY <1>1, <2>1
<1> QED
  BY <1>2 DEF MM!Min, Min

\* A character of ASCII is one byte.
LEMMA AsciiNext ==
  ASSUME text \in Texts, NEW p \in Nat, Byte(p) \in Ascii
  PROVE  NextChar(p) = p + 1
<1> DEFINE S == {q \in p + 1 .. Size : IsBoundary(q)}
<1>1. Size \in Nat /\ p + 1 \in S /\ S \in SUBSET Nat
  BY TextType, AsciiAhead
<1>2. \A q \in S : q \in Nat /\ p + 1 <= q
  BY <1>1
<1> HIDE DEF S
<1>3. Min(S) \in S /\ Min(S) <= p + 1
  BY <1>1, MinIsLeast
<1>4. Min(S) = p + 1
  BY <1>2, <1>3
<1> QED
  BY <1>4 DEF NextChar, S

-----------------------------------------------------------------------------
(* Escaped bytes, one byte after the other. *)

\* A byte is escaped just in case a backslash stands before it that is not.
LEMMA EscapedNext ==
  ASSUME NEW body \in Nat, NEW q \in Nat, body <= q
  PROVE  /\ ~ MM!Escaped(body, body)
         /\ MM!Escaped(q + 1, body) <=> Byte(q) = "\\" /\ ~ MM!Escaped(q, body)
<1> DEFINE Run(p) == {r \in body .. p : MM!Every(r, p, {"\\"})}
           First(p) == MM!Min(Run(p))
<1>1. \A p : MM!Escaped(p, body) <=> (p - First(p)) % 2 = 1
  BY DEF MM!Escaped
<1>2. \A p, r \in Nat : MM!Every(r, p, {"\\"}) <=> \A i \in r .. p - 1 : Byte(i) = "\\"
  BY BytesAre
<1>3. ASSUME NEW p \in Nat PROVE \A r : r \in Run(p) <=> r \in body .. p /\ \A i \in r .. p - 1 : Byte(i) = "\\"
  BY <1>2
<1> HIDE DEF Run
<1>4. ASSUME NEW p \in Nat, body <= p PROVE p \in Run(p) /\ Run(p) \in SUBSET Nat
  BY <1>3, <1>4
<1>5. First(body) = body
  <2>1. \A y \in Run(body) : body <= y
    BY <1>3
  <2> QED
    BY <1>4, <2>1, LeastIs
<1>6. First(q) \in Run(q) /\ \A y \in Run(q) : First(q) <= y
  <2>1. Min(Run(q)) \in Run(q) /\ \A y \in Run(q) : Min(Run(q)) <= y
    BY <1>4, MinIsLeast
  <2> QED
    BY <2>1 DEF MM!Min, Min
<1>7. CASE Byte(q) = "\\"
  <2>1. ASSUME NEW r \in Run(q) PROVE r \in Run(q + 1)
    BY <1>3, <1>7
  <2>2. ASSUME NEW r \in Run(q + 1) PROVE First(q) <= r
    <3>1. CASE r = q + 1
      BY <1>3, <1>6, <3>1
    <3>2. CASE r # q + 1
      <4>1. r \in Run(q)
        BY <1>3, <3>2
      <4> QED
        BY <1>6, <4>1
    <3> QED
      BY <3>1, <3>2
  <2>3. First(q + 1) = First(q)
    BY <1>4, <1>6, <2>1, <2>2, LeastIs
  <2>4. First(q) \in Nat /\ First(q) <= q
    BY <1>3, <1>6
  <2>5. ((q + 1) - First(q)) % 2 = 1 <=> ~ ((q - First(q)) % 2 = 1)
    BY <2>4
  <2>6. MM!Escaped(q + 1, body) <=> ~ MM!Escaped(q, body)
    <3> HIDE DEF First
    <3>1. MM!Escaped(q + 1, body) <=> ((q + 1) - First(q + 1)) % 2 = 1
      BY <1>1
    <3>2. MM!Escaped(q, body) <=> (q - First(q)) % 2 = 1
      BY <1>1
    <3> QED
      BY <2>3, <2>5, <3>1, <3>2
  <2> QED
    BY <1>1, <1>5, <1>7, <2>6
<1>8. CASE Byte(q) # "\\"
  <2>1. ASSUME NEW r \in Run(q + 1) PROVE q + 1 <= r
    <3>1. r \in Nat /\ r <= q + 1 /\ (r <= q => q \in r .. (q + 1) - 1)
      BY <1>3
    <3> QED
      BY <1>3, <1>8, <3>1
  <2>2. First(q + 1) = q + 1
    BY <1>4, <2>1, LeastIs
  <2> QED
    BY <1>1, <1>5, <1>8, <2>2
<1> QED
  BY <1>7, <1>8

-----------------------------------------------------------------------------
(* Literals. *)

\* Prefix and where the text of a literal begins, for the literal at p.
PrefixAt(p) ==
  IF Byte(p) \notin {"u", "U", "L"} THEN 0 ELSE IF Byte(p) = "u" /\ Byte(p + 1) = "8" THEN 2 ELSE 1

Body(p) == (p + PrefixAt(p)) + 1

LEMMA PrefixIs ==
  ASSUME pos \in Nat
  PROVE  Prefix = PrefixAt(pos)
<1>1. Ahead(2) = <<"u", "8">> <=> Byte(pos) = "u" /\ Byte(pos + 1) = "8"
  <2>1. Ahead(2) = <<Byte(pos), Byte(pos + 1)>>
    BY DEF Ahead
  <2> QED
    BY <2>1
<1> QED
  BY <1>1 DEF Prefix, PrefixAt

LEMMA BodyType ==
  ASSUME NEW p \in Nat
  PROVE  PrefixAt(p) \in 0 .. 2 /\ Body(p) \in Nat /\ Body(p) \in p + 1 .. p + 3
BY DEF PrefixAt, Body

\* Where a literal ends whose text begins at body.
Closing(quote, body) ==
  {Size} \cup {q \in body .. Size - 1 : Byte(q) \in {quote, "LF"} /\ ~ MM!Escaped(q, body)}
EndsAt(quote, body) ==
  LET end == MM!Min(Closing(quote, body)) IN IF Byte(end) = quote THEN end + 1 ELSE end

LEMMA LiteralWith ==
  ASSUME NEW quote, NEW p, NEW to
  PROVE  MM!Literal(quote, p, to) <=>
           \E prefix \in {<<>>, <<"u">>, <<"u", "8">>, <<"U">>, <<"L">>} :
             /\ MM!Bytes(p, p + Len(prefix) + 1) = Append(prefix, quote)
             /\ to = EndsAt(quote, p + Len(prefix) + 1)
BY SameFile, ZenonT(40) DEF MM!Literal, EndsAt, Closing

LEMMA AppendTo ==
  ASSUME NEW a, NEW b, NEW c
  PROVE  Append(<<a>>, c) = <<a, c>> /\ Append(<<a, b>>, c) = <<a, b, c>>
<1> DEFINE S == {a, b, c}
<1>1. c \in S
  OBVIOUS
<1>2. Append(<<a>>, c) = <<a, c>>
  <2>1. <<a>> \in Seq(S) /\ Len(<<a>>) = 1 /\ <<a>>[1] = a
    OBVIOUS
  <2>2. <<a, c>> \in Seq(S) /\ Len(<<a, c>>) = 2 /\ <<a, c>>[1] = a /\ <<a, c>>[2] = c
    OBVIOUS
  <2> HIDE DEF S
  <2>3. /\ Append(<<a>>, c) \in Seq(S) /\ Len(Append(<<a>>, c)) = 2
        /\ Append(<<a>>, c)[1] = a /\ Append(<<a>>, c)[2] = c
    BY <1>1, <2>1, AppendProperties
  <2>4. Len(Append(<<a>>, c)) = Len(<<a, c>>) /\ \A i \in 1 .. Len(Append(<<a>>, c)) : Append(<<a>>, c)[i] = <<a, c>>[i]
    <3>1. \A i \in 1 .. 2 : i = 1 \/ i = 2
      OBVIOUS
    <3> QED
      BY <2>2, <2>3, <3>1
  <2> QED
    BY <2>2, <2>3, <2>4, SeqEqual
<1>3. Append(<<a, b>>, c) = <<a, b, c>>
  <2>1. <<a, b>> \in Seq(S) /\ Len(<<a, b>>) = 2 /\ <<a, b>>[1] = a /\ <<a, b>>[2] = b
    OBVIOUS
  <2>2. /\ <<a, b, c>> \in Seq(S) /\ Len(<<a, b, c>>) = 3
        /\ <<a, b, c>>[1] = a /\ <<a, b, c>>[2] = b /\ <<a, b, c>>[3] = c
    OBVIOUS
  <2> HIDE DEF S
  <2>3. /\ Append(<<a, b>>, c) \in Seq(S) /\ Len(Append(<<a, b>>, c)) = 3
        /\ Append(<<a, b>>, c)[1] = a /\ Append(<<a, b>>, c)[2] = b /\ Append(<<a, b>>, c)[3] = c
    BY <1>1, <2>1, AppendProperties
  <2>4. Len(Append(<<a, b>>, c)) = Len(<<a, b, c>>) /\ \A i \in 1 .. Len(Append(<<a, b>>, c)) : Append(<<a, b>>, c)[i] = <<a, b, c>>[i]
    <3>1. \A i \in 1 .. 3 : i = 1 \/ i = 2 \/ i = 3
      OBVIOUS
    <3> QED
      BY <2>2, <2>3, <3>1
  <2> QED
    BY <2>2, <2>3, <2>4, SeqEqual
<1> QED
  BY <1>2, <1>3

LEMMA LiteralIs ==
  ASSUME NEW quote \in Quotes, NEW p \in Nat, NEW to
  PROVE  MM!Literal(quote, p, to) <=> Byte(p + PrefixAt(p)) = quote /\ to = EndsAt(quote, Body(p))
<1> DEFINE With(prefix) ==
             /\ MM!Bytes(p, p + Len(prefix) + 1) = Append(prefix, quote)
             /\ to = EndsAt(quote, p + Len(prefix) + 1)
<1>1. MM!Literal(quote, p, to) <=>
        With(<<>>) \/ With(<<"u">>) \/ With(<<"u", "8">>) \/ With(<<"U">>) \/ With(<<"L">>)
  BY LiteralWith
<1>2. With(<<>>) <=> Byte(p) = quote /\ to = EndsAt(quote, p + 1)
  <2>1. p + Len(<<>>) + 1 = p + 1 /\ Append(<<>>, quote) = <<quote>>
    OBVIOUS
  <2>2. <<Byte(p)>> = <<quote>> <=> Byte(p) = quote
    OBVIOUS
  <2> QED
    BY <2>1, <2>2, FewBytes
<1>3. ASSUME NEW b PROVE With(<<b>>) <=> Byte(p) = b /\ Byte(p + 1) = quote /\ to = EndsAt(quote, p + 2)
  <2>1. p + Len(<<b>>) + 1 = p + 2 /\ Append(<<b>>, quote) = <<b, quote>>
    <3>1. Len(<<b>>) = 1 /\ p + 1 + 1 = p + 2
      OBVIOUS
    <3>2. Append(<<b>>, quote) = <<b, quote>>
      BY AppendTo
    <3> QED
      BY <3>1, <3>2
  <2>2. <<Byte(p), Byte(p + 1)>> = <<b, quote>> <=> Byte(p) = b /\ Byte(p + 1) = quote
    OBVIOUS
  <2> QED
    BY <2>1, <2>2, FewBytes
<1>4. With(<<"u", "8">>) <=>
        Byte(p) = "u" /\ Byte(p + 1) = "8" /\ Byte(p + 2) = quote /\ to = EndsAt(quote, p + 3)
  <2>1. p + Len(<<"u", "8">>) + 1 = p + 3 /\ Append(<<"u", "8">>, quote) = <<"u", "8", quote>>
    <3>1. Len(<<"u", "8">>) = 2 /\ p + 2 + 1 = p + 3
      OBVIOUS
    <3>2. Append(<<"u", "8">>, quote) = <<"u", "8", quote>>
      BY AppendTo
    <3> QED
      BY <3>1, <3>2
  <2>2. <<Byte(p), Byte(p + 1), Byte(p + 2)>> = <<"u", "8", quote>> <=>
          Byte(p) = "u" /\ Byte(p + 1) = "8" /\ Byte(p + 2) = quote
    OBVIOUS
  <2> QED
    BY <2>1, <2>2, FewBytes
<1> HIDE DEF With
<1>5. CASE PrefixAt(p) = 0
  <2>1. Byte(p) \notin {"u", "U", "L"} /\ p + PrefixAt(p) = p /\ Body(p) = p + 1
    BY <1>5 DEF PrefixAt, Body
  <2> QED
    BY <1>1, <1>2, <1>3, <1>4, <2>1
<1>6. CASE PrefixAt(p) = 1
  <2>1. Byte(p) \in {"u", "U", "L"} /\ ~ (Byte(p) = "u" /\ Byte(p + 1) = "8")
    BY <1>6 DEF PrefixAt
  <2>2. p + PrefixAt(p) = p + 1 /\ Body(p) = p + 2
    BY <1>6 DEF Body
  <2>3. Byte(p) # quote
    BY <2>1 DEF Quotes
  <2> QED
    BY <1>1, <1>2, <1>3, <1>4, <2>1, <2>2, <2>3
<1>7. CASE PrefixAt(p) = 2
  <2>1. Byte(p) = "u" /\ Byte(p + 1) = "8"
    BY <1>7 DEF PrefixAt
  <2>2. p + PrefixAt(p) = p + 2 /\ Body(p) = p + 3
    BY <1>7 DEF Body
  <2>3. Byte(p) # quote /\ Byte(p + 1) # quote
    BY <2>1 DEF Quotes
  <2> QED
    BY <1>1, <1>2, <1>3, <1>4, <2>1, <2>2, <2>3
<1> QED
  BY <1>5, <1>6, <1>7, BodyType

-----------------------------------------------------------------------------
(* What a lexeme begins with. *)

OpensNumber(p) == Byte(p) \in Digits \/ (Byte(p) = "." /\ Byte(p + 1) \in Digits)

Opens(kind, p) ==
  \/ kind = "newline" /\ Byte(p) \in {"LF", "CR"}
  \/ kind = "whitespace" /\ Byte(p) \in Blanks
  \/ kind = "line_comment" /\ Byte(p) = "/" /\ Byte(p + 1) = "/"
  \/ kind = "block_comment" /\ Byte(p) = "/" /\ Byte(p + 1) = "*"
  \/ kind = "string_literal" /\ Byte(p + PrefixAt(p)) = "\""
  \/ kind = "char_literal" /\ Byte(p + PrefixAt(p)) = "'"
  \/ kind \in MM!WordKinds /\ Byte(p) \in IdentStart
  \/ kind \in MM!NumeralKinds /\ OpensNumber(p)
  \/ kind = "punctuator" /\ Byte(p) \in Punctuators1

\* The bytes of a newline and of a punctuator.
LEMMA NewlineIs ==
  ASSUME NEW p \in Nat, NEW to \in Nat, p < to
  PROVE  MM!Newline(p, to) <=> \/ to = p + 1 /\ Byte(p) \in {"LF", "CR"}
                               \/ to = p + 2 /\ Byte(p) = "CR" /\ Byte(p + 1) = "LF"
<1> DEFINE B == MM!Bytes(p, to)
<1>1. B = [i \in 1 .. to - p |-> Byte(p + i - 1)]
  BY BytesAre
<1>2. CASE to = p + 1
  <2>1. B = <<Byte(p)>>
    BY <1>2, FewBytes
  <2>2. B \in {<<"LF">>, <<"CR">>, <<"CR", "LF">>} <=> Byte(p) \in {"LF", "CR"}
    <3> HIDE DEF B
    <3>1. \A a, b : <<a>> = <<b>> <=> a = b
      OBVIOUS
    <3>2. \A a, b, c : <<a>> # <<b, c>>
      OBVIOUS
    <3> QED
      BY <2>1, <3>1, <3>2
  <2> QED
    BY <1>2, <2>2 DEF MM!Newline
<1>3. CASE to = p + 2
  <2>1. B = <<Byte(p), Byte(p + 1)>>
    BY <1>3, FewBytes
  <2>2. B \in {<<"LF">>, <<"CR">>, <<"CR", "LF">>} <=> Byte(p) = "CR" /\ Byte(p + 1) = "LF"
    <3> HIDE DEF B
    <3>1. \A a, b, c, d : <<a, b>> = <<c, d>> <=> a = c /\ b = d
      OBVIOUS
    <3>2. \A a, b, c : <<b, c>> # <<a>>
      OBVIOUS
    <3> QED
      BY <2>1, <3>1, <3>2
  <2> QED
    BY <1>3, <2>2 DEF MM!Newline
<1>4. CASE to \notin {p + 1, p + 2}
  <2>1. 3 \in DOMAIN B
    BY <1>1, <1>4
  <2>2. B \notin {<<"LF">>, <<"CR">>, <<"CR", "LF">>}
    <3> HIDE DEF B
    <3> QED
      BY <2>1
  <2> QED
    BY <1>4, <2>2 DEF MM!Newline
<1> QED
  BY <1>2, <1>3, <1>4

LEMMA SameRange ==
  ASSUME NEW n \in Nat \ {0}, NEW m \in Nat \ {0}, 1 .. n = 1 .. m
  PROVE  n = m
<1>1. n \in 1 .. m /\ m \in 1 .. n
  <2>1. n \in 1 .. n /\ m \in 1 .. m
    OBVIOUS
  <2> QED
    BY <2>1
<1> QED
  BY <1>1

LEMMA PunctuatorIs ==
  ASSUME NEW p \in Nat, NEW to \in Nat, p < to, MM!Bytes(p, to) \in Punctuators
  PROVE  \/ to = p + 1 /\ Byte(p) \in Punctuators1
         \/ to = p + 2 /\ <<Byte(p), Byte(p + 1)>> \in Punctuators2
         \/ to = p + 3 /\ <<Byte(p), Byte(p + 1), Byte(p + 2)>> \in Punctuators3
<1> DEFINE B == MM!Bytes(p, to)
<1>1. DOMAIN B = 1 .. to - p
  BY BytesAre
<1>2. CASE B \in Punctuators3
  <2>1. DOMAIN B = 1 .. 3
    <3> HIDE DEF B
    <3> QED
      BY <1>2 DEF Punctuators3
  <2>2. to = p + 3
    <3>1. to - p \in Nat \ {0}
      OBVIOUS
    <3>2. 1 .. to - p = 1 .. 3
      BY <1>1, <2>1
    <3>3. to - p = 3
      BY <3>1, <3>2, SameRange
    <3> QED
      BY <3>3
  <2> QED
    BY <1>2, <2>2, FewBytes
<1>3. CASE B \in Punctuators2
  <2>1. DOMAIN B = 1 .. 2
    <3> HIDE DEF B
    <3> QED
      BY <1>3 DEF Punctuators2
  <2>2. to = p + 2
    <3>1. to - p \in Nat \ {0}
      OBVIOUS
    <3>2. 1 .. to - p = 1 .. 2
      BY <1>1, <2>1
    <3>3. to - p = 2
      BY <3>1, <3>2, SameRange
    <3> QED
      BY <3>3
  <2> QED
    BY <1>3, <2>2, FewBytes
<1>4. CASE B \in {<<b>> : b \in Punctuators1}
  <2>1. PICK b \in Punctuators1 : B = <<b>>
    BY <1>4
  <2>2. DOMAIN B = 1 .. 1 /\ B[1] = b
    <3> HIDE DEF B
    <3> QED
      BY <2>1
  <2>3. to = p + 1
    <3>1. to - p \in Nat \ {0}
      OBVIOUS
    <3>2. 1 .. to - p = 1 .. 1
      BY <1>1, <2>2
    <3>3. to - p = 1
      BY <3>1, <3>2, SameRange
    <3> QED
      BY <3>3
  <2>4. B = <<Byte(p)>>
    BY <2>3, FewBytes
  <2>5. B[1] = Byte(p)
    BY <2>4
  <2> QED
    BY <2>2, <2>3, <2>5
<1> QED
  BY <1>2, <1>3, <1>4 DEF Punctuators

LEMMA LexemeOf ==
  ASSUME NEW from, NEW to
  PROVE  /\ MM!Lexeme("newline", from, to) <=> MM!Newline(from, to)
         /\ MM!Lexeme("whitespace", from, to) <=> MM!Every(from, to, Blanks)
         /\ MM!Lexeme("line_comment", from, to) <=> MM!LineComment(from, to)
         /\ MM!Lexeme("block_comment", from, to) <=> MM!BlockComment(from, to)
         /\ MM!Lexeme("string_literal", from, to) <=> MM!Literal("\"", from, to)
         /\ MM!Lexeme("char_literal", from, to) <=> MM!Literal("'", from, to)
         /\ MM!Lexeme("punctuator", from, to) <=> MM!Bytes(from, to) \in Punctuators
         /\ \A kind \in MM!WordKinds :
              MM!Lexeme(kind, from, to) <=> MM!Word(from, to) /\ kind = MM!WordKind(from, to)
         /\ \A kind \in MM!NumeralKinds :
              MM!Lexeme(kind, from, to) <=> MM!Numeral(from, to) /\ kind = MM!NumeralKind(from, to)
BY DEF MM!Lexeme, MM!WordKinds, MM!NumeralKinds

\* A lexeme begins as its kind does.
LEMMA KindOpens ==
  ASSUME NEW p \in Nat, NEW to \in Nat, p < to, NEW kind \in MM!Kinds, MM!Lexeme(kind, p, to)
  PROVE  Opens(kind, p)
<1>3. CASE kind = "newline"
  BY <1>3, LexemeOf, NewlineIs DEF Opens
<1>4. CASE kind = "whitespace"
  <2>1. p \in p .. to - 1
    OBVIOUS
  <2>2. Byte(p) \in Blanks
    BY <1>4, <2>1, LexemeOf, BytesAre
  <2> QED
    BY <1>4, <2>2 DEF Opens
<1>5. CASE kind = "line_comment"
  <2>1. <<Byte(p), Byte(p + 1)>> = <<"/", "/">>
    BY <1>5, LexemeOf, FewBytes DEF MM!LineComment
  <2> QED
    BY <1>5, <2>1 DEF Opens
<1>6. CASE kind = "block_comment"
  <2>1. <<Byte(p), Byte(p + 1)>> = <<"/", "*">>
    BY <1>6, LexemeOf, FewBytes DEF MM!BlockComment
  <2> QED
    BY <1>6, <2>1 DEF Opens
<1>7. CASE kind \in {"string_literal", "char_literal"}
  <2>1. "\"" \in Quotes /\ "'" \in Quotes
    BY DEF Quotes
  <2>2. CASE kind = "string_literal"
    <3>1. MM!Literal("\"", p, to)
      BY <2>2, LexemeOf
    <3> QED
      BY <2>1, <2>2, <3>1, LiteralIs DEF Opens
  <2>3. CASE kind = "char_literal"
    <3>1. MM!Literal("'", p, to)
      BY <2>3, LexemeOf
    <3> QED
      BY <2>1, <2>3, <3>1, LiteralIs DEF Opens
  <2> QED
    BY <1>7, <2>2, <2>3
<1>8. CASE kind \in MM!WordKinds
  BY <1>8, LexemeOf, SameFile DEF Opens, MM!Word
<1>9. CASE kind \in MM!NumeralKinds
  BY <1>9, LexemeOf, SameFile DEF Opens, MM!Numeral, OpensNumber
<1>10. CASE kind = "punctuator"
  <2>1. MM!Bytes(p, to) \in Punctuators
    BY <1>10, LexemeOf
  <2>2. \/ Byte(p) \in Punctuators1
        \/ <<Byte(p), Byte(p + 1)>> \in Punctuators2
        \/ <<Byte(p), Byte(p + 1), Byte(p + 2)>> \in Punctuators3
    BY <2>1, PunctuatorIs
  <2>3. \A a, b : <<a, b>> \in Punctuators2 => a \in Punctuators1
    BY DEF Punctuators2, Punctuators1
  <2>4. \A a, b, c : <<a, b, c>> \in Punctuators3 => a \in Punctuators1
    BY DEF Punctuators3, Punctuators1
  <2>5. Byte(p) \in Punctuators1
    BY <2>2, <2>3, <2>4
  <2> QED
    BY <1>10, <2>5 DEF Opens
<1>11. \/ kind \in {"newline", "whitespace", "line_comment", "block_comment", "punctuator"}
       \/ kind \in {"string_literal", "char_literal"}
       \/ kind \in MM!WordKinds \/ kind \in MM!NumeralKinds
  BY DEF MM!Kinds
<1> QED
  BY <1>3, <1>4, <1>5, <1>6, <1>7, <1>8, <1>9, <1>10, <1>11

LEMMA LexemeOpens ==
  ASSUME NEW p \in Nat, NEW l \in MM!LexemesAt(p)
  PROVE  /\ l.kind \in MM!Kinds /\ l.lo = p /\ l.hi \in Nat /\ p < l.hi /\ l.hi <= Size
         /\ MM!Lexeme(l.kind, p, l.hi)
         /\ Opens(l.kind, p)
<1>1. /\ l \in [kind : MM!Kinds, lo : {p}, hi : p + 1 .. Size]
      /\ MM!Lexeme(l.kind, p, l.hi)
  BY SameFile DEF MM!LexemesAt
<1>2. l.kind \in MM!Kinds /\ l.lo = p /\ l.hi \in Nat /\ p < l.hi /\ l.hi <= Size
  <2>1. l.kind \in MM!Kinds /\ l.lo = p /\ l.hi \in p + 1 .. Size
    BY <1>1
  <2> QED
    BY <2>1
<1> QED
  BY <1>1, <1>2, KindOpens

-----------------------------------------------------------------------------
(* Steps of MaximalMunch. *)

LEMMA StartIs ==
  ASSUME TilingInv
  PROVE  MM!Start = lo
<1>1. tokens \in Seq([kind : TokenKinds, lo : Nat, hi : Nat]) /\ lo = End(Len(tokens))
  BY DEF TilingInv, TypeInv, TokensTile
<1>2. CASE tokens = <<>>
  BY <1>1, <1>2 DEF MM!Start, End
<1>3. CASE tokens # <<>>
  <2>1. Len(tokens) # 0
    BY <1>1, <1>3
  <2> QED
    BY <1>1, <1>3, <2>1 DEF MM!Start, MM!Last, End
<1> QED
  BY <1>2, <1>3

LEMMA MunchStep ==
  ASSUME TilingInv, NEW kind \in MM!Kinds, NEW q \in Nat, lo < q, q <= Size, MM!Lexeme(kind, lo, q),
         \A other \in MM!LexemesAt(lo) : other.hi <= q,
         NEW errors, Emit(kind, q, errors)
  PROVE  MM!Next
<1> DEFINE l == [kind |-> kind, lo |-> lo, hi |-> q]
<1>1. lo \in Nat /\ Size \in Nat /\ MM!Size = Size /\ MM!Start = lo
  BY Here, StartIs, SameFile
<1>2. l \in MM!LexemesAt(lo)
  <2>1. q \in lo + 1 .. MM!Size
    BY <1>1
  <2>2. l \in [kind : MM!Kinds, lo : {lo}, hi : lo + 1 .. MM!Size] /\ l.kind = kind /\ l.hi = q
    BY <2>1
  <2> HIDE DEF l
  <2> QED
    BY <2>2 DEF MM!LexemesAt
<1>3. tokens' = Append(tokens, l) /\ UNCHANGED text
  BY DEF Emit
<1>4. \A other \in MM!LexemesAt(lo) : other.hi <= l.hi
  OBVIOUS
<1>5. lo < MM!Size
  BY <1>1
<1> HIDE DEF l
<1>6. MM!Munch(MM!LexemesAt(MM!Start))
  BY <1>1, <1>2, <1>3, <1>4, <1>5 DEF MM!Munch
<1> QED
  BY <1>3, <1>6 DEF MM!Next

\* Where no lexeme begins, the character is an unknown one.
LEMMA UnknownStep ==
  ASSUME TilingInv, lo < Size, MM!LexemesAt(lo) = {}, NEW errors, Emit("unknown", NextChar(lo), errors)
  PROVE  MM!Next
<1>1. MM!Size = Size /\ MM!Start = lo /\ MM!NextChar(lo) = NextChar(lo)
  BY StartIs, SameFile
<1>2. tokens' = Append(tokens, [kind |-> "unknown", lo |-> lo, hi |-> NextChar(lo)]) /\ UNCHANGED text
  BY DEF Emit
<1>3. MM!Munch(MM!LexemesAt(MM!Start))
  BY <1>1, <1>2 DEF MM!Munch
<1> QED
  BY <1>2, <1>3 DEF MM!Next

LEMMA EofStep ==
  ASSUME TilingInv, LexEof
  PROVE  MM!Next
<1>1. /\ tokens \in Seq([kind : TokenKinds, lo : Nat, hi : Nat])
      /\ \A i \in DOMAIN tokens : tokens[i].kind = "eof" => doing = "done"
      /\ doing = "next_token"
  BY DEF TilingInv, TypeInv, TokensTile, LexEof, At
<1>2. pos = lo /\ lo = Size
  BY Here, TextType DEF LexEof, At
<1>3. ~ MM!AtEnd
  <2>1. CASE tokens # <<>>
    <3>1. Len(tokens) \in DOMAIN tokens
      BY <1>1, <2>1
    <3>2. tokens[Len(tokens)].kind # "eof"
      BY <1>1, <3>1
    <3> QED
      BY <3>2 DEF MM!AtEnd, MM!Last
  <2> QED
    BY <2>1 DEF MM!AtEnd
<1>4. MM!End
  BY <1>2, <1>3, StartIs, SameFile DEF MM!End, LexEof
<1> QED
  BY <1>4 DEF MM!Next, LexEof

-----------------------------------------------------------------------------
(* The inductive invariant: what a loop has read is a beginning of the lexeme *)
(* it looks for, and what it has passed over did not end it.                  *)

All(from, to, set) == \A q \in from .. to - 1 : Byte(q) \in set
Pair(p, a, b) == Byte(p) = a /\ Byte(p + 1) = b

QuoteOf(loop) == IF loop = "char_literal" THEN "'" ELSE "\""

\* The byte at p is not escaped, and a quote or a line end before it is.
InLiteral(quote, from, p) ==
  /\ Byte(from + PrefixAt(from)) = quote
  /\ Body(from) <= p
  /\ p < Size => ~ MM!Escaped(p, Body(from))
  /\ \A q \in Body(from) .. p - 1 : Byte(q) \in {quote, "LF"} => MM!Escaped(q, Body(from))

InIdent(from, p) ==
  /\ Byte(from) \in IdentStart /\ Byte(from + PrefixAt(from)) \notin Quotes
  /\ All(from, p, IdentContinue)

Reading(loop, from, p) ==
  \/ loop = "whitespace" /\ All(from, p, Blanks)
  \/ loop = "line_comment" /\ Pair(from, "/", "/") /\ from + 2 <= p
       /\ \A q \in from .. p - 1 : Byte(q) \notin {"LF", "CR"}
  \/ loop = "block_comment" /\ Pair(from, "/", "*") /\ from + 2 <= p
       /\ \A q \in from + 2 .. p - 1 : ~ Pair(q, "*", "/")
  \/ loop \in {"string_literal", "char_literal"} /\ InLiteral(QuoteOf(loop), from, p)
  \/ loop = "ident" /\ InIdent(from, p)

ExponentsOf(b) == IF b = "hex" THEN {"p", "P"} ELSE {"e", "E"}
NumberBytes == IdentContinue \cup {".", "'"}
Signed(p, b) == Byte(p) \in {"+", "-"} /\ Byte(p - 1) \in ExponentsOf(b)

\* A sign is read with the exponent letter before it.
InNumber(from, p, b, float) ==
  /\ OpensNumber(from) /\ b = MM!Base(from)
  /\ \A q \in from .. p - 1 : Byte(q) \in NumberBytes \/ Signed(q, b)
  /\ float <=> \E q \in from .. p - 1 : Byte(q) \in {"."} \cup ExponentsOf(b)
  /\ from < p => ~ Signed(p, b)

MunchInv ==
  /\ doing \in LoopNames \ {"number"} => Reading(doing, lo, pos)
  /\ doing = "number" => InNumber(lo, pos, base, isFloat)

LEMMA SameEscapes ==
  ASSUME UNCHANGED text
  PROVE  \A q, body : MM!Escaped(q, body)' <=> MM!Escaped(q, body)
<1>1. \A p : MM!Byte(p)' = MM!Byte(p)
  BY DEF MM!Byte, MM!Size
<1>2. \A r, q : MM!Every(r, q, {"\\"})' <=> MM!Every(r, q, {"\\"})
  BY <1>1 DEF MM!Every
<1>3. ASSUME NEW q, NEW body
      PROVE  {r \in body .. q : MM!Every(r, q, {"\\"})}' = {r \in body .. q : MM!Every(r, q, {"\\"})}
  BY <1>2
<1> QED
  BY <1>3 DEF MM!Escaped

LEMMA SameReading ==
  ASSUME UNCHANGED text, NEW loop, NEW from, NEW p, Reading(loop, from, p)
  PROVE  Reading(loop, from, p)'
<1>1. Size' = Size /\ \A q : Byte(q)' = Byte(q)
  BY DEF Size, Byte
<1>2. /\ PrefixAt(from)' = PrefixAt(from) /\ Body(from)' = Body(from)
      /\ \A q, a, b : Pair(q, a, b)' <=> Pair(q, a, b)
  BY <1>1 DEF PrefixAt, Body, Pair
<1>3. InLiteral(QuoteOf(loop), from, p)' <=> InLiteral(QuoteOf(loop), from, p)
  BY <1>1, <1>2, SameEscapes DEF InLiteral
<1>4. \A set : All(from, p, set)' <=> All(from, p, set)
  BY <1>1 DEF All
<1>5. InIdent(from, p)' <=> InIdent(from, p)
  BY <1>1, <1>2, <1>4 DEF InIdent
<1> QED
  BY <1>1, <1>2, <1>3, <1>4, <1>5 DEF Reading

LEMMA EmitKeeps ==
  ASSUME NEW kind, NEW q, NEW errors, Emit(kind, q, errors)
  PROVE  MunchInv'
BY DEF Emit, MunchInv, LoopNames

LEMMA ReadKeeps ==
  ASSUME NEW loop \in LoopNames \ {"number"}, NEW q, Read(loop, q), Reading(loop, lo, q)
  PROVE  MunchInv' /\ UNCHANGED <<text, tokens>>
<1>1. doing' = loop /\ pos' = q /\ lo' = lo /\ text' = text /\ tokens' = tokens
  BY DEF Read
<1>2. Reading(loop, lo, q)'
  BY <1>1, SameReading
<1>3. Reading(doing, lo, pos)'
  BY <1>1, <1>2 DEF Reading
<1> QED
  BY <1>1, <1>3 DEF MunchInv

-----------------------------------------------------------------------------
(* Which kinds of lexemes a first byte leaves. *)

LiteralKinds == {"string_literal", "char_literal"}
CommentKinds == {"line_comment", "block_comment"}

LEMMA FirstBytes ==
  ASSUME NEW p \in Nat, NEW kind \in MM!Kinds, Opens(kind, p)
  PROVE  /\ Byte(p) \in {"LF", "CR"} => kind = "newline"
         /\ Byte(p) \in Blanks => kind = "whitespace"
         /\ Byte(p) \in Quotes => kind \in LiteralKinds
         /\ Byte(p) \in IdentStart => kind \in MM!WordKinds \cup LiteralKinds
         /\ Byte(p) \in Digits => kind \in MM!NumeralKinds
         /\ Byte(p) \in Punctuators1 => kind \in {"punctuator"} \cup CommentKinds \cup MM!NumeralKinds
         /\ Byte(p) \in {"LF", "CR"} \cup Blanks \cup Quotes \cup IdentStart \cup Digits \cup Punctuators1
<1>1. /\ \A b \in {"LF", "CR"} : b \notin Blanks \cup Quotes \cup IdentStart \cup Digits \cup Punctuators1
      /\ \A b \in Blanks : b \notin Quotes \cup IdentStart \cup Digits \cup Punctuators1
      /\ \A b \in Quotes : b \notin IdentStart \cup Digits \cup Punctuators1
      /\ \A b \in IdentStart : b \notin Digits \cup Punctuators1
      /\ \A b \in Digits : b \notin Punctuators1
  BY DEF Blanks, Quotes, IdentStart, Letters, HexLetters, Digits, Punctuators1
<1>2. {"/", "."} \subseteq Punctuators1 /\ {"u", "U", "L"} \subseteq IdentStart
  BY DEF Punctuators1, IdentStart, Letters
<1>3. Byte(p + PrefixAt(p)) \in Quotes => Byte(p) \in Quotes \cup {"u", "U", "L"}
  BY DEF PrefixAt
<1>4. {"\"", "'"} = Quotes
  BY DEF Quotes
<1>5. Opens(kind, p) =>
        \/ kind = "newline" /\ Byte(p) \in {"LF", "CR"}
        \/ kind = "whitespace" /\ Byte(p) \in Blanks
        \/ kind \in CommentKinds /\ Byte(p) \in Punctuators1
        \/ kind \in LiteralKinds /\ Byte(p) \in Quotes \cup IdentStart
        \/ kind \in MM!WordKinds /\ Byte(p) \in IdentStart
        \/ kind \in MM!NumeralKinds /\ Byte(p) \in Digits \cup Punctuators1
        \/ kind = "punctuator" /\ Byte(p) \in Punctuators1
  BY <1>2, <1>3, <1>4 DEF Opens, OpensNumber, CommentKinds, LiteralKinds
<1> QED
  BY <1>1, <1>5

-----------------------------------------------------------------------------
(* The actions. *)

MunchStay == MunchInv' /\ [MM!Next]_<<text, tokens>>

LEMMA NewlineMunches ==
  ASSUME TilingInv, LexNewline \/ LexReturn
  PROVE  MunchStay
<1> USE Here
<1>1. lo = pos /\ lo \in Nat /\ Byte(lo) \in {"LF", "CR"}
  BY DEF LexNewline, LexReturn, At
<1>2. PICK q \in Nat : /\ Emit("newline", q, <<>>)
                       /\ \/ q = lo + 1 /\ ~ (Byte(lo) = "CR" /\ Byte(lo + 1) = "LF")
                          \/ q = lo + 2 /\ Byte(lo) = "CR" /\ Byte(lo + 1) = "LF"
  BY <1>1 DEF LexNewline, LexReturn
<1>3. q <= Size /\ lo < q
  <2>1. lo < Size /\ (Byte(lo + 1) = "LF" => lo + 1 < Size)
    BY <1>1, TextType
  <2> QED
    BY <1>1, <1>2, <2>1
<1>4. MM!Lexeme("newline", lo, q)
  <2>1. MM!Newline(lo, q)
    BY <1>1, <1>2, <1>3, NewlineIs
  <2> QED
    BY <2>1, LexemeOf
<1>5. ASSUME NEW other \in MM!LexemesAt(lo) PROVE other.hi <= q
  <2>1. /\ other.kind \in MM!Kinds /\ Opens(other.kind, lo)
        /\ MM!Lexeme(other.kind, lo, other.hi) /\ other.hi \in Nat /\ lo < other.hi
    BY <1>1, LexemeOpens
  <2>2. other.kind = "newline"
    BY <1>1, <2>1, FirstBytes
  <2>3. MM!Newline(lo, other.hi)
    BY <2>1, <2>2, LexemeOf
  <2>4. \/ other.hi = lo + 1
        \/ other.hi = lo + 2 /\ Byte(lo) = "CR" /\ Byte(lo + 1) = "LF"
    BY <1>1, <2>1, <2>3, NewlineIs
  <2> QED
    BY <1>1, <1>2, <2>4
<1>6. "newline" \in MM!Kinds
  BY DEF MM!Kinds
<1>7. MM!Next
  BY <1>2, <1>3, <1>4, <1>5, <1>6, MunchStep
<1> QED
  BY <1>2, <1>7, EmitKeeps DEF MunchStay

LEMMA WhitespaceMunches ==
  ASSUME TilingInv, MunchInv, LexWhitespace \/ Whitespace
  PROVE  MunchStay
<1> USE Here
<1>1. "whitespace" \in LoopNames \ {"number"} /\ "whitespace" \in MM!Kinds
  BY DEF LoopNames, MM!Kinds
<1>2. CASE LexWhitespace
  <2>1. lo = pos
    BY <1>2 DEF LexWhitespace, At
  <2>2. Reading("whitespace", lo, pos)
    BY <2>1 DEF Reading, All
  <2> QED
    BY <1>1, <1>2, <2>2, ReadKeeps DEF LexWhitespace, MunchStay
<1>3. ASSUME Whitespace PROVE doing = "whitespace" /\ All(lo, pos, Blanks)
  BY <1>1, <1>3 DEF Whitespace, At, MunchInv, Reading
<1>4. CASE Whitespace /\ Byte(pos) \in Blanks
  <2>1. NextChar(pos) = pos + 1
    BY <1>4, AsciiNext DEF Ascii
  <2>2. Reading("whitespace", lo, pos + 1)
    BY <1>3, <1>4 DEF Reading, All
  <2>3. Read("whitespace", pos + 1)
    BY <1>4, <2>1 DEF Whitespace
  <2> QED
    BY <1>1, <2>2, <2>3, ReadKeeps DEF MunchStay
<1>5. CASE Whitespace /\ Byte(pos) \notin Blanks
  <2>1. lo < pos /\ Emit("whitespace", pos, <<>>)
    BY <1>1, <1>5 DEF Whitespace, At, Begun, FirstByte
  <2>2. MM!Lexeme("whitespace", lo, pos)
    BY <1>3, <1>5, LexemeOf, BytesAre DEF All
  <2>3. ASSUME NEW other \in MM!LexemesAt(lo) PROVE other.hi <= pos
    <3>1. /\ other.kind \in MM!Kinds /\ Opens(other.kind, lo)
          /\ MM!Lexeme(other.kind, lo, other.hi) /\ other.hi \in Nat /\ lo < other.hi
      BY LexemeOpens
    <3>2. Byte(lo) \in Blanks
      <4>1. lo \in lo .. pos - 1
        BY <2>1
      <4> QED
        BY <1>3, <1>5, <4>1 DEF All
    <3>3. other.kind = "whitespace"
      BY <3>1, <3>2, FirstBytes
    <3>4. \A q \in lo .. other.hi - 1 : Byte(q) \in Blanks
      <4>1. MM!Every(lo, other.hi, Blanks)
        BY <3>1, <3>3, LexemeOf
      <4> QED
        BY <4>1, BytesAre
    <3>5. ~ (pos \in lo .. other.hi - 1)
      BY <1>5, <3>4
    <3> QED
      BY <2>1, <3>1, <3>5
  <2>4. MM!Next
    BY <1>1, <2>1, <2>2, <2>3, MunchStep
  <2> QED
    BY <2>1, <2>4, EmitKeeps DEF MunchStay
<1> QED
  BY <1>2, <1>4, <1>5

LEMMA LineCommentIs ==
  ASSUME NEW p \in Nat, NEW to \in Nat
  PROVE  MM!LineComment(p, to) <=>
           Pair(p, "/", "/") /\ p + 2 <= to /\ \A q \in p .. to - 1 : Byte(q) \notin {"LF", "CR"}
<1>1. MM!Bytes(p, p + 2) = <<"/", "/">> <=> Pair(p, "/", "/")
  BY FewBytes DEF Pair
<1> QED
  BY <1>1, BytesAre DEF MM!LineComment

\* Only a comment begins as comments do; the punctuators there are shorter.
LEMMA CommentAgainst ==
  ASSUME NEW p \in Nat, Byte(p) = "/", NEW l \in MM!LexemesAt(p)
  PROVE  \/ l.kind \in CommentKinds
         \/ l.hi <= p + 2
<1>1. l.kind \in MM!Kinds /\ Opens(l.kind, p) /\ MM!Lexeme(l.kind, p, l.hi) /\ l.hi \in Nat /\ p < l.hi
  BY LexemeOpens
<1>2. Byte(p) \in Punctuators1 /\ Byte(p) \notin Digits \cup {"."}
  BY DEF Punctuators1, Digits
<1>3. l.kind \in {"punctuator"} \cup CommentKinds \cup MM!NumeralKinds
  BY <1>1, <1>2, FirstBytes
<1>4. l.kind \notin MM!NumeralKinds
  <2>1. ASSUME NEW kind \in MM!NumeralKinds, Opens(kind, p) PROVE FALSE
    BY <1>2, <2>1 DEF Opens, OpensNumber, MM!NumeralKinds, MM!WordKinds
  <2> QED
    BY <1>1, <2>1
<1>5. CASE l.kind = "punctuator"
  <2>1. MM!Bytes(p, l.hi) \in Punctuators
    BY <1>1, <1>5, LexemeOf
  <2>2. \A b, c : <<"/", b, c>> \notin Punctuators3
    BY DEF Punctuators3
  <2>3. l.hi = p + 1 \/ l.hi = p + 2
    BY <1>1, <2>1, <2>2, PunctuatorIs
  <2> QED
    BY <2>3
<1> QED
  BY <1>3, <1>4, <1>5

LEMMA LineCommentMunches ==
  ASSUME TilingInv, MunchInv, LexLineComment \/ LineComment
  PROVE  MunchStay
<1> USE Here
<1>1. "line_comment" \in LoopNames \ {"number"} /\ "line_comment" \in MM!Kinds
  BY DEF LoopNames, MM!Kinds
<1>2. CASE LexLineComment
  <2>1. lo = pos /\ Pair(lo, "/", "/")
    BY <1>2, AheadBytes DEF LexLineComment, StartsLineComment, At, Pair
  <2>2. \A q \in lo .. (pos + 2) - 1 : q = lo \/ q = lo + 1
    BY <2>1
  <2>3. Reading("line_comment", lo, pos + 2)
    BY <2>1, <2>2 DEF Reading, Pair
  <2> QED
    BY <1>1, <1>2, <2>3, ReadKeeps DEF LexLineComment, MunchStay
<1>3. ASSUME LineComment
      PROVE  Pair(lo, "/", "/") /\ lo + 2 <= pos /\ \A q \in lo .. pos - 1 : Byte(q) \notin {"LF", "CR"}
  BY <1>1, <1>3 DEF LineComment, At, MunchInv, Reading
<1>4. CASE LineComment /\ Byte(pos) \notin {"LF", "CR", "none"}
  <2>1. /\ NextChar(pos) \in pos + 1 .. Size
        /\ \A r \in pos + 1 .. NextChar(pos) - 1 : Byte(r) \in Continuation
    BY <1>4, TextType, NextCharType, WithinChar
  <2>2. ASSUME NEW q \in lo .. NextChar(pos) - 1 PROVE Byte(q) \notin {"LF", "CR"}
    <3>1. q \in lo .. pos - 1 \/ q = pos \/ q \in pos + 1 .. NextChar(pos) - 1
      BY <2>1
    <3> QED
      BY <1>3, <1>4, <2>1, <3>1 DEF Continuation
  <2>3. lo + 2 <= NextChar(pos)
    BY <1>3, <1>4, <2>1
  <2>4. Reading("line_comment", lo, NextChar(pos))
    BY <1>3, <1>4, <2>2, <2>3 DEF Reading
  <2> QED
    BY <1>1, <1>4, <2>4, ReadKeeps DEF LineComment, MunchStay
<1>5. CASE LineComment /\ Byte(pos) \in {"LF", "CR", "none"}
  <2>1. lo < pos /\ Emit("line_comment", pos, <<>>)
    BY <1>3, <1>5 DEF LineComment
  <2>2. MM!Lexeme("line_comment", lo, pos)
    BY <1>3, <1>5, LexemeOf, LineCommentIs
  <2>3. ASSUME NEW other \in MM!LexemesAt(lo) PROVE other.hi <= pos
    <3>1. /\ other.kind \in MM!Kinds /\ Opens(other.kind, lo) /\ other.hi <= Size
          /\ MM!Lexeme(other.kind, lo, other.hi) /\ other.hi \in Nat /\ lo < other.hi
      BY LexemeOpens
    <3>2. Byte(lo) = "/" /\ Byte(lo + 1) = "/" /\ lo + 2 <= pos
      BY <1>3, <1>5 DEF Pair
    <3>3. other.hi <= lo + 2 \/ other.kind \in CommentKinds
      BY <3>2, CommentAgainst
    <3>4. other.kind # "block_comment"
      BY <3>1, <3>2 DEF Opens, MM!WordKinds, MM!NumeralKinds
    <3>5. CASE other.kind = "line_comment"
      <4>1. \A q \in lo .. other.hi - 1 : Byte(q) \notin {"LF", "CR"}
        BY <3>1, <3>5, LexemeOf, LineCommentIs
      <4>2. pos < other.hi => pos \in lo .. other.hi - 1 /\ pos < Size
        BY <2>1, <3>1
      <4>3. ~ (pos < other.hi)
        BY <1>5, <4>1, <4>2, TextType
      <4> QED
        BY <3>1, <4>3
    <3> QED
      BY <3>1, <3>2, <3>3, <3>4, <3>5 DEF CommentKinds
  <2>4. MM!Next
    BY <1>1, <2>1, <2>2, <2>3, MunchStep
  <2> QED
    BY <2>1, <2>4, EmitKeeps DEF MunchStay
<1> QED
  BY <1>2, <1>4, <1>5

\* Where a block comment may end: behind */, or with the file.
Closes(p) == {q \in p + 4 .. Size : Pair(q - 2, "*", "/")} \cup {Size}

LEMMA BlockCommentIs ==
  ASSUME text \in Texts, NEW p \in Nat, NEW to
  PROVE  MM!BlockComment(p, to) <=>
           Pair(p, "/", "*") /\ to \in Closes(p) /\ \A y \in Closes(p) : to <= y
<1>1. Size \in Nat
  BY TextType
<1>2. MM!Bytes(p, p + 2) = <<"/", "*">> <=> Pair(p, "/", "*")
  BY FewBytes DEF Pair
<1>3. ASSUME NEW q \in p + 4 .. Size
      PROVE  MM!Bytes(q - 2, q) = <<"*", "/">> <=> Pair(q - 2, "*", "/")
  <2>1. q - 2 \in Nat /\ (q - 2) + 2 = q
    OBVIOUS
  <2>2. MM!Bytes(q - 2, q) = <<Byte(q - 2), Byte((q - 2) + 1)>>
    BY <2>1, FewBytes
  <2> QED
    BY <2>2 DEF Pair
<1>4. {q \in p + 4 .. MM!Size : MM!Bytes(q - 2, q) = <<"*", "/">>} \cup {MM!Size} = Closes(p)
  BY <1>3, SameFile DEF Closes
<1>5. Closes(p) \in SUBSET Nat /\ Closes(p) # {}
  BY <1>1 DEF Closes
<1>6. Min(Closes(p)) \in Closes(p) /\ \A y \in Closes(p) : Min(Closes(p)) <= y
  BY <1>5, MinIsLeast
<1>7. MM!Min(Closes(p)) = Min(Closes(p))
  BY DEF MM!Min, Min
<1>8. to = MM!Min(Closes(p)) <=> to \in Closes(p) /\ \A y \in Closes(p) : to <= y
  <2>1. ASSUME to \in Closes(p), \A y \in Closes(p) : to <= y PROVE to = Min(Closes(p))
    BY <1>5, <1>6, <2>1, LeastIs, <1>7
  <2> QED
    BY <1>6, <1>7, <2>1
<1> QED
  BY <1>2, <1>4, <1>8 DEF MM!BlockComment

LEMMA BlockCommentMunches ==
  ASSUME TilingInv, MunchInv, LexBlockComment \/ BlockComment
  PROVE  MunchStay
<1> USE Here
<1>1. "block_comment" \in LoopNames \ {"number"} /\ "block_comment" \in MM!Kinds
  BY DEF LoopNames, MM!Kinds
<1>2. CASE LexBlockComment
  <2>1. lo = pos /\ Pair(lo, "/", "*")
    BY <1>2, AheadBytes DEF LexBlockComment, StartsBlockComment, At, Pair
  <2>2. Reading("block_comment", lo, pos + 2)
    BY <2>1 DEF Reading
  <2> QED
    BY <1>1, <1>2, <2>2, ReadKeeps DEF LexBlockComment, MunchStay
<1>3. ASSUME BlockComment
      PROVE  Pair(lo, "/", "*") /\ lo + 2 <= pos /\ \A q \in lo + 2 .. pos - 1 : ~ Pair(q, "*", "/")
  BY <1>1, <1>3 DEF BlockComment, At, MunchInv, Reading
<1>4. Ahead(2) = <<"*", "/">> <=> Pair(pos, "*", "/")
  <2>1. Ahead(2) = <<Byte(pos), Byte(pos + 1)>>
    BY DEF Ahead
  <2> QED
    BY <2>1 DEF Pair
<1>5. CASE BlockComment /\ Byte(pos) # "none" /\ ~ Pair(pos, "*", "/")
  <2>1. /\ NextChar(pos) \in pos + 1 .. Size
        /\ \A r \in pos + 1 .. NextChar(pos) - 1 : Byte(r) \in Continuation
    BY <1>5, TextType, NextCharType, WithinChar
  <2>2. ASSUME NEW q \in lo + 2 .. NextChar(pos) - 1 PROVE ~ Pair(q, "*", "/")
    <3>1. q \in lo + 2 .. pos - 1 \/ q = pos \/ q \in pos + 1 .. NextChar(pos) - 1
      BY <2>1
    <3> QED
      BY <1>3, <1>5, <2>1, <3>1 DEF Continuation, Pair
  <2>3. lo + 2 <= NextChar(pos)
    BY <1>3, <1>5, <2>1
  <2>4. Reading("block_comment", lo, NextChar(pos))
    BY <1>3, <1>5, <2>2, <2>3 DEF Reading
  <2>5. Read("block_comment", NextChar(pos))
    BY <1>4, <1>5 DEF BlockComment
  <2> QED
    BY <1>1, <2>4, <2>5, ReadKeeps DEF MunchStay
<1>6. ASSUME NEW q \in Nat, NEW errors, Emit("block_comment", q, errors), lo + 2 <= q, q <= Size,
             Pair(lo, "/", "*"), q \in Closes(lo), \A y \in Closes(lo) : q <= y
      PROVE  MunchStay
  <2>1. MM!Lexeme("block_comment", lo, q)
    BY <1>6, LexemeOf, BlockCommentIs
  <2>2. ASSUME NEW other \in MM!LexemesAt(lo) PROVE other.hi <= q
    <3>1. /\ other.kind \in MM!Kinds /\ Opens(other.kind, lo)
          /\ MM!Lexeme(other.kind, lo, other.hi) /\ other.hi \in Nat
      BY LexemeOpens
    <3>2. Byte(lo) = "/" /\ Byte(lo + 1) = "*"
      BY <1>6 DEF Pair
    <3>3. other.hi <= lo + 2 \/ other.kind \in CommentKinds
      BY <3>2, CommentAgainst
    <3>4. other.kind # "line_comment"
      BY <3>1, <3>2 DEF Opens, MM!WordKinds, MM!NumeralKinds
    <3>5. CASE other.kind = "block_comment"
      <4>1. \A y \in Closes(lo) : other.hi <= y
        <5>1. MM!BlockComment(lo, other.hi)
          BY <3>1, <3>5, LexemeOf
        <5> QED
          BY <5>1, BlockCommentIs
      <4> QED
        BY <1>6, <4>1
    <3>6. CASE other.hi <= lo + 2
      BY <1>6, <3>1, <3>6
    <3> QED
      BY <3>3, <3>4, <3>5, <3>6 DEF CommentKinds
  <2>3. MM!Next
    BY <1>1, <1>6, <2>1, <2>2, MunchStep
  <2> QED
    BY <1>6, <2>3, EmitKeeps DEF MunchStay
<1>7. ASSUME BlockComment, NEW y \in Closes(lo) PROVE y = Size \/ y - 2 >= pos
  <2>1. CASE y # Size
    <3>1. y \in lo + 4 .. Size /\ Pair(y - 2, "*", "/")
      BY <1>7, <2>1 DEF Closes
    <3>2. y - 2 \notin lo + 2 .. pos - 1
      BY <1>3, <1>7, <3>1
    <3> QED
      BY <3>1, <3>2
  <2> QED
    BY <2>1
<1>8. CASE BlockComment /\ Byte(pos) = "none"
  <2>1. pos = Size
    BY <1>8, TextType
  <2>2. ASSUME NEW y \in Closes(lo) PROVE pos <= y
    <3>1. y \in lo + 4 .. Size \/ y = Size
      BY DEF Closes
    <3>2. y = Size \/ y - 2 >= pos
      BY <1>7, <1>8
    <3> QED
      BY <2>1, <3>1, <3>2
  <2>3. pos \in Closes(lo) /\ Emit("block_comment", pos, <<"E0103">>)
    <3>1. Ahead(2) # <<"*", "/">>
      BY <1>4, <1>8 DEF Pair
    <3>2. Emit("block_comment", pos, <<"E0103">>)
      BY <1>8, <3>1 DEF BlockComment
    <3> QED
      BY <2>1, <3>2 DEF Closes
  <2> QED
    BY <1>3, <1>6, <1>8, <2>1, <2>2, <2>3
<1>9. CASE BlockComment /\ Pair(pos, "*", "/")
  <2>1. pos + 1 < Size /\ Byte(pos) # "none"
    BY <1>9, TextType DEF Pair
  <2>2. pos + 2 \in lo + 4 .. Size /\ (pos + 2) - 2 = pos
    BY <1>3, <1>9, <2>1
  <2>3. pos + 2 \in Closes(lo)
    BY <1>9, <2>2 DEF Closes
  <2>4. ASSUME NEW y \in Closes(lo) PROVE pos + 2 <= y
    <3>1. y \in lo + 4 .. Size \/ y = Size
      BY DEF Closes
    <3>2. y = Size \/ y - 2 >= pos
      BY <1>7, <1>9
    <3> QED
      BY <2>1, <3>1, <3>2
  <2>5. Emit("block_comment", pos + 2, <<>>)
    BY <1>4, <1>9, <2>1 DEF BlockComment
  <2>6. Pair(lo, "/", "*") /\ lo + 2 <= pos + 2 /\ pos + 2 <= Size /\ pos + 2 \in Nat
    BY <1>3, <1>9, <2>1
  <2> QED
    BY <1>6, <2>3, <2>4, <2>5, <2>6
<1> QED
  BY <1>2, <1>5, <1>8, <1>9

\* A word begins with a letter and goes on with letters and digits.
LEMMA WordIs ==
  ASSUME NEW p \in Nat, NEW to \in Nat
  PROVE  MM!Word(p, to) <=> Byte(p) \in IdentStart /\ All(p, to, IdentContinue)
BY SameFile, BytesAre DEF MM!Word, All, IdentContinue

LEMMA EndsAtIs ==
  ASSUME text \in Texts, NEW quote, NEW body \in Nat,
         NEW e \in Closing(quote, body), \A y \in Closing(quote, body) : e <= y
  PROVE  EndsAt(quote, body) = IF Byte(e) = quote THEN e + 1 ELSE e
<1>1. Closing(quote, body) \in SUBSET Nat
  BY TextType DEF Closing
<1>2. MM!Min(Closing(quote, body)) = e
  BY <1>1, LeastIs
<1> QED
  BY <1>2 DEF EndsAt

LEMMA LiteralEmits ==
  ASSUME TilingInv, doing \in LiteralKinds, InLiteral(QuoteOf(doing), lo, pos),
         Byte(pos) \in {QuoteOf(doing), "LF", "none"},
         NEW q, q = IF Byte(pos) = QuoteOf(doing) THEN pos + 1 ELSE pos,
         NEW errors, Emit(doing, q, errors)
  PROVE  MunchStay
<1> USE Here
<1> DEFINE quote == QuoteOf(doing)
           body == Body(lo)
<1>1. /\ quote \in Quotes /\ quote \notin {"LF", "none"} \cup IdentContinue
      /\ doing \in MM!Kinds /\ doing \notin MM!WordKinds
  BY DEF QuoteOf, Quotes, LiteralKinds, MM!Kinds, MM!WordKinds, IdentContinue, IdentStart, Letters, HexLetters, Digits
<1>2. body \in Nat /\ body = lo + PrefixAt(lo) + 1 /\ PrefixAt(lo) \in Nat /\ lo < body /\ body <= pos
  BY BodyType DEF Body, InLiteral
<1> HIDE DEF quote, body
<1>3. /\ Byte(lo + PrefixAt(lo)) = quote
      /\ pos < Size => ~ MM!Escaped(pos, body)
      /\ \A r \in body .. pos - 1 : Byte(r) \in {quote, "LF"} => MM!Escaped(r, body)
      /\ Byte(pos) \in {quote, "LF", "none"}
      /\ q = IF Byte(pos) = quote THEN pos + 1 ELSE pos
  BY DEF InLiteral, quote, body
<1>4. pos \in Closing(quote, body)
  <2>1. CASE pos = Size
    BY <2>1 DEF Closing
  <2>2. CASE pos < Size
    <3>1. pos \in body .. Size - 1 /\ Byte(pos) \in {quote, "LF"}
      BY <1>2, <1>3, <2>2, TextType
    <3> QED
      BY <1>3, <2>2, <3>1 DEF Closing
  <2> QED
    BY <2>1, <2>2
<1>5. ASSUME NEW y \in Closing(quote, body) PROVE pos <= y
  <2>1. y = Size \/ (y \in body .. Size - 1 /\ y \notin body .. pos - 1)
    BY <1>3 DEF Closing
  <2> QED
    BY <1>2, <2>1
<1>6. EndsAt(quote, body) = q
  BY <1>2, <1>3, <1>4, <1>5, EndsAtIs
<1>7. q \in Nat /\ pos <= q /\ q <= Size /\ lo < q
  <2>1. Byte(pos) = quote => pos < Size
    BY <1>1, TextType
  <2> QED
    BY <1>2, <1>3, <2>1
<1>8. MM!Lexeme(doing, lo, q)
  <2>1. MM!Literal(quote, lo, q)
    BY <1>1, <1>3, <1>6, LiteralIs DEF body
  <2> QED
    BY <2>1, LexemeOf, ZenonT(40) DEF LiteralKinds, QuoteOf, quote
<1>9. ASSUME NEW other \in MM!LexemesAt(lo) PROVE other.hi <= q
  <2>1. /\ other.kind \in MM!Kinds /\ Opens(other.kind, lo)
        /\ MM!Lexeme(other.kind, lo, other.hi) /\ other.hi \in Nat
    BY LexemeOpens
  <2>2. Byte(lo) \in Quotes \cup IdentStart
    <3>1. CASE Byte(lo) \in {"u", "U", "L"}
      BY <3>1 DEF IdentStart, Letters
    <3>2. CASE Byte(lo) \notin {"u", "U", "L"}
      <4>1. PrefixAt(lo) = 0 /\ lo + 0 = lo
        BY <3>2 DEF PrefixAt
      <4> QED
        BY <1>1, <1>3, <4>1
    <3> QED
      BY <3>1, <3>2
  <2>3. other.kind \in MM!WordKinds \cup LiteralKinds
    BY <2>1, <2>2, FirstBytes
  <2>4. CASE other.kind \in LiteralKinds
    <3>1. PICK quote2 \in Quotes : MM!Literal(quote2, lo, other.hi)
      <4>1. MM!Literal("\"", lo, other.hi) \/ MM!Literal("'", lo, other.hi)
        <5>1. MM!Lexeme("string_literal", lo, other.hi) \/ MM!Lexeme("char_literal", lo, other.hi)
          BY <2>1, <2>4 DEF LiteralKinds
        <5> QED
          BY <5>1, LexemeOf
      <4> QED
        BY <4>1 DEF Quotes
    <3>2. quote2 = quote /\ other.hi = EndsAt(quote2, body)
      BY <1>3, <3>1, LiteralIs DEF body
    <3> QED
      BY <1>6, <1>7, <3>2
  <2>5. CASE other.kind \in MM!WordKinds
    <3>1. \A r \in lo .. other.hi - 1 : Byte(r) \in IdentContinue
      BY <2>1, <2>5, LexemeOf, WordIs DEF All
    <3>2. lo + PrefixAt(lo) \notin lo .. other.hi - 1
      BY <1>1, <1>3, <3>1
    <3>3. other.hi <= lo + PrefixAt(lo)
      BY <1>2, <2>1, <3>2
    <3> QED
      BY <1>2, <1>7, <2>1, <3>3
  <2> QED
    BY <2>3, <2>4, <2>5
<1>10. MM!Next
  BY <1>1, <1>7, <1>8, <1>9, MunchStep
<1> QED
  BY <1>10, EmitKeeps DEF MunchStay

LEMMA LiteralsMunch ==
  ASSUME TilingInv, MunchInv, LexLiteral \/ Literal
  PROVE  MunchStay
<1> USE Here
<1>1. LiteralKinds \subseteq LoopNames \ {"number"}
  BY DEF LoopNames, LiteralKinds
<1>2. CASE LexLiteral
  <2>1. lo = pos /\ Prefix = PrefixAt(lo) /\ pos + Prefix + 1 = Body(lo) /\ Byte(lo + PrefixAt(lo)) \in Quotes
    <3>1. lo = pos /\ Prefix = PrefixAt(lo)
      BY <1>2, PrefixIs DEF LexLiteral, At
    <3>2. pos + Prefix + 1 = Body(lo)
      BY <3>1, BodyType DEF Body
    <3> QED
      BY <1>2, <3>1, <3>2 DEF LexLiteral, StartsLiteral
  <2>2. PICK loop \in LiteralKinds : Read(loop, Body(lo)) /\ Byte(lo + PrefixAt(lo)) = QuoteOf(loop)
    <3>1. CASE Byte(lo + PrefixAt(lo)) = "'"
      <4>1. Read("char_literal", Body(lo))
        BY <1>2, <2>1, <3>1 DEF LexLiteral
      <4> QED
        BY <3>1, <4>1 DEF LiteralKinds, QuoteOf
    <3>2. CASE Byte(lo + PrefixAt(lo)) = "\""
      <4>1. Read("string_literal", Body(lo))
        BY <1>2, <2>1, <3>2 DEF LexLiteral
      <4> QED
        BY <3>2, <4>1 DEF LiteralKinds, QuoteOf
    <3> QED
      BY <2>1, <3>1, <3>2 DEF Quotes
  <2>3. InLiteral(QuoteOf(loop), lo, Body(lo))
    <3>1. Body(lo) \in Nat /\ ~ MM!Escaped(Body(lo), Body(lo))
      BY BodyType, EscapedNext
    <3> QED
      BY <2>2, <3>1 DEF InLiteral
  <2>4. Reading(loop, lo, Body(lo))
    BY <2>3 DEF Reading, LiteralKinds
  <2> QED
    BY <1>1, <2>2, <2>4, ReadKeeps DEF MunchStay
<1> DEFINE quote == QuoteOf(doing)
           body == Body(lo)
<1>3. ASSUME Literal PROVE doing \in LiteralKinds /\ InLiteral(quote, lo, pos)
  <2>1. doing \in LiteralKinds /\ doing \in LoopNames \ {"number"}
    BY <1>1, <1>3 DEF Literal, LiteralKinds
  <2>2. Reading(doing, lo, pos)
    BY <2>1 DEF MunchInv
  <2> QED
    BY <2>1, <2>2 DEF Reading, LiteralKinds
<1>4. quote = (IF At("char_literal") THEN "'" ELSE "\"") /\ quote \in Quotes
  BY DEF QuoteOf, At, Quotes
<1>5. quote \notin {"\\", "LF", "none"} \cup Continuation
  BY <1>4 DEF Quotes, Continuation
<1> HIDE DEF quote
<1>6. body \in Nat
  BY BodyType
<1> HIDE DEF body
<1>7. CASE Literal /\ Byte(pos) \in {quote, "LF", "none"}
  <2>1. PICK q, errors : Emit(doing, q, errors) /\ q = IF Byte(pos) = quote THEN pos + 1 ELSE pos
    <3>1. CASE Byte(pos) = quote
      <4>1. Emit(doing, pos + 1, <<>>)
        BY <1>4, <1>5, <1>7, <3>1 DEF Literal
      <4> QED
        BY <3>1, <4>1
    <3>2. CASE Byte(pos) # quote
      <4>1. Emit(doing, pos, <<Unterminated>>)
        BY <1>4, <1>7, <3>2 DEF Literal
      <4> QED
        BY <3>2, <4>1
    <3> QED
      BY <3>1, <3>2
  <2> QED
    BY <1>3, <1>7, <2>1, LiteralEmits DEF quote
\* The rounds that read on, to p.
<1>8. ASSUME Literal, NEW p \in Nat, Read(doing, p), pos < p, p < Size => ~ MM!Escaped(p, body),
             \A r \in pos .. p - 1 : Byte(r) \in {quote, "LF"} => MM!Escaped(r, body)
      PROVE  MunchStay
  <2>1. InLiteral(quote, lo, pos) /\ doing \in LiteralKinds
    BY <1>3, <1>8
  <2>2. ASSUME NEW r \in body .. p - 1, Byte(r) \in {quote, "LF"} PROVE MM!Escaped(r, body)
    <3>1. r \in body .. pos - 1 \/ r \in pos .. p - 1
      BY <1>6, <1>8
    <3> QED
      BY <1>8, <2>1, <2>2, <3>1 DEF InLiteral, body
  <2>3. body <= p
    BY <1>6, <1>8, <2>1 DEF InLiteral, body
  <2>4. InLiteral(quote, lo, p)
    BY <1>8, <2>1, <2>2, <2>3 DEF InLiteral, body
  <2>5. Reading(doing, lo, p)
    BY <2>1, <2>4 DEF Reading, LiteralKinds, quote
  <2> QED
    BY <1>1, <1>8, <2>1, <2>5, ReadKeeps DEF MunchStay
<1>9. CASE Literal /\ Byte(pos) \notin {quote, "LF", "none", "\\"}
  <2>1. Read(doing, NextChar(pos)) /\ pos < Size
    BY <1>4, <1>9, TextType DEF Literal
  <2>2. /\ NextChar(pos) \in pos + 1 .. Size
        /\ \A r \in pos + 1 .. NextChar(pos) - 1 : Byte(r) \in Continuation
    BY <2>1, NextCharType, WithinChar
  <2>3. ASSUME NEW r \in pos .. NextChar(pos) - 1 PROVE Byte(r) \notin {quote, "LF", "\\"}
    <3>1. r = pos \/ r \in pos + 1 .. NextChar(pos) - 1
      OBVIOUS
    <3> QED
      BY <1>5, <1>9, <2>2, <3>1 DEF Continuation
  <2>4. ~ MM!Escaped(NextChar(pos), body)
    <3>1. NextChar(pos) - 1 \in pos .. NextChar(pos) - 1 /\ NextChar(pos) - 1 \in Nat
      BY <2>2
    <3>2. body <= NextChar(pos) - 1 /\ (NextChar(pos) - 1) + 1 = NextChar(pos)
      BY <1>3, <1>6, <1>9, <2>2 DEF InLiteral, body
    <3> QED
      BY <1>6, <2>3, <3>1, <3>2, EscapedNext
  <2> QED
    BY <1>8, <1>9, <2>1, <2>2, <2>3, <2>4
<1>10. CASE Literal /\ Byte(pos) = "\\"
  <2>1. pos < Size /\ body <= pos /\ ~ MM!Escaped(pos, body)
    BY <1>3, <1>10, TextType DEF InLiteral, body
  <2>2. MM!Escaped(pos + 1, body) /\ ~ MM!Escaped(pos + 2, body)
    <3>1. MM!Escaped(pos + 1, body)
      BY <1>6, <1>10, <2>1, EscapedNext
    <3>2. ~ MM!Escaped((pos + 1) + 1, body) /\ (pos + 1) + 1 = pos + 2
      BY <1>6, <2>1, <3>1, EscapedNext
    <3> QED
      BY <3>1, <3>2
  <2>3. Read(doing, IF pos + 1 < Size THEN NextChar(pos + 1) ELSE pos + 1)
    BY <1>4, <1>5, <1>10 DEF Literal
  <2>4. CASE pos + 1 >= Size
    <3>1. Read(doing, pos + 1) /\ pos + 1 \in Nat /\ ~ (pos + 1 < Size)
      BY <2>3, <2>4
    <3>2. \A r \in pos .. (pos + 1) - 1 : r = pos
      OBVIOUS
    <3> QED
      BY <1>5, <1>8, <1>10, <3>1, <3>2
  <2>5. CASE pos + 1 < Size
    <3>1. /\ NextChar(pos + 1) \in pos + 2 .. Size
          /\ \A r \in pos + 2 .. NextChar(pos + 1) - 1 : Byte(r) \in Continuation
      BY <2>5, NextCharType, WithinChar
    <3>2. ASSUME NEW r \in pos .. NextChar(pos + 1) - 1, Byte(r) \in {quote, "LF"}
          PROVE  MM!Escaped(r, body)
      <4>1. r = pos \/ r = pos + 1 \/ r \in pos + 2 .. NextChar(pos + 1) - 1
        BY <3>1
      <4>2. r # pos
        BY <1>5, <1>10, <3>2
      <4>3. r \notin pos + 2 .. NextChar(pos + 1) - 1
        BY <1>5, <3>1, <3>2 DEF Continuation
      <4> QED
        BY <2>2, <4>1, <4>2, <4>3
    <3>3. ~ MM!Escaped(NextChar(pos + 1), body)
      <4>1. CASE NextChar(pos + 1) = pos + 2
        BY <2>2, <4>1
      <4>2. CASE NextChar(pos + 1) # pos + 2
        <5>1. NextChar(pos + 1) - 1 \in pos + 2 .. NextChar(pos + 1) - 1 /\ NextChar(pos + 1) - 1 \in Nat
          BY <3>1, <4>2
        <5>2. body <= NextChar(pos + 1) - 1 /\ (NextChar(pos + 1) - 1) + 1 = NextChar(pos + 1)
          BY <1>6, <2>1, <3>1
        <5>3. Byte(NextChar(pos + 1) - 1) # "\\"
          BY <3>1, <5>1 DEF Continuation
        <5> QED
          BY <1>6, <5>1, <5>2, <5>3, EscapedNext
      <4> QED
        BY <4>1, <4>2
    <3>4. Read(doing, NextChar(pos + 1)) /\ NextChar(pos + 1) \in Nat /\ pos < NextChar(pos + 1)
      BY <2>3, <2>5, <3>1
    <3> QED
      BY <1>8, <1>10, <3>2, <3>3, <3>4
  <2> QED
    BY <2>4, <2>5
<1> QED
  BY <1>2, <1>7, <1>9, <1>10

\* The keyword table is asked with the bytes of the word.
LEMMA BytesOfText ==
  ASSUME text \in Texts, NEW from \in Nat, NEW to \in Nat, from <= to, to <= Size
  PROVE  SubSeq(text, from + 1, to) = MM!Bytes(from, to)
<1> DEFINE S == STRING \cup {"none"}
           left == SubSeq(text, from + 1, to)
           right == MM!Bytes(from, to)
<1>1. text \in Seq(STRING) /\ Len(text) = Size /\ Size \in Nat
  BY TextsAssumption, TextType DEF IsUtf8, Size
<1>2. \A p \in Nat : p < Size => Byte(p) = text[p + 1] /\ Byte(p) \in STRING
  BY <1>1 DEF Byte
<1>3. left = [i \in 1 .. to - from |-> text[i + from]]
  <2>1. left = [i \in 1 .. (to - (from + 1)) + 1 |-> text[(i + (from + 1)) - 1]]
    BY <1>1 DEF SubSeq
  <2>2. (to - (from + 1)) + 1 = to - from /\ \A i \in 1 .. to - from : (i + (from + 1)) - 1 = i + from
    OBVIOUS
  <2> QED
    BY <2>1, <2>2
<1>4. right = [i \in 1 .. to - from |-> Byte(from + i - 1)]
  BY BytesAre
<1>5. ASSUME NEW i \in 1 .. to - from PROVE text[i + from] = Byte(from + i - 1)
  <2>1. from + i - 1 \in Nat /\ from + i - 1 < Size /\ (from + i - 1) + 1 = i + from
    BY <1>1
  <2> QED
    BY <1>2, <2>1
<1> HIDE DEF left, right
<1> QED
  BY <1>3, <1>4, <1>5 DEF left, right

LEMMA IdentsMunch ==
  ASSUME TilingInv, MunchInv, LexIdent \/ Ident
  PROVE  MunchStay
<1> USE Here
<1>1. "ident" \in LoopNames \ {"number"} /\ MM!WordKinds \subseteq MM!Kinds
  BY DEF LoopNames, MM!Kinds
<1>2. CASE LexIdent
  <2>1. lo = pos /\ Byte(lo) \in IdentStart /\ Prefix = PrefixAt(lo)
    BY <1>2, PrefixIs DEF LexIdent, At
  <2>2. Byte(lo + PrefixAt(lo)) \notin Quotes
    BY <1>2, <2>1 DEF LexIdent, StartsLiteral
  <2>3. Reading("ident", lo, pos)
    BY <2>1, <2>2 DEF Reading, InIdent, All
  <2> QED
    BY <1>1, <1>2, <2>3, ReadKeeps DEF LexIdent, MunchStay
<1>3. ASSUME Ident PROVE InIdent(lo, pos) /\ doing = "ident"
  BY <1>1, <1>3 DEF Ident, At, MunchInv, Reading
<1>4. CASE Ident /\ Byte(pos) \in IdentContinue
  <2>1. NextChar(pos) = pos + 1
    BY <1>4, AsciiNext DEF Ascii
  <2>2. InIdent(lo, pos + 1)
    BY <1>3, <1>4 DEF InIdent, All
  <2>3. Reading("ident", lo, pos + 1)
    BY <2>2 DEF Reading
  <2>4. Read("ident", pos + 1)
    BY <1>4, <2>1 DEF Ident
  <2> QED
    BY <1>1, <2>3, <2>4, ReadKeeps DEF MunchStay
<1>5. CASE Ident /\ Byte(pos) \notin IdentContinue
  <2>1. lo < pos
    BY <1>1, <1>3, <1>5 DEF Begun, FirstByte, IdentContinue
  <2>2. Emit(MM!WordKind(lo, pos), pos, <<>>)
    <3>1. SubSeq(text, lo + 1, pos) = MM!Bytes(lo, pos)
      BY BytesOfText
    <3> QED
      BY <1>5, <3>1 DEF Ident, MM!WordKind
  <2>3. MM!WordKind(lo, pos) \in MM!WordKinds
    BY DEF MM!WordKind, MM!WordKinds
  <2>4. MM!Lexeme(MM!WordKind(lo, pos), lo, pos)
    <3>1. MM!Word(lo, pos)
      BY <1>3, <1>5, WordIs DEF InIdent
    <3> QED
      BY <2>3, <3>1, LexemeOf
  <2>5. ASSUME NEW other \in MM!LexemesAt(lo) PROVE other.hi <= pos
    <3>1. /\ other.kind \in MM!Kinds /\ Opens(other.kind, lo)
          /\ MM!Lexeme(other.kind, lo, other.hi) /\ other.hi \in Nat
      BY LexemeOpens
    <3>2. other.kind \in MM!WordKinds \cup LiteralKinds
      BY <1>3, <1>5, <3>1, FirstBytes DEF InIdent
    <3>3. other.kind \notin LiteralKinds
      <4>1. ASSUME NEW kind \in LiteralKinds, Opens(kind, lo) PROVE Byte(lo + PrefixAt(lo)) \in Quotes
        BY <4>1 DEF Opens, LiteralKinds, Quotes, MM!WordKinds, MM!NumeralKinds
      <4> QED
        BY <1>3, <1>5, <3>1, <4>1 DEF InIdent
    <3>4. \A r \in lo .. other.hi - 1 : Byte(r) \in IdentContinue
      BY <3>1, <3>2, <3>3, LexemeOf, WordIs DEF All
    <3>5. pos \notin lo .. other.hi - 1
      BY <1>5, <3>4
    <3> QED
      BY <2>1, <3>1, <3>5
  <2>6. MM!Next
    BY <1>1, <2>1, <2>2, <2>3, <2>4, <2>5, MunchStep
  <2> QED
    BY <2>2, <2>6, EmitKeeps DEF MunchStay
<1> QED
  BY <1>2, <1>4, <1>5

-----------------------------------------------------------------------------
(* Numbers. *)

LEMMA BaseIs ==
  ASSUME pos \in Nat
  PROVE  BaseAhead = MM!Base(pos)
<1> DEFINE ahead == <<Byte(pos), Byte(pos + 1)>>
<1>1. Ahead(2) = ahead /\ MM!Bytes(pos, pos + 2) = ahead
  BY FewBytes DEF Ahead
<1>2. /\ ahead \in {<<"0", "x">>, <<"0", "X">>} <=> Byte(pos) = "0" /\ Byte(pos + 1) \in {"x", "X"}
      /\ ahead \in {<<"0", "b">>, <<"0", "B">>} <=> Byte(pos) = "0" /\ Byte(pos + 1) \in {"b", "B"}
      /\ ahead \in {<<"0", d>> : d \in Digits} <=> Byte(pos) = "0" /\ Byte(pos + 1) \in Digits
  OBVIOUS
<1> HIDE DEF ahead
<1>3. Digits \cap {"x", "X", "b", "B"} = {}
  BY DEF Digits
<1>4. CASE Byte(pos) # "0"
  BY <1>1, <1>2, <1>4 DEF BaseAhead, MM!Base
<1>5. CASE Byte(pos) = "0" /\ Byte(pos + 1) \in {"x", "X"}
  BY <1>1, <1>2, <1>3, <1>5 DEF BaseAhead, MM!Base
<1>6. CASE Byte(pos) = "0" /\ Byte(pos + 1) \in {"b", "B"}
  BY <1>1, <1>2, <1>3, <1>6 DEF BaseAhead, MM!Base
<1>7. CASE Byte(pos) = "0" /\ Byte(pos + 1) \in Digits
  BY <1>1, <1>2, <1>3, <1>7 DEF BaseAhead, MM!Base
<1>8. CASE Byte(pos) = "0" /\ Byte(pos + 1) \notin {"x", "X", "b", "B"} \cup Digits
  BY <1>1, <1>2, <1>8 DEF BaseAhead, MM!Base
<1> QED
  BY <1>4, <1>5, <1>6, <1>7, <1>8

LEMMA NumberBytesAre ==
  /\ Exponents = ExponentsOf(base)
  /\ NumberPart \subseteq NumberBytes \ ({"."} \cup Exponents)
  /\ NumberBytes \subseteq NumberPart \cup {"."} \cup Exponents
  /\ \A b : ExponentsOf(b) \subseteq NumberBytes \ {".", "+", "-", "x", "X"}
  /\ \A b : b # "hex" => ExponentsOf(b) \cap {"b", "B"} = {}
  /\ ExponentsOf("hex") \cap Digits = {}
  /\ \A b : ExponentsOf(b) \cap Digits = {}
BY DEF Exponents, ExponentsOf, NumberPart, NumberBytes, ValidDigits, IdentContinue, IdentStart, Letters, HexLetters,
       Digits

LEMMA NumeralIs ==
  ASSUME NEW p \in Nat, NEW to \in Nat
  PROVE  /\ MM!Numeral(p, to) <=>
              OpensNumber(p) /\ \A q \in p .. to - 1 : Byte(q) \in NumberBytes \/ Signed(q, MM!Base(p))
         /\ MM!NumeralKind(p, to) =
              IF \E q \in p .. to - 1 : Byte(q) \in {"."} \cup ExponentsOf(MM!Base(p))
              THEN "float_literal" ELSE IntLiteral[MM!Base(p)]
<1>1. MM!Exponents(p) = ExponentsOf(MM!Base(p)) /\ MM!IntKinds = IntLiteral
  BY DEF MM!Exponents, ExponentsOf, MM!IntKinds, IntLiteral
<1>2. IdentStart \cup Digits \cup {".", "'"} = NumberBytes
  BY DEF NumberBytes, IdentContinue
<1>3. MM!Numeral(p, to) <=>
        OpensNumber(p) /\ \A q \in p .. to - 1 : Byte(q) \in NumberBytes \/ Signed(q, MM!Base(p))
  BY <1>1, <1>2, SameFile DEF MM!Numeral, OpensNumber, Signed
<1>4. MM!IsFloat(p, to) <=> \E q \in p .. to - 1 : Byte(q) \in {"."} \cup ExponentsOf(MM!Base(p))
  BY <1>1, BytesAre DEF MM!IsFloat
<1> QED
  BY <1>1, <1>3, <1>4 DEF MM!NumeralKind

LEMMA SameNumber ==
  ASSUME UNCHANGED text, NEW from, NEW p, NEW b, NEW float
  PROVE  InNumber(from, p, b, float)' <=> InNumber(from, p, b, float)
<1>1. \A q : Byte(q)' = Byte(q)
  BY DEF Byte, Size
<1>2. MM!Base(from)' = MM!Base(from)
  <2>1. \A q : MM!Byte(q)' = MM!Byte(q)
    BY DEF MM!Byte, MM!Size
  <2>2. MM!Bytes(from, from + 2)' = MM!Bytes(from, from + 2)
    BY <2>1 DEF MM!Bytes
  <2> QED
    BY <2>2 DEF MM!Base
<1> QED
  BY <1>1, <1>2 DEF InNumber, OpensNumber, Signed

LEMMA NumberKeeps ==
  ASSUME NEW q, NEW b, NEW float, InNumber(lo, q, b, float),
         doing' = "number", pos' = q, base' = b, isFloat' = float, UNCHANGED <<text, lo, tokens>>
  PROVE  MunchStay
<1>1. InNumber(lo, q, b, float)'
  BY SameNumber
<1>2. InNumber(lo, pos, base, isFloat)'
  BY <1>1 DEF InNumber
<1> QED
  BY <1>2 DEF MunchStay, MunchInv

LEMMA NumberBeginsMunch ==
  ASSUME TilingInv, LexNumber
  PROVE  MunchStay
<1> USE Here
<1>1. lo = pos /\ OpensNumber(lo) /\ BaseAhead = MM!Base(lo)
  BY BaseIs DEF LexNumber, At, StartsNumber, OpensNumber
<1>2. /\ doing' = "number" /\ base' = MM!Base(lo) /\ isFloat' = (Byte(lo) = ".")
      /\ UNCHANGED <<text, lo, tokens>>
  BY <1>1 DEF LexNumber
<1>3. SUFFICES ASSUME NEW q, pos' = q PROVE InNumber(lo, q, MM!Base(lo), Byte(lo) = ".")
  BY <1>2, NumberKeeps
<1> DEFINE b == MM!Base(lo)
<1>4. Byte(lo) \in NumberBytes \ ExponentsOf(b) /\ Byte(lo) \notin {"+", "-"}
  BY <1>1, NumberBytesAre DEF OpensNumber, NumberBytes, IdentContinue, Digits
<1>5. CASE b \in {"hex", "binary"}
  <2>1. q = lo + 2
    BY <1>1, <1>3, <1>5 DEF LexNumber
  <2>2. /\ Byte(lo) = "0"
        /\ b = "hex" => Byte(lo + 1) \in {"x", "X"}
        /\ b = "binary" => Byte(lo + 1) \in {"b", "B"}
    BY <1>1, <1>5, AheadBytes DEF BaseAhead
  <2>3. Byte(lo + 1) \in NumberBytes /\ Byte(lo + 1) \notin {"."} \cup ExponentsOf(b)
    BY <1>5, <2>2, NumberBytesAre DEF NumberBytes, IdentContinue, IdentStart, Letters, HexLetters
  <2> HIDE DEF b
  <2>4. \A r \in lo .. q - 1 : r = lo \/ r = lo + 1
    BY <2>1
  <2>5. \A r \in lo .. q - 1 : Byte(r) \in NumberBytes /\ Byte(r) \notin {"."} \cup ExponentsOf(b)
    BY <1>4, <2>2, <2>3, <2>4
  <2>6. ~ Signed(q, b)
    <3>1. q - 1 = lo + 1
      BY <2>1
    <3> QED
      BY <2>3, <3>1 DEF Signed
  <2>7. Byte(lo) # "."
    BY <2>2
  <2> QED
    BY <1>1, <2>5, <2>6, <2>7 DEF InNumber, b
<1>6. CASE b \notin {"hex", "binary"} /\ Byte(lo) \in {".", "0"}
  <2>1. q = lo + 1
    BY <1>1, <1>3, <1>6 DEF LexNumber
  <2> HIDE DEF b
  <2>2. (\A r \in lo .. q - 1 : r = lo) /\ lo \in lo .. q - 1 /\ q - 1 = lo
    BY <2>1
  <2>3. ~ Signed(q, b)
    BY <1>4, <2>2 DEF Signed
  <2>4. (Byte(lo) = ".") <=> \E r \in lo .. q - 1 : Byte(r) \in {"."} \cup ExponentsOf(b)
    BY <1>4, <2>2
  <2>5. \A r \in lo .. q - 1 : Byte(r) \in NumberBytes
    BY <1>4, <2>2
  <2> QED
    BY <1>1, <2>3, <2>4, <2>5 DEF InNumber, b
<1>7. CASE b \notin {"hex", "binary"} /\ Byte(lo) \notin {".", "0"}
  <2>1. q = lo
    BY <1>1, <1>3, <1>7 DEF LexNumber
  <2> HIDE DEF b
  <2>2. (\A r : r \notin lo .. q - 1) /\ ~ (lo < q)
    BY <2>1
  <2> QED
    BY <1>1, <1>7, <2>2 DEF InNumber, b
<1> QED
  BY <1>5, <1>6, <1>7

LEMMA NumberReadsMunch ==
  ASSUME TilingInv, MunchInv, Number, Byte(pos) \in NumberPart \cup {"."} \cup Exponents
  PROVE  MunchStay
<1> USE Here
<1>1. doing = "number" /\ InNumber(lo, pos, base, isFloat)
  BY DEF Number, At, MunchInv
<1>2. /\ Exponents = ExponentsOf(base) /\ "." \notin NumberPart \cup Exponents
      /\ Exponents \cap NumberPart = {} /\ Exponents \cap {"+", "-"} = {}
      /\ NumberPart \cup {"."} \cup Exponents \subseteq NumberBytes
  BY NumberBytesAre DEF NumberBytes
\* One byte more.
<1>3. ASSUME NEW float, float <=> isFloat \/ Byte(pos) \in {"."} \cup Exponents,
             ~ Signed(pos + 1, base)
      PROVE  InNumber(lo, pos + 1, base, float)
  <2>1. \A r \in lo .. (pos + 1) - 1 : r \in lo .. pos - 1 \/ r = pos
    OBVIOUS
  <2>2. \A r \in lo .. (pos + 1) - 1 : Byte(r) \in NumberBytes \/ Signed(r, base)
    BY <1>1, <1>2, <2>1 DEF InNumber
  <2>3. float <=> \E r \in lo .. (pos + 1) - 1 : Byte(r) \in {"."} \cup ExponentsOf(base)
    <3>1. lo .. pos - 1 \subseteq lo .. (pos + 1) - 1 /\ pos \in lo .. (pos + 1) - 1
      OBVIOUS
    <3> QED
      BY <1>1, <1>2, <1>3, <2>1, <3>1 DEF InNumber
  <2> QED
    BY <1>1, <1>3, <2>2, <2>3 DEF InNumber
<1>4. (pos + 1) - 1 = pos /\ (pos + 2) - 1 = pos + 1
  OBVIOUS
<1>5. CASE Byte(pos) \in NumberPart
  <2>1. Byte(pos) \in Ascii
    <3>1. NumberPart \subseteq Ascii
      BY DEF NumberPart, ValidDigits, Ascii, Quotes, IdentContinue, IdentStart, Letters, HexLetters, Digits
    <3> QED
      BY <1>5, <3>1
  <2>2. Read("number", pos + 1)
    BY <1>2, <1>5, <2>1, AsciiNext DEF Number
  <2>3. ~ Signed(pos + 1, base)
    BY <1>2, <1>4, <1>5 DEF Signed
  <2>4. InNumber(lo, pos + 1, base, isFloat)
    BY <1>2, <1>3, <1>5, <2>3
  <2> QED
    BY <2>2, <2>4, NumberKeeps DEF Read
<1>6. ASSUME NEW q, FloatPart(q), InNumber(lo, q, base, TRUE) PROVE MunchStay
  BY <1>1, <1>6, NumberKeeps DEF FloatPart
<1>7. CASE Byte(pos) = "."
  <2>1. FloatPart(pos + 1)
    BY <1>2, <1>7 DEF Number
  <2>2. ~ Signed(pos + 1, base)
    BY <1>2, <1>4, <1>7 DEF Signed
  <2> QED
    BY <1>3, <1>6, <1>7, <2>1, <2>2
<1>8. CASE Byte(pos) \in Exponents /\ Byte(pos + 1) \notin {"+", "-"}
  <2>1. FloatPart(pos + 1)
    BY <1>2, <1>8 DEF Number
  <2>2. ~ Signed(pos + 1, base)
    BY <1>8 DEF Signed
  <2> QED
    BY <1>3, <1>6, <1>8, <2>1, <2>2
<1>9. CASE Byte(pos) \in Exponents /\ Byte(pos + 1) \in {"+", "-"}
  <2>1. FloatPart(pos + 2)
    BY <1>2, <1>9 DEF Number
  <2>2. Signed(pos + 1, base) /\ ~ Signed(pos + 2, base)
    BY <1>2, <1>4, <1>9 DEF Signed
  <2>3. \A r \in lo .. (pos + 2) - 1 : r \in lo .. pos - 1 \/ r = pos \/ r = pos + 1
    OBVIOUS
  <2>4. \A r \in lo .. (pos + 2) - 1 : Byte(r) \in NumberBytes \/ Signed(r, base)
    BY <1>1, <1>2, <1>9, <2>2, <2>3 DEF InNumber
  <2>5. \E r \in lo .. (pos + 2) - 1 : Byte(r) \in {"."} \cup ExponentsOf(base)
    <3>1. pos \in lo .. (pos + 2) - 1
      OBVIOUS
    <3> QED
      BY <1>2, <1>9, <3>1
  <2>6. InNumber(lo, pos + 2, base, TRUE)
    BY <1>1, <2>2, <2>4, <2>5 DEF InNumber
  <2> QED
    BY <1>6, <2>1, <2>6
<1> QED
  BY <1>5, <1>7, <1>8, <1>9

LEMMA NumberEndsMunch ==
  ASSUME TilingInv, MunchInv, Number, Byte(pos) \notin NumberPart \cup {"."} \cup Exponents
  PROVE  MunchStay
<1> USE Here
<1>1. doing = "number" /\ InNumber(lo, pos, base, isFloat)
  BY DEF Number, At, MunchInv
<1>2. Byte(pos) \notin NumberBytes
  BY NumberBytesAre
<1>3. lo < pos /\ ~ Signed(pos, base)
  <2>1. Byte(pos) \notin Digits /\ "number" \in LoopNames
    BY <1>2 DEF NumberBytes, IdentContinue, LoopNames
  <2>2. lo < pos
    BY <1>1, <2>1 DEF Begun, FirstByte
  <2> QED
    BY <1>1, <2>2 DEF InNumber
<1> DEFINE kind == MM!NumeralKind(lo, pos)
<1>4. MM!Numeral(lo, pos) /\ kind = IF isFloat THEN "float_literal" ELSE IntLiteral[base]
  BY <1>1, NumeralIs DEF InNumber
<1>5. Emit(kind, pos, <<>>)
  BY <1>4 DEF Number
<1>6. kind \in MM!NumeralKinds /\ kind \in MM!Kinds
  BY <1>4 DEF TilingInv, TypeInv, IntLiteral, MM!NumeralKinds, MM!Kinds
<1>7. MM!Lexeme(kind, lo, pos)
  BY <1>4, <1>6, LexemeOf
<1>8. ASSUME NEW other \in MM!LexemesAt(lo) PROVE other.hi <= pos
  <2>1. /\ other.kind \in MM!Kinds /\ Opens(other.kind, lo)
        /\ MM!Lexeme(other.kind, lo, other.hi) /\ other.hi \in Nat /\ lo < other.hi
    BY LexemeOpens
  <2>2. OpensNumber(lo) /\ Byte(lo) \in Digits \cup Punctuators1 /\ Byte(lo) # "/"
    BY <1>1 DEF InNumber, OpensNumber, Digits, Punctuators1
  <2>3. other.kind \in {"punctuator"} \cup CommentKinds \cup MM!NumeralKinds
    BY <2>1, <2>2, FirstBytes
  <2>4. other.kind \notin CommentKinds
    <3>1. ASSUME NEW k \in CommentKinds, Opens(k, lo) PROVE Byte(lo) = "/"
      BY <3>1 DEF Opens, CommentKinds, MM!WordKinds, MM!NumeralKinds
    <3> QED
      BY <2>1, <2>2, <3>1
  <2>5. CASE other.kind = "punctuator"
    <3>1. MM!Bytes(lo, other.hi) \in Punctuators /\ Byte(lo) \in Punctuators1
      <4>1. Opens("punctuator", lo) => Byte(lo) \in Punctuators1
        BY DEF Opens, MM!WordKinds, MM!NumeralKinds
      <4> QED
        BY <2>1, <2>5, <4>1, LexemeOf
    <3>2. Byte(lo) = "." /\ Byte(lo + 1) \in Digits
      BY <2>2, <3>1 DEF OpensNumber, Digits, Punctuators1
    <3>3. /\ \A b : <<".", b>> \notin Punctuators2
          /\ \A b, c : b \in Digits => <<".", b, c>> \notin Punctuators3
      BY DEF Punctuators2, Punctuators3, Digits
    <3>4. other.hi = lo + 1
      BY <2>1, <3>1, <3>2, <3>3, PunctuatorIs
    <3> QED
      BY <1>3, <3>4
  <2>6. CASE other.kind \in MM!NumeralKinds
    <3>1. \A q \in lo .. other.hi - 1 : Byte(q) \in NumberBytes \/ Signed(q, base)
      <4>1. MM!Numeral(lo, other.hi)
        BY <2>1, <2>6, LexemeOf
      <4> QED
        BY <1>1, <2>1, <4>1, NumeralIs DEF InNumber
    <3>2. pos \notin lo .. other.hi - 1
      BY <1>2, <1>3, <3>1
    <3> QED
      BY <1>3, <2>1, <3>2
  <2> QED
    BY <2>3, <2>4, <2>5, <2>6
<1>9. MM!Next
  BY <1>3, <1>5, <1>6, <1>7, <1>8, MunchStep
<1> QED
  BY <1>5, <1>9, EmitKeeps DEF MunchStay

-----------------------------------------------------------------------------
(* Punctuators and stray characters. *)

LEMMA AheadIs ==
  ASSUME pos \in Nat
  PROVE  Ahead(2) = <<Byte(pos), Byte(pos + 1)>> /\ Ahead(3) = <<Byte(pos), Byte(pos + 1), Byte(pos + 2)>>
BY DEF Ahead

LEMMA PunctuatorFirst ==
  ASSUME pos \in Nat
  PROVE  PunctuatorLength > 0 <=> Byte(pos) \in Punctuators1
<1>1. \A a, b : <<a, b>> \in Punctuators2 => a \in Punctuators1
  BY DEF Punctuators2, Punctuators1
<1>2. \A a, b, c : <<a, b, c>> \in Punctuators3 => a \in Punctuators1
  BY DEF Punctuators3, Punctuators1
<1>3. CASE Ahead(3) \in Punctuators3
  <2>1. PunctuatorLength = 3
    BY <1>3 DEF PunctuatorLength
  <2> QED
    BY <1>2, <1>3, <2>1, AheadIs
<1>4. CASE Ahead(3) \notin Punctuators3 /\ Ahead(2) \in Punctuators2
  <2>1. PunctuatorLength = 2
    BY <1>4 DEF PunctuatorLength
  <2> QED
    BY <1>1, <1>4, <2>1, AheadIs
<1>5. CASE Ahead(3) \notin Punctuators3 /\ Ahead(2) \notin Punctuators2 /\ Byte(pos) \in Punctuators1
  <2>1. PunctuatorLength = 1
    BY <1>5 DEF PunctuatorLength
  <2> QED
    BY <1>5, <2>1
<1>6. CASE Ahead(3) \notin Punctuators3 /\ Ahead(2) \notin Punctuators2 /\ Byte(pos) \notin Punctuators1
  <2>1. PunctuatorLength = 0
    BY <1>6 DEF PunctuatorLength
  <2> QED
    BY <1>6, <2>1
<1> QED
  BY <1>3, <1>4, <1>5, <1>6

LEMMA PunctuatorMunches ==
  ASSUME TilingInv, LexPunctuator
  PROVE  MunchStay
<1> USE Here
<1> DEFINE q == pos + PunctuatorLength
<1>1. /\ lo = pos /\ Byte(lo) \in Punctuators1 /\ ~ OpensNumber(lo)
      /\ ~ Pair(lo, "/", "/") /\ ~ Pair(lo, "/", "*")
  BY PunctuatorFirst, AheadIs
     DEF LexPunctuator, At, StartsNumber, OpensNumber, StartsLineComment, StartsBlockComment, Pair
<1>2. PunctuatorLength \in 1 .. 3 /\ q <= Size /\ Emit("punctuator", q, <<>>)
  BY PunctuatorType DEF LexPunctuator
<1>3. MM!Bytes(lo, q) \in Punctuators /\ \A n \in PunctuatorLength + 1 .. 3 : MM!Bytes(lo, lo + n) \notin Punctuators
  <2>1. /\ MM!Bytes(lo, lo + 1) = <<Byte(lo)>> /\ MM!Bytes(lo, lo + 2) = Ahead(2)
        /\ MM!Bytes(lo, lo + 3) = Ahead(3)
    BY <1>1, FewBytes, AheadIs
  <2>2. /\ MM!Bytes(lo, lo + 2) \in Punctuators => Ahead(2) \in Punctuators2
        /\ MM!Bytes(lo, lo + 3) \in Punctuators => Ahead(3) \in Punctuators3
    <3>1. lo + 2 \in Nat /\ lo + 3 \in Nat /\ lo < lo + 2 /\ lo < lo + 3
      OBVIOUS
    <3>2. lo + 2 # lo + 1 /\ lo + 2 # lo + 3 /\ lo + 3 # lo + 1
      OBVIOUS
    <3>3. MM!Bytes(lo, lo + 2) \in Punctuators => <<Byte(lo), Byte(lo + 1)>> \in Punctuators2
      BY <3>1, <3>2, PunctuatorIs
    <3>4. MM!Bytes(lo, lo + 3) \in Punctuators => <<Byte(lo), Byte(lo + 1), Byte(lo + 2)>> \in Punctuators3
      BY <3>1, <3>2, PunctuatorIs
    <3> QED
      BY <1>1, <3>3, <3>4, AheadIs
  <2>3. CASE Ahead(3) \in Punctuators3
    <3>1. PunctuatorLength = 3
      BY <2>3 DEF PunctuatorLength
    <3> QED
      BY <1>1, <2>1, <2>3, <3>1 DEF Punctuators
  <2>4. CASE Ahead(3) \notin Punctuators3 /\ Ahead(2) \in Punctuators2
    <3>1. PunctuatorLength = 2
      BY <2>4 DEF PunctuatorLength
    <3> QED
      BY <1>1, <2>1, <2>2, <2>4, <3>1 DEF Punctuators
  <2>5. CASE Ahead(3) \notin Punctuators3 /\ Ahead(2) \notin Punctuators2
    <3>1. PunctuatorLength = 1
      BY <1>1, <2>5 DEF PunctuatorLength
    <3> QED
      BY <1>1, <2>1, <2>2, <2>5, <3>1 DEF Punctuators
  <2> QED
    BY <2>3, <2>4, <2>5
<1>4. MM!Lexeme("punctuator", lo, q) /\ "punctuator" \in MM!Kinds
  BY <1>3, LexemeOf DEF MM!Kinds
<1>5. ASSUME NEW other \in MM!LexemesAt(lo) PROVE other.hi <= q
  <2>1. /\ other.kind \in MM!Kinds /\ Opens(other.kind, lo)
        /\ MM!Lexeme(other.kind, lo, other.hi) /\ other.hi \in Nat /\ lo < other.hi
    BY LexemeOpens
  <2>2. other.kind \in {"punctuator"} \cup CommentKinds \cup MM!NumeralKinds
    BY <1>1, <2>1, FirstBytes
  <2>3. ASSUME NEW k \in CommentKinds \cup MM!NumeralKinds, Opens(k, lo) PROVE FALSE
    BY <1>1, <2>3 DEF Opens, CommentKinds, MM!WordKinds, MM!NumeralKinds, Pair
  <2>4. other.kind = "punctuator"
    BY <2>1, <2>2, <2>3
  <2>5. MM!Bytes(lo, other.hi) \in Punctuators
    BY <2>1, <2>4, LexemeOf
  <2>6. PICK n \in 1 .. 3 : other.hi = lo + n
    <3>1. other.hi = lo + 1 \/ other.hi = lo + 2 \/ other.hi = lo + 3
      BY <2>1, <2>5, PunctuatorIs
    <3> QED
      BY <3>1
  <2>7. n \notin PunctuatorLength + 1 .. 3
    BY <1>3, <2>5, <2>6
  <2> QED
    BY <1>1, <1>2, <2>6, <2>7
<1>6. q \in Nat /\ lo < q
  BY <1>1, <1>2
<1> HIDE DEF q
<1>7. MM!Next
  BY <1>2, <1>4, <1>5, <1>6, MunchStep
<1> QED
  BY <1>2, <1>7, EmitKeeps DEF MunchStay

\* A character that next_token does not know begins no lexeme.
LEMMA StrayMunches ==
  ASSUME TilingInv, LexStray
  PROVE  MunchStay
<1> USE Here
<1>1. lo = pos /\ lo < Size /\ Emit("unknown", NextChar(lo), <<"E0104">>)
  BY TextType DEF LexStray, At
<1>2. /\ Byte(lo) \notin {"LF", "CR"} \cup Blanks \cup IdentStart \cup Punctuators1
      /\ Byte(lo + PrefixAt(lo)) \notin Quotes /\ ~ OpensNumber(lo)
  BY <1>1, PrefixIs, PunctuatorFirst DEF LexStray, Known, StartsLiteral, StartsNumber, OpensNumber
<1>3. {"/"} \subseteq Punctuators1 /\ {"\"", "'"} = Quotes
  BY DEF Punctuators1, Quotes
<1>4. ASSUME NEW l \in MM!LexemesAt(lo) PROVE FALSE
  <2>1. Opens(l.kind, lo)
    BY LexemeOpens
  <2> QED
    BY <1>2, <1>3, <2>1 DEF Opens
<1>5. MM!LexemesAt(lo) = {}
  BY <1>4
<1>6. MM!Next
  BY <1>1, <1>5, UnknownStep
<1> QED
  BY <1>1, <1>6, EmitKeeps DEF MunchStay

-----------------------------------------------------------------------------
(* The theorem. *)

LEMMA StutterMunches ==
  ASSUME MunchInv, UNCHANGED vars
  PROVE  MunchStay
<1>1. text' = text /\ lo' = lo /\ pos' = pos /\ doing' = doing /\ base' = base /\ isFloat' = isFloat /\ tokens' = tokens
  BY DEF vars
<1>2. doing \in LoopNames \ {"number"} => Reading(doing, lo, pos)'
  BY <1>1, SameReading DEF MunchInv
<1>3. doing = "number" => InNumber(lo, pos, base, isFloat)'
  BY <1>1, SameNumber DEF MunchInv
<1> QED
  BY <1>1, <1>2, <1>3 DEF MunchStay, MunchInv

LEMMA MunchesStep == TilingInv /\ MunchInv /\ [Next]_vars => MunchStay
<1> SUFFICES ASSUME TilingInv, MunchInv, [Next]_vars PROVE MunchStay
  OBVIOUS
<1>1. CASE NextToken
  BY <1>1, NewlineMunches, WhitespaceMunches, LineCommentMunches, BlockCommentMunches, LiteralsMunch, IdentsMunch,
     NumberBeginsMunch, PunctuatorMunches, StrayMunches DEF NextToken
<1>2. CASE Loops
  BY <1>2, WhitespaceMunches, LineCommentMunches, BlockCommentMunches, LiteralsMunch, IdentsMunch,
     NumberReadsMunch, NumberEndsMunch DEF Loops
<1>3. CASE LexEof
  BY <1>3, EofStep DEF MunchStay, MunchInv, LexEof, LoopNames
<1>4. CASE Terminating \/ UNCHANGED vars
  BY <1>4, StutterMunches DEF Terminating
<1> QED
  BY <1>1, <1>2, <1>3, <1>4 DEF Next, Lex

(***************************************************************************)
(* The lexer refines maximal munch: whatever the text, each step of its    *)
(* loops leaves the tokens alone or adds the longest lexeme that begins    *)
(* where the last one ended, of the kind it is said to be, an unknown      *)
(* character only where no lexeme begins, and the end of the file at the   *)
(* end of the text (next_token and the loops it runs).                     *)
(***************************************************************************)
THEOREM ImplementsMaximalMunch == Spec => MM!Safety
<1>1. Init => TilingInv /\ MunchInv /\ MM!Init
  BY InitTiles DEF Init, MunchInv, LoopNames, MM!Init
<1>2. (TilingInv /\ MunchInv) /\ [Next]_vars => (TilingInv /\ MunchInv)' /\ [MM!Next]_<<text, tokens>>
  BY TilesStep, MunchesStep DEF MunchStay
<1> QED
  BY <1>1, <1>2, PTL DEF Spec, MM!Safety
=============================================================================
