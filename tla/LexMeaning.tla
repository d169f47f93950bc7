----------------------------- MODULE LexMeaning -----------------------------
(***************************************************************************)
(* What the tokens of the lexer mean, and where a diagnostic about one of  *)
(* them is shown.                                                          *)
(***************************************************************************)
EXTENDS Lexer

Token == Range(tokens)
Codes ==
  [unknown |-> {"E0104"}, block_comment |-> {"E0103"}, string_literal |-> {"E0101"},
   char_literal |-> {"E0102"}]
IsAbout(d, t) == d.lo = t.lo /\ d.hi = t.hi /\ t.kind \in DOMAIN Codes /\ d.code \in Codes[t.kind]

\* Where the first i tokens end.
End(i) == IF i = 0 THEN 0 ELSE tokens[i].hi

(***************************************************************************)
(* The tokens read so far tile the text up to the one that is being read:  *)
(* each begins where the one before it ends, is not empty, and ends        *)
(* between two characters.  A diagnostic is about one of the tokens, at    *)
(* most one per token, in their order, and every unknown token has one.    *)
(* The lexer promises a token for every byte it consumes, and the parser   *)
(* and the renderer slice the text at those offsets, which panics inside   *)
(* a character.                                                            *)
(***************************************************************************)
TokensTile ==
  /\ \A i \in DOMAIN tokens :
       /\ tokens[i].lo = End(i - 1)
       /\ tokens[i].kind # "eof" => tokens[i].lo < tokens[i].hi
       /\ tokens[i].kind = "eof" <=> doing = "done" /\ i = Len(tokens)
       /\ tokens[i].kind = "unknown" => \E j \in DOMAIN diagnostics : IsAbout(diagnostics[j], tokens[i])
  /\ \A i \in 0 .. Len(tokens) : IsBoundary(End(i))
  /\ lo = End(Len(tokens)) /\ lo <= pos /\ pos <= Size /\ IsBoundary(pos)
  /\ doing = "done" => lo = Size
  /\ \A j \in DOMAIN diagnostics : \E i \in DOMAIN tokens : IsAbout(diagnostics[j], tokens[i])
  /\ \A j, k \in DOMAIN diagnostics : j < k => diagnostics[j].hi <= diagnostics[k].lo

-----------------------------------------------------------------------------
(* Lines, said without a scan: a line ends after an LF, and after a CR that   *)
(* no LF follows.                                                             *)

LineEndsAt(p) ==
  p > 0 /\ (Byte(p - 1) = "LF" \/ (Byte(p - 1) = "CR" /\ Byte(p) # "LF"))

Starts == {0} \cup {p \in 1 .. Size : LineEndsAt(p)}

Multiline == {"block_comment", "string_literal", "char_literal"}
EndsLine(t, p) == (t.kind = "newline" /\ t.hi = p) \/ (t.kind \in Multiline /\ t.lo < p /\ p <= t.hi)

LineStart(p) == Max({s \in Starts : s <= p})

\* The text of the line that begins at s is what comes before its LF or CR.
LineEnd(s) == Min({Size} \cup {q \in s .. Size - 1 : Byte(q) \in {"LF", "CR"}})

(***************************************************************************)
(* The preprocessor takes lines from Newline tokens, a diagnostic from the *)
(* line table: they are the same lines.  A Newline token ends where a line *)
(* ends, and every other line end is inside a block comment or a literal   *)
(* (a backslash before it, or a lone CR).                                  *)
(***************************************************************************)
NewlinesAreLines ==
  /\ \A t \in Token : t.kind = "newline" => LineEndsAt(t.hi)
  /\ \A p \in 1 .. lo : LineEndsAt(p) => \E t \in Token : EndsLine(t, p)

(***************************************************************************)
(* A diagnostic about a token names the line and the column, in            *)
(* characters, where the token begins, shows the text of that line without *)
(* its end, and marks those characters of the token that are on the line,  *)
(* at least one mark, from that column on.                                 *)
(***************************************************************************)
Labelled(starts, t) ==
  LET at == LineCol(starts, t.lo)
      start == LineStart(t.lo)
      end == LineEnd(start)
      marked == CharsIn(t.lo, Min({t.hi, end}))
  IN /\ at.line = Cardinality({s \in Starts : s <= t.lo})
     /\ at.column = 1 + CharsIn(start, t.lo)
     /\ LineRange(starts, at.line) = [lo |-> start, hi |-> end]
     /\ CaretFor(starts, t, at.line) = [lead |-> at.column - 1, width |-> Max({marked, 1})]

LabelsAreWhereTheyPoint ==
  doing = "done" => LET starts == ComputeLineStarts IN \A t \in Token : Labelled(starts, t)

-----------------------------------------------------------------------------
(* The lexer is an implementation of MaximalMunch: the rounds of its loops    *)
(* are stuttering steps, the last of them adds the lexeme.                    *)

Punctuators == Punctuators3 \cup Punctuators2 \cup {<<b>> : b \in Punctuators1}

MM == INSTANCE MaximalMunch WITH lexemes <- tokens

\* Every token is the longest lexeme there is, of the kind it is taken for, and
\* the whole text is cut: no loop of the lexer runs forever.
IsMaximalMunch == MM!Spec
=============================================================================
