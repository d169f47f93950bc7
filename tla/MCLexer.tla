------------------------------- MODULE MCLexer -------------------------------
(***************************************************************************)
(* Texts for the lexer: every text of up to three bytes over the bytes its *)
(* tests tell apart, and longer ones over the bytes of literals, of        *)
(* comments and lines, of numbers and of punctuators.                      *)
(***************************************************************************)
EXTENDS LexMeaning

Eacute == <<"C3", "A9">>
Euro == <<"E2", "82", "AC">>
Char(c) == CASE c = "e'" -> Eacute [] c = "EUR" -> Euro [] OTHER -> <<c>>

Spell(cs) == FlattenSeq([i \in DOMAIN cs |-> Char(cs[i])])
Upto(n, set) == {Spell(cs) : cs \in UNION {[1 .. k -> set] : k \in 0 .. n}}

Most ==
  {"LF", "CR", " ", "/", "*", "\"", "'", "\\", "u", "8", "0", "e", ".", "+", ">", "=", "$", "e'"}

Others ==
  {"(", "!", "|", ":", "%", "^", "~", "?", "=", "P", "X", "B", "TAB", "E", "-", "<", "&", "#", "L", "U", "_",
   "i", "f", "x", "1"}

MCTexts ==
  Upto(3, Most)
    \cup Upto(5, {"\"", "\\", "LF", "CR", "e'"})
    \cup {<<"u", "8">> \o t : t \in Upto(3, {"\"", "'", "\\", "LF", "EUR"})}
    \cup {<<"/", "*">> \o t : t \in Upto(4, {"*", "/", "LF", "CR", "e'"})}
    \cup {<<"/", "/">> \o t : t \in Upto(3, {"/", "\\", "LF", "CR", "e'"})}
    \cup {<<"0">> \o t : t \in Upto(4, {"x", "e", "p", "+", ".", "'"})}
    \cup {<<d, "b">> \o t : d \in {"0", "1"}, t \in Upto(3, {"1", "8", "e", "-", "."})}
    \cup Upto(4, {">", "<", "=", "-", "."})
    \cup Upto(2, Others)
    \cup {<<"i", "f">> \o t : t \in Upto(1, Most)}
=============================================================================
