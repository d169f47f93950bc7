------------------------------ MODULE MCParser ------------------------------
(***************************************************************************)
(* Token lists for the parser: the text of every small expression,         *)
(* statement and declaration, lists that are like them but for one token,  *)
(* every short list over the tokens that matter to the recovery, and lists *)
(* whose tokens are of two files.                                          *)
(***************************************************************************)
EXTENDS ParseMeaning

-----------------------------------------------------------------------------
(* Tokens.                                                                    *)

Names == {"x", "y", "f", "unsafe", "sc", "owner", "borrow", "lifetime"}

Token(w) ==
  IF w \in Names THEN [k |-> "ident", text |-> w, file |-> 1]
  ELSE IF w \in {"1", "2"} THEN [k |-> "int_lit", text |-> w, file |-> 1]
  ELSE [k |-> w, text |-> "", file |-> 1]

Line(ws) == [i \in DOMAIN ws |-> Token(ws[i])]
File(ts) == Append(ts, Token("eof"))
InFn(ts) == Line(<<"int", "f", "(", "void", ")", "{">>) \o ts \o Line(<<"}">>)
Stmt(ts) == File(InFn(ts))

-----------------------------------------------------------------------------
(* Expressions, as token lists: all operators, below and beside each other.   *)

X == <<"x">>
One == <<"1">>
Bin(op, a, b) == a \o <<op>> \o b
BinOps ==
  {"||", "&&", "|", "^", "&", "==", "!=", "<", ">", "<=", ">=", "<<", ">>", "+", "-", "*", "/", "%"}

Unaries ==
  {<<op>> \o X : op \in DOMAIN UnaryOps} \cup {<<"sizeof">> \o X}
Casts == {<<"(", "int", ")">> \o X, <<"(", "unsigned", "const", "*", "const", "*", ")">> \o X}
Postfixes ==
  {X \o <<"++">>, X \o <<"--">>, X \o <<"[", "1", "]">>, X \o <<".", "y">>, X \o <<"->", "y">>,
   X \o <<"(", ")">>, X \o <<"(", "1", ",", "y", ")">>, <<"(", "x", ")">>}
Looser == {<<"x", "?", "1", ":", "2">>, <<"x", "=", "y">>, <<"x", "+=", "1">>, <<"x", ",", "y">>}

Exprs ==
  {Bin(p, X, Bin(q, One, <<"y">>)) : p \in BinOps, q \in BinOps}
    \cup Looser \cup Postfixes
    \cup {<<op>> \o e : op \in {"-", "*", "sizeof", "++"}, e \in Unaries \cup Postfixes}
    \cup Casts \cup {<<op>> \o e : op \in {"-", "*"}, e \in Casts}
    \cup {Bin("*", u, v) : u \in Unaries \cup Postfixes \cup Looser, v \in Unaries \cup Postfixes \cup Looser}
    \cup {Bin(op, u, v) : op \in {",", "="}, u \in Looser, v \in Looser}
    \cup {Bin("?", u, Bin(":", v, w)) : u \in Looser, v \in Looser, w \in Looser}
    \cup {u \o p : u \in Postfixes, p \in {<<"++">>, <<"[", "x", ",", "1", "]">>, <<"(", "x", ")">>}}
    \cup {<<"(">> \o <<"(", "int", ")", "x">> \o <<")">> \o <<"(", "1", ")">>}

Statements ==
  LET S == {<<";">>, <<"x", ";">>, <<"{", "}">>, <<"int", "x", ";">>}
      Cond == <<"(", "x", ")">>
      Ifs == {<<"if">> \o Cond \o s : s \in S} \cup {<<"if">> \o Cond \o <<"x", ";", "else">> \o s : s \in S}
  IN S \cup Ifs
       \cup {<<"if">> \o Cond \o i : i \in Ifs}
       \cup {<<"if">> \o Cond \o i \o <<"else", ";">> : i \in Ifs}
       \cup {<<"while">> \o Cond \o s : s \in S \cup Ifs}
       \cup {<<"do">> \o s \o <<"while">> \o Cond \o <<";">> : s \in S \cup Ifs}
       \cup {<<"for", "(">> \o i \o c \o <<";">> \o e \o <<")">> \o s :
               i \in {<<";">>, <<"x", ";">>, <<"int", "x", "=", "1", ",", "y", ";">>},
               c \in {<<>>, <<"x">>}, e \in {<<>>, <<"x", ",", "y">>}, s \in {<<";">>, <<"break", ";">>}}
       \cup {<<"return", ";">>, <<"return", "x", ";">>, <<"continue", ";">>, <<"unsafe", "{", ";", "}">>,
             <<"unsafe", "(", ")", ";">>, <<"{", "{", "x", ";", "}", "{", "}", "}">>}

Owned == <<"[", "[", "sc", "::", "owner", "]", "]">>
Odd == <<"[", "[", "sc", "::", "lifetime", "(", "(", "1", ")", ")", ",", "x", "]", "]">>

SpecRuns ==
  {<<"void">>, <<"_Bool">>, <<"char">>, <<"signed", "char">>, <<"char", "unsigned">>, <<"short">>,
   <<"short", "unsigned", "int">>, <<"signed">>, <<"unsigned">>, <<"long">>, <<"int", "long">>,
   <<"long", "unsigned">>, <<"long", "int", "long">>, <<"long", "long", "unsigned", "int">>,
   <<"float">>, <<"double">>, <<"double", "long">>, <<"const", "int", "volatile">>,
   <<"static", "int">>, <<"extern", "inline", "const">>}

Declarations ==
  {r \o <<"x", ";">> : r \in SpecRuns \ {<<"_Bool">>}}
    \cup {r \o <<"f", "(">> \o p \o <<")">> \o b :
            r \in {<<"int">>, <<"static", "void", "*">>}, b \in {<<";">>, <<"{", "}">>},
            p \in {<<>>, <<"void">>, <<"int">>, <<"int", "x", ",", "char", "*", "const", "y">>,
                   <<"int", "x", ",", "...">>, <<"...">>, <<"int", "x", "[", "]">>,
                   <<"void", "*", "x">>, Owned \o <<"int", "*", "x">>}}
    \cup {<<"int">> \o d \o <<";">> :
            d \in {<<"x", "=", "1">>, <<"x", ",", "y">>, <<"*", "x", ",", "y", "=", "1", ",", "*", "*", "f">>,
                   <<"x", "[", "1", "]">>, <<"x", "[", "]">>, <<"x", "[", "1", "]", "[", "2", "]">>, <<"*", "const", "volatile", "x", "[", "1", "+", "2", "]">>,
                   <<"x", "=", "y", "=", "1">>, <<"*">> \o Owned \o <<"x">>,
                   <<"*", "const">> \o Owned \o <<"x">>,
                   <<"*">> \o Odd \o <<"x">>}}
    \cup {Owned \o <<"int", "*", "x", ";">>, Owned \o <<"const", "int", "*", "*", "const", "x", ";">>,
          Odd \o <<"int", "*", "x", ";">>, Odd \o Owned \o <<"int", "*", "x", ";">>,
          Owned \o <<"int", "x", ";">>, <<"static">> \o Owned \o <<"int", "*", "f", "(", ")", ";">>}

-----------------------------------------------------------------------------
(* Lists with errors.                                                         *)

Bases ==
  {<<"int", "x", "=", "1", "+", "2", ",", "*", "y", "[", "1", "]", ";", "int", "f", "(", ")", "{", "}">>,
   <<"void", "f", "(", "int", "x", ",", "...", ")", "{", "x", ";", "{", "f", "(", "x", ",", "1", ")", ";", "}", "}",
     "int", "y", ";">>,
   <<"int", "f", "(", ")", "{", "if", "(", "x", ")", "{", "return", "1", ";", "}", "else", "x", "=", "2", ";", "y", ";",
     "}", "int", "x", "(", ")", "{", "}">>,
   <<"int", "f", "(", ")", "{", "for", "(", "int", "x", "=", "1", ";", "x", ";", ")", "do", "y", ";", "while", "(", "x",
     ")", ";", "(", "int", "*", ")", "x", ";", "}", "int", "y", ";">>}

Odds == {";", "{", "}", "(", ")", ",", "x", "int", "else", "+"}

Broken ==
  UNION {{RemoveAt(b, i) : i \in DOMAIN b}
           \cup {SubSeq(b, 1, i) : i \in DOMAIN b}
           \cup {ReplaceAt(b, i, w) : i \in DOMAIN b, w \in Odds}
           \cup {InsertAt(b, i, w) : i \in DOMAIN b, w \in {";", "{", "}", "(", "x"}} : b \in Bases}

Short ==
  UNION {[1 .. n -> {"int", "x", ";", "{", "}", "(", ")"}] : n \in 0 .. 3}
    \cup {<<"short", "short", "x", ";">>, <<"int", "void", "x", ";">>, <<"f", "(", "short", "short", ")", "{", "}">>,
          <<"int", "x", "[", "+", "]", ";", "int", "y", ";">>, <<"int", "x", "[", "1", ";">>, <<"[", "[">>,
          <<"int", "x", ";", "[", "[", "sc", "::", "x", "(", "int", "y", ";">>}

InBraces == [1 .. 3 -> {"x", ";", "{", "}", "int", "if", "("}]

\* Where each token of a statement is of one of two files.
Boundary == {<<"f", "(", "x", ",", "1", ")", ";">>, <<"-", "x", "+", "y", ";">>, <<"{", "x", ";", "}">>,
         <<"x", "=", "y", ";", "1", ";">>}
InTwoFiles(ts) ==
  {[i \in DOMAIN ts |-> [ts[i] EXCEPT !.file = IF i \in m .. n THEN 2 ELSE 1]] : m \in 7 .. Len(ts) - 2, n \in 7 .. Len(ts) - 2}

-----------------------------------------------------------------------------

\* sizeof of the name of a type; the last one is the declaration in README.md:46.
TypeSizes ==
  {Stmt(Line(ws)) :
     ws \in {<<"sizeof", "(", "int", ")", ";">>,
             <<"x", "=", "sizeof", "(", "int", ")", "*", "y", ";">>,
             <<"f", "(", "x", ",", "sizeof", "(", "char", "*", ")", ")", ";">>,
             Owned \o <<"int", "*", "x", "=", "f", "(", "sizeof", "(", "int", ")", ")", ";">>}}

Grammatical ==
  {File(Line(d)) : d \in Declarations}
    \cup {Stmt(Line(e \o <<";">>)) : e \in Exprs} \cup {Stmt(Line(s)) : s \in Statements}
    \cup TypeSizes

MCTexts ==
  Grammatical
    \cup {File(Line(b)) : b \in Broken \cup Short}
    \cup {Stmt(Line(b)) : b \in InBraces}
    \cup UNION {InTwoFiles(Stmt(Line(e))) : e \in Boundary}

IsAccepted == diagnostics = <<>> /\ ~RanPastEof

\* What the grammar has is accepted, whatever of it stands beside what or in what:
\* all of it that the parser is for (lib.rs:5 says what it leaves out) but sizeof
\* of a type and initialisers in braces.
GrammaticalIsAccepted ==
  Finished /\ tokens \in Grammatical \ TypeSizes => IsAccepted

-----------------------------------------------------------------------------
(* What the repository says, and the code does not do.                        *)

\* The program in README.md:46 (and in borrowck lib.rs:9), which is to give an
\* error of the borrow checker, allocates malloc(sizeof(int)): the parser accepts
\* sizeof of a type.
TypeSizesAreAccepted == Finished /\ tokens \in TypeSizes => IsAccepted
=============================================================================
