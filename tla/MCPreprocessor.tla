--------------------------- MODULE MCPreprocessor ---------------------------
(***************************************************************************)
(* Small source trees for the preprocessor: d/main.c, d/a.h, d/b.h and     *)
(* sys/a.h.                                                                *)
(***************************************************************************)
EXTENDS PpMeaning

MCIdent == {"A", "B", "C", "D", "E"}
MCToken == MCIdent \cup {"1", "2"}

\* -D 'C=A /* not closed'
MCUserDefines == <<[name |-> "C", body |-> <<"A">>, lex_errors |-> 1]>>
MCIncludePaths == <<<<"sys">>, <<"none">>>>

Text(toks) == [k |-> "text", toks |-> toks]
Quoted(h) == [k |-> "include", header |-> h, system |-> FALSE]
Angled(h) == [k |-> "include", header |-> h, system |-> TRUE]
Def(n, body) == [k |-> "define", name |-> n, body |-> body]
Undef(n) == [k |-> "undef", name |-> n]
Bad(code) == [k |-> "bad", code |-> code]
Null == [k |-> "null"]
File(lines) == [lines |-> lines, lex_errors |-> 0]

MainC == <<"d", "main.c">>
AH == <<"d", "a.h">>
BH == <<"d", "b.h">>
SysAH == <<"sys", "a.h">>

Uses == Text(<<"A", "1", "B", "C">>)

MainLines ==
  {Uses, Quoted(<<"a.h">>), Quoted(<<"b.h">>), Angled(<<"a.h">>), Angled(<<"b.h">>),
   Def("A", <<"B", "2", "B">>), Undef("B")}

AFiles ==
  {File(<<Def("A", <<"A", "1">>), Uses>>), File(<<Quoted(<<"b.h">>), Undef("A")>>),
   File(<<Quoted(<<"main.c">>), Def("B", <<"A", "C">>)>>),
   File(<<Angled(<<"a.h">>), Quoted(<<"..", "sys", "a.h">>)>>)}

BFiles ==
  {File(<<Def("B", <<"C", "2">>)>>), File(<<Quoted(<<"a.h">>), Uses>>),
   [File(<<Null, Bad("E0201"), Quoted(<<"..", "sys", "a.h">>)>>) EXCEPT !.lex_errors = 1],
   Unreadable}

TreeDisks ==
  {(MainC :> File(<<l1, l2, l3, Uses>>)) @@ (AH :> a) @@ (BH :> b)
   @@ (SysAH :> File(<<Def("A", <<"2">>), Quoted(<<"b.h">>)>>)) :
     l1, l2 \in MainLines, l3 \in {Uses, Undef("B"), Quoted(<<"a.h">>)},
     a \in AFiles, b \in BFiles}

MCRoots == {MainC}

\* Chains of macros around the depth limit of the run, which end in a literal, in
\* an identifier, or in both, one before the limit, at it or beyond it.
ChainDisks ==
  {(MainC :> File(<<Def("A", a), Def("B", b), Def("C", c), Def("D", d), Def("E", <<"1">>),
                    Uses>>)) :
     a, b, c \in {<<"1">>, <<"A", "B">>, <<"B", "C">>, <<"C", "D", "2">>},
     d \in {<<"A">>, <<"E", "2">>}}

MCDisks == TreeDisks \cup ChainDisks

=============================================================================
