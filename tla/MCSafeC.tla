------------------------------ MODULE MCSafeC -------------------------------
(***************************************************************************)
(* The functions of MCMirBuild, and functions with owners: everything that *)
(* can be done with up to three of them in a few statements.               *)
(***************************************************************************)
EXTENDS OwnerMeaning, MCMirBuild

-----------------------------------------------------------------------------
(* HIR.                                                                       *)

Own(e) == [e EXCEPT !.own = TRUE]
P == Own(Ref("p"))
Q == Own(Ref("q"))
R == Own(Ref("r"))

Malloc == Own(Ask)
F2(d, e) == E("call", "void", <<Ref("f"), d, e>>)
Decay(e) == E("cast", "decay", <<e>>)
OwnerDecl(x, init) == Decls(<<[sym |-> x, own |-> TRUE, init |-> init]>>)

\* owner h(int y, owner p) { owner r; owner q = malloc(); ss }
OwnerFunction(ss) ==
  [params |-> <<[sym |-> "y", own |-> FALSE], [sym |-> "p", own |-> TRUE]>>, own |-> TRUE,
   body |-> <<OwnerDecl("r", <<>>), OwnerDecl("q", <<Malloc>>)>> \o ss]

-----------------------------------------------------------------------------
(* Functions that give their owners away.                                     *)

Transfers ==
  {Do(F(P)), Do(Own(Set(Q, P))), Do(Own(Set(P, Malloc))), Ret(Q), Do(F2(P, Q)), Do(F(Deref1(P))),
   Do(AndAlso(Ask, F(Q)))}

Jumps == {Break, Continue, Ret(P)}

Branches ==
  {If(Ask, s, <<>>) : s \in Transfers} \cup {If(Ask, s, <<t>>) : s, t \in Transfers}
    \cup {Do(F(Own(Cond(Ask, P, Q)))), Do(Own(Set(R, Own(Cond(F(P), Q, R)))))}

TransferLoops ==
  UNION {{While(Ask, b), DoWhile(b, Ask), For(<<Do(Own(Set(R, P)))>>, <<Ask>>, <<Set(Y, F(R))>>, b),
          For(<<>>, <<>>, <<>>, b)} :
           b \in {Compound(<<s, If(Ask, j, <<t>>)>>) :
                    s \in {Do(F(P)), Do(Own(Set(P, Q)))}, j \in Jumps,
                    t \in {Do(Own(Set(P, Malloc))), OwnerDecl("z", <<P>>)}}}

TransferPrograms ==
  {OwnerFunction(<<s, t, u>>) : s, t \in Transfers, u \in {Do(F(P)), Ret(Q), Do(Own(Set(Q, P)))}}
    \cup {OwnerFunction(<<s, t, Do(F(P)), Do(F(Q))>>) : s \in Branches \cup TransferLoops, t \in Branches}
    \cup {OwnerFunction(<<If(Ask, Compound(<<s, ReturnVoid>>), <<t>>), Do(F(P))>>) : s, t \in Transfers}

-----------------------------------------------------------------------------
(* Functions that do other things with them too.                              *)

Odd ==
  {P, Deref1(P), Set(Deref1(P), Y), AddrOf(P), F(AddrOf(Bin("add", P, Y))), Bin("eq", P, Q),
   Own(Post("add", P)), Own(Pre("sub", P)), AddTo(Index(P, Y), Deref1(P)),
   Post("add", Index(Decay(Y), F(P))), Deref1(F(P)),
   Own(Set(Q, Own(Set(R, P)))), Comma(P, Y), E("plus", "", <<P>>), Un("not", P),
   F(Ref("global"))}

\* Nothing is found to write to: a global, an array that decays, and what the type
\* checker has refused to assign to, before the driver builds it all the same.
WithoutPlace ==
  {Set(Ref("global"), Num(1)), Post("add", Ref("global")), Post("add", Decay(Y)), Pre("sub", Decay(Y)),
   Set(Num(1), Num(2)), Set(F(P), Y), Pre("add", Num(1))}

OddPrograms ==
  {OwnerFunction(<<Do(e), s, Do(F(P))>>) :
     e \in Odd \cup WithoutPlace \cup {OrElse(Ask, x) : x \in Odd},
     s \in {Empty, While(P, Do(Y)), If(P, Do(F(P)), <<>>)}}
    \cup {OwnerFunction(<<If(AndAlso(a, b), Ret(P), <<Do(a)>>)>>) : a, b \in Odd}

SafePrograms == MCPrograms \cup TransferPrograms \cup OddPrograms

\* if (p) f(p);
NullCheckPrograms == {OwnerFunction(<<If(P, Do(F(P)), <<>>)>>)}

\* TLC evaluates the definition that stands for a constant at every use of the
\* constant, but the definitions that one refers to only once.
StmtsOfAll == StmtsOf(SafePrograms)
ExprsOfAll == ExprsOf(SafePrograms)
SafeHirStmt == StmtsOfAll
SafeHirExpr == ExprsOfAll
NullCheckHirStmt == StmtsOf(NullCheckPrograms)
NullCheckHirExpr == ExprsOf(NullCheckPrograms)
=============================================================================
