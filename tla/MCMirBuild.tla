----------------------------- MODULE MCMirBuild -----------------------------
(***************************************************************************)
(* Functions for the MIR builder.  The symbols f, g and ask are functions: *)
(* `ask()` and `f(n)` return an int and `g(n)` returns nothing.            *)
(***************************************************************************)
EXTENDS MirMeaning, HirParts

MCFunctions == {"f", "g", "ask"}

-----------------------------------------------------------------------------
(* Expressions. *)

E(k, what, args) == [k |-> k, what |-> what, args |-> args, own |-> FALSE]
Num(n) == E("const", Number(n), <<>>)
Ref(x) == E("ref", x, <<>>)
X == Ref("x")
Y == Ref("y")

Ask == E("call", "value", <<Ref("ask")>>)
F(e) == E("call", "value", <<Ref("f"), e>>)
G(e) == E("call", "void", <<Ref("g"), e>>)
Un(op, e) == E("unary", op, <<e>>)
Bin(op, a, b) == E("binary", op, <<a, b>>)
Set(l, e) == E("assign", "=", <<l, e>>)
AddTo(l, e) == E("assign", "add", <<l, e>>)
Comma(a, b) == E("comma", "", <<a, b>>)
Cond(c, a, b) == E("ternary", "", <<c, a, b>>)
AndAlso(a, b) == E("logical", "and", <<a, b>>)
OrElse(a, b) == E("logical", "or", <<a, b>>)
Deref1(e) == E("deref", "", <<e>>)
AddrOf(e) == E("addr_of", "", <<e>>)
Index(a, i) == E("index", "", <<a, i>>)
Pre(op, e) == E("pre", op, <<e>>)
Post(op, e) == E("post", op, <<e>>)

-----------------------------------------------------------------------------
(* Statements. *)

Do(e) == [k |-> "expr", e |-> e]
Compound(ss) == [k |-> "compound", body |-> ss]
Declare(x, init) == [sym |-> x, own |-> FALSE, init |-> init]
Decls(ds) == [k |-> "decl", ds |-> ds]
If(c, s, else) == [k |-> "if", c |-> c, then |-> s, else |-> else]
While(c, s) == [k |-> "while", c |-> c, body |-> s]
DoWhile(s, c) == [k |-> "do_while", c |-> c, body |-> s]
For(init, cond, step, s) ==
  [k |-> "for", init |-> init, cond |-> cond, step |-> step, body |-> s]
Ret(e) == [k |-> "return", value |-> <<e>>]
ReturnVoid == [k |-> "return", value |-> <<>>]
Break == [k |-> "break"]
Continue == [k |-> "continue"]
Empty == [k |-> "empty"]

\* int h(int y) { ss }
Function(ss) == [params |-> <<[sym |-> "y", own |-> FALSE]>>, own |-> FALSE, body |-> ss]

-----------------------------------------------------------------------------
(* Programs. *)

\* Every kind of expression, with calls to see the order of evaluation.
Expressions ==
  {Num(1), F(X), Un("neg", F(Y)), Bin("sub", F(X), Ask), Cond(Ask, Post("add", X), F(X)),
   Comma(G(X), Ask), Pre("sub", X), Post("add", X), Set(X, Set(Y, F(X))), AddTo(X, F(X)),
   E("plus", "", <<F(X)>>), Cond(Cond(Ask, X, Ask), Comma(G(Y), X), Y),
   Set(Deref1(AddrOf(X)), F(X)), Post("sub", Deref1(Comma(G(X), AddrOf(Y)))),
   AddTo(Index(AddrOf(X), Comma(G(Y), Num(0))), Ask),
   F(Cond(Ask, F(X), Y))}

\* int x = y; g(e); if (e2) ...; return x;
ExpressionPrograms ==
  {Function(<<Decls(<<Declare("x", <<Y>>)>>), Do(G(e)), Do(G(X)), Ret(e2)>>) :
     e, e2 \in Expressions}

\* What the arm of an if or the body of a loop does.  Every declaration has its
\* own symbol: the ones here are named by z and w.
Simple(z, w) ==
  {Empty, Do(G(X)), Do(Post("add", X)), Break, Continue, Ret(X),
   Compound(<<Decls(<<Declare(z, <<Ask>>), Declare(w, <<>>)>>), Do(G(Ref(z)))>>)}

\* A conditional jump out, and what follows it.
Bodies ==
  {Compound(<<If(Ask, s, <<>>), Do(Post("add", X)), Do(G(X))>>) : s \in Simple("z", "w")}
  \cup {If(Ask, s, <<t>>) : s \in Simple("z", "w"), t \in Simple("z2", "w2")}
  \cup {Compound(<<s, Do(G(Num(7)))>>) : s \in {Break, Continue, Ret(X)}}

Loops(s, i) ==
  {While(Ask, s), DoWhile(s, Ask), For(<<>>, <<Ask>>, <<Post("add", X)>>, s),
   For(<<Decls(<<Declare(i, <<Ask>>)>>)>>, <<Ref(i)>>, <<Set(Ref(i), Ask)>>, s),
   For(<<Do(Set(X, Num(5)))>>, <<>>, <<>>, Compound(<<If(Ask, Empty, <<Break>>), s>>)),
   While(Cond(Ask, Ask, Num(0)), s)}

LoopPrograms ==
  {Function(<<Decls(<<Declare("x", <<Num(3)>>)>>), l, Do(G(X)), Ret(X)>>) :
     l \in UNION {Loops(s, "i") : s \in Bodies}}

\* A loop in a loop: jumps belong to the inner one, then to the outer one.
NestedPrograms ==
  {Function(<<Decls(<<Declare("x", <<Num(3)>>)>>),
              l, If(Ask, Ret(X), <<ReturnVoid>>), Do(G(Num(9)))>>) :
     l \in UNION {Loops(Compound(<<inner, If(Ask, jump, <<>>), Do(G(X))>>), "i") :
                    inner \in UNION {Loops(If(Ask, s, <<>>), "j") : s \in {Break, Continue, Ret(X)}},
                    jump \in {Break, Continue}}}

\* && and || where the value does not matter, as the condition of a statement and
\* in a value returned.
LogicWithoutValuePrograms ==
  {Function(<<Decls(<<Declare("x", <<Y>>)>>), s, Ret(Comma(logic, X))>>) :
     logic \in {AndAlso(Ask, F(X)), OrElse(F(X), Cond(Ask, Ask, X))},
     s \in {If(OrElse(AndAlso(Ask, F(X)), Num(1)), Do(G(Ask)), <<>>),
            While(AndAlso(Ask, Comma(F(X), Num(0))), Empty)}}

\* Programs whose lowering panics, as no place is found.
GlobalPrograms == {Function(<<Do(G(Y)), Do(Set(Ref("global"), Y))>>)}

MCPrograms == ExpressionPrograms \cup LoopPrograms \cup NestedPrograms \cup GlobalPrograms
               \cup LogicWithoutValuePrograms

\* return ask() && ask();
LogicPrograms == {Function(<<Ret(AndAlso(Ask, Ask))>>)}

\* What the called functions answer, 0 when these are used up.
MCAnswers == [1 .. 5 -> {0, 1}] \cup {<<1, 1, 0, 1, 1, 1, 0, 1>>, <<1, 1, 1, 1, 1, 1, 1, 0>>}

MCHirStmt == StmtsOf(MCPrograms)
MCHirExpr == ExprsOf(MCPrograms)
LogicHirStmt == StmtsOf(LogicPrograms)
LogicHirExpr == ExprsOf(LogicPrograms)
=============================================================================
