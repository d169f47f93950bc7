---------------------------- MODULE MCTypeCheck ----------------------------
(***************************************************************************)
(* Modules for the type checker: one expression over globals of every      *)
(* sort of type, bodies with scopes and jumps, and sequences of items.     *)
(***************************************************************************)
EXTENDS TcMeaning

-----------------------------------------------------------------------------
(* Written types.                                                             *)

W(base) == [base |-> base, layers |-> <<>>]
Ptr(w, own) == [w EXCEPT !.layers = <<[k |-> "pointer", attr |-> own]>> \o @]
Arr(w, size) == [w EXCEPT !.layers = <<[k |-> "array", attr |-> size]>> \o @]

WInt == W("int")
WVoid == W("void")

(* Expressions.                                                               *)

E(k, what, args) == N(k, what, args, NoType)
Id(x) == E("ident", x, <<>>)
Lit(suffix) == E("int_lit", suffix, <<>>)
One == Lit("none")
Un(op, e) == E("unary", op, <<e>>)
Bin(op, a, b) == E("binary", op, <<a, b>>)
Set(op, a, b) == E("assign", op, <<a, b>>)
Call(f, args) == E("call", "", <<f>> \o args)
At(a, i) == E("index", "", <<a, i>>)
Cast(w, e) == N("cast", "", <<e>>, w)
Member(e) == E("member", "", <<e>>)

(* Statements and items.                                                      *)

Do(e) == E("expr", "", <<e>>)
Block(ss) == E("block", "", ss)
Unsafe(ss) == E("unsafe", "", ss)
Var(x, w, init) == N("var", x, init, w)
Decl(x, init) == E("decl", "", <<Var(x, WInt, init)>>)
If(c, s) == E("if", "", <<c, s>>)
IfElse(c, s, t) == E("if", "", <<c, s, t>>)
While(c, s) == E("while", "", <<c, s>>)
DoWhile(s, c) == E("do", "", <<s, c>>)
For(init, cond, step, s) == E("for", "", <<init, cond, step, s>>)
Return(v) == E("return", "", v)
Break == E("break", "", <<>>)
Continue == E("continue", "", <<>>)

Fn(name, ret, params, arity, body) ==
  N("fn", name, <<E("params", "", params)>> \o body, [ret |-> ret, arity |-> arity])
Proto(name, ret, params, arity) == Fn(name, ret, params, arity, <<>>)
Main(ss) == Fn("main", WInt, <<>>, "fixed", <<Block(ss)>>)
Param(x, w) == Var(x, w, <<>>)

-----------------------------------------------------------------------------
(* One expression.  Each of these names is declared if it is used; z is not.  *)

Globals ==
  {Var("i", WInt, <<>>), Var("c", W("char"), <<>>), Var("u", W("uint"), <<>>),
   Var("l", W("long"), <<>>), Var("d", W("double"), <<>>),
   Var("p", Ptr(WInt, "raw"), <<>>), Var("o", Ptr(WInt, "owner"), <<>>),
   Var("v", Ptr(WVoid, "raw"), <<>>), Var("a", Arr(WInt, "3"), <<>>),
   Proto("f", WInt, <<Param("", WInt)>>, "fixed"),
   Proto("g", WVoid, <<>>, "fixed"),
   Proto("h", WInt, <<Param("", Ptr(W("char"), "raw"))>>, "variadic")}

NamesIn(e) == {Nodes(<<e>>)[i].n.what : i \in Range(Places(Nodes(<<e>>), {"ident"}))}

\* The items in either order: a body may use what is declared after it.
UsesOf(names) == SetToSeq({g \in Globals : g.what \in names})
With(s) == {UsesOf(NamesIn(s)) \o <<Main(<<s>>)>>, <<Main(<<s>>)>> \o UsesOf(NamesIn(s))}

Leaves == {Id(x) : x \in {"i", "c", "u", "l", "d", "p", "o", "v", "a", "f", "g", "z"}}
Few == {Id(x) : x \in {"i", "d", "o", "a", "z"}}

\* One operator of each kind.
BinOps == {"+", "-", "*", "%", "<", "&&"}
UnOps == {"addr_of", "deref", "not", "bit_not", "neg", "pre_inc"}

Flat ==
  Leaves
    \cup {Lit(s) : s \in DOMAIN SuffixType}
    \cup {E(k, "", <<>>) : k \in {"float_lit", "char_lit", "string_lit"}}
    \cup {Bin(op, a, b) : op \in BinOps, a \in Leaves, b \in Leaves}
    \cup {Un(op, a) : op \in UnOps \cup {"plus", "pre_dec"}, a \in Leaves}
    \cup {E("postfix", op, <<a>>) : op \in {"inc", "dec"}, a \in Leaves}
    \cup {Set("=", a, b) : a \in Leaves, b \in Leaves}
    \cup {At(a, b) : a \in Leaves, b \in Few}
    \cup {E("ternary", "", <<Id("i"), a, b>>) : a \in Leaves, b \in Leaves}
    \cup {E("ternary", "", <<a, One, One>>) : a \in Leaves}
    \cup {Call(a, <<>>) : a \in Leaves}
    \cup {Call(Id("f"), <<a>>) : a \in Leaves}
    \cup {Call(Id("h"), <<E("string_lit", "", <<>>), a>>) : a \in Leaves}
    \cup {Cast(w, a) : w \in {WInt, Ptr(WVoid, "raw")}, a \in Leaves}
    \cup {E(k, "", <<a>>) : k \in {"sizeof", "paren"}, a \in Leaves}
    \cup {E("comma", "", <<a, b>>) : a \in Few, b \in Leaves}
    \cup {Member(a) : a \in Few}

\* What is an lvalue, what a callee and what an operand below another operator.
Nested ==
  {Un("addr_of", Un(op, a)) : op \in UnOps, a \in Few}
    \cup {Un("deref", Un(op, a)) : op \in UnOps, a \in Few}
    \cup {Set(op, t, Id("i")) : op \in {"=", "+="},
          t \in {Un("deref", Id("p")), At(Id("a"), One), E("paren", "", <<Id("c")>>),
                 Cast(WInt, Id("i")), Bin("+", Id("p"), One), Member(Id("i"))}}
    \cup {Un("addr_of", At(Id("a"), Id("c"))), Call(Un("addr_of", Id("f")), <<Id("c")>>),
          Call(Un("deref", Id("f")), <<Id("i")>>), Call(Id("z"), <<Id("z")>>),
          Call(Id("f"), <<Id("i"), Id("p")>>), Call(Id("h"), <<Id("c"), Id("z")>>),
          Call(Id("f"), <<Call(Id("f"), <<Id("d")>>)>>), Call(Member(Id("f")), <<>>),
          Bin("+", Bin("*", Id("c"), Id("u")), Bin("-", Id("p"), Id("p"))),
          Bin("*", Bin("+", Id("z"), One), Id("a"))}

\* Conversions that a statement asks for.
Asking ==
  {Return(<<a>>) : a \in Leaves} \cup {Return(<<>>)}
    \cup {E("decl", "", <<Var("x", w, <<a>>)>>) :
          w \in {W("char"), Ptr(WInt, "raw"), Ptr(WVoid, "owner"), Arr(WInt, "3")}, a \in Leaves}
    \cup UNION {{If(a, Break), While(a, Break), DoWhile(Break, a),
                 For(Do(One), a, One, Continue)} : a \in Leaves}

ExprModules == UNION {With(s) : s \in {Do(e) : e \in Flat \cup Nested} \cup Asking}

-----------------------------------------------------------------------------
(* Bodies: declarations and uses of x in scopes that nest, and jumps.         *)

X == Id("x")
Here == {Do(X), Decl("x", <<>>), Decl("x", <<X>>), Break, Return(<<X>>), EmptyNode}

Inner ==
  Here
    \cup {Block(<<s, t>>) : s \in {Do(X), Decl("x", <<X>>)}, t \in {Do(X), Decl("x", <<>>)}}
    \cup {Unsafe(<<Decl("x", <<>>), Do(X)>>), IfElse(X, Continue, Decl("x", <<>>)),
          If(One, For(EmptyNode, EmptyNode, EmptyNode, Break))}
    \cup {For(init, X, X, s) : init \in {Decl("x", <<>>), Do(X), EmptyNode}, s \in Here}
    \cup {For(Decl("x", <<X>>), EmptyNode, X, Block(<<Decl("x", <<X>>)>>))}
    \cup {While(X, Block(<<s, Continue>>)) : s \in Here}
    \cup {DoWhile(Block(<<Decl("x", <<>>), s>>), X) : s \in {Do(X), Break}}
    \cup {E("decl", "", <<Var("x", WInt, <<>>), Var("y", WInt, <<X>>), Var("y", WInt, <<>>)>>)}

Pairs == {<<s, t>> : s \in Inner, t \in Here \cup {Block(<<Decl("x", <<X>>), Do(X)>>)}}

BodyModules ==
  {<<Fn("main", WInt, <<Param(p, W("char"))>>, "fixed", <<Block(ss)>>)>> \o globals :
     p \in {"x", ""}, ss \in Pairs,
     globals \in {<<>>, <<Var("x", W("long"), <<>>)>>}}

-----------------------------------------------------------------------------
(* Items: declarations, redeclarations and definitions of x.                  *)

Item ==
  {Proto("x", WInt, <<Param("", WInt)>>, "fixed"),
   Proto("x", WInt, <<Param("a", WInt)>>, "variadic"),
   Proto("x", WVoid, <<Param("a", Ptr(WInt, "raw"))>>, "fixed"),
   Proto("x", WInt, <<Param("a", Arr(WInt, "computed"))>>, "fixed"),
   Proto("x", WInt, <<Param("a", Arr(WInt, "none"))>>, "fixed"),
   Fn("x", WInt, <<Param("a", WInt)>>, "fixed", <<Block(<<Return(<<Id("a")>>)>>)>>),
   Fn("y", WVoid, <<Param("a", WInt), Param("a", WInt)>>, "fixed",
      <<Block(<<Decl("a", <<X>>), While(One, Return(<<>>))>>)>>),
   Fn("y", WInt, <<>>, "fixed", <<Block(<<Break, Return(<<Call(X, <<One>>)>>)>>)>>),
   Var("x", WInt, <<>>), Var("x", W("char"), <<One>>),
   Var("y", Ptr(WVoid, "raw"), <<Un("addr_of", X)>>), Var("y", WInt, <<Id("y")>>)}

ItemModules == UNION {[1 .. n -> Item] : n \in 1 .. 3}

MCModules == ExprModules \cup BodyModules \cup ItemModules

\* The nodes in the trees ns, level by level.
RECURSIVE WithParts(_)
WithParts(ns) == IF ns = {} THEN {} ELSE ns \cup WithParts(UNION {Range(n.args) : n \in ns})

AstOf(modules) ==
  {n \in WithParts(UNION {Range(m) : m \in modules}) : n.k \notin {"fn", "params"}}

MCAst == AstOf(MCModules)

-----------------------------------------------------------------------------
(* The modules of the other run: a step of one variable.                      *)

StepModules ==
  UNION {With(Do(e)) : e \in {E("postfix", "inc", <<x>>) : x \in Leaves}
                               \cup {Un("pre_dec", x) : x \in Leaves}}
StepAst == AstOf(StepModules)
=============================================================================
