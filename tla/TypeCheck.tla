----------------------------- MODULE TypeCheck -----------------------------
(***************************************************************************)
(* Name resolution and type checking of one module (crates/rccx_typeck):   *)
(* check(), which first declares every item and then lowers every item     *)
(* from the AST to HIR.                                                    *)
(*                                                                         *)
(* As in MirBuild, `todo` is the list of what is left to do: the pending   *)
(* calls of the recursive Rust methods and the code that follows them in   *)
(* their callers.  A step takes the first task.  `vals` is the stack of    *)
(* the HIR that pending code has in its local variables, and at the end    *)
(* the items of the HIR module.  `tc` is the TypeChecker itself.           *)
(*                                                                         *)
(* AST and HIR are trees of the same nodes N(k, what, args, ty).  Spans,   *)
(* the values of literals and the wording of messages are left out; a      *)
(* diagnostic is its code.                                                 *)
(***************************************************************************)
EXTENDS Integers, SequencesExt, FiniteSetsExt

CONSTANTS
  Modules,  \* the modules Init may pick
  Ast       \* the nodes in them: expressions, statements and declarators

VARIABLES
  module,  \* the AST: a sequence of items
  tc,      \* the TypeChecker
  todo,    \* what is left to do, first task first
  vals     \* HIR nodes in pending code, last one last

vars == <<module, tc, todo, vals>>

-----------------------------------------------------------------------------
(* Types (crates/rccx_hir).  `attr` is the ownership of a pointer, the size   *)
(* of an array or whether a function is variadic.                             *)

T(k) == [k |-> k, of |-> <<>>, attr |-> ""]
Pointer(t, own) == [k |-> "pointer", of |-> <<t>>, attr |-> own]
ArrayOf(t, size) == [k |-> "array", of |-> <<t>>, attr |-> size]
Function(ret, params, arity) == [k |-> "function", of |-> <<ret>> \o params, attr |-> arity]

NoType == T("none")    \* of a node that has no type
ErrorType == T("error")
VoidType == T("void")
IntType == T("int")

IntegerRank ==
  [bool |-> 1, char |-> 2, schar |-> 2, uchar |-> 3, short |-> 4, ushort |-> 5, int |-> 6,
   uint |-> 7, long |-> 8, ulong |-> 9, llong |-> 10, ullong |-> 11]
FloatRank == [float |-> 12, double |-> 13, ldouble |-> 14]

ArithRank(t) == (IntegerRank @@ FloatRank)[t.k]

IsError(t) == t = ErrorType
IsPointer(t) == t.k = "pointer"
IsFunction(t) == t.k = "function"
IsInteger(t) == t.k \in DOMAIN IntegerRank
IsArithmetic(t) == IsInteger(t) \/ t.k \in DOMAIN FloatRank
IsScalar(t) == IsArithmetic(t) \/ IsPointer(t)

IntegerPromotion(t) == IF IsInteger(t) /\ ArithRank(t) < ArithRank(IntType) THEN IntType ELSE t

\* The "usual arithmetic conversion" of two arithmetic types.
UsualArithmetic(a, b) ==
  LET pa == IntegerPromotion(a)  pb == IntegerPromotion(b)
  IN IF ArithRank(pa) >= ArithRank(pb) THEN pa ELSE pb

\* A type as it is written: a base type in layers of pointers and arrays, the
\* outermost first.  Only a plain decimal literal counts as an array size; any
\* other expression ("computed") leaves the array incomplete.
LowerType(w) ==
  FoldRight(LAMBDA layer, t :
              [k |-> layer.k, of |-> <<t>>,
               attr |-> IF layer.attr = "computed" THEN "none" ELSE layer.attr],
            w.layers, T(w.base))

\* parse_int_literal: by the suffix, however its letters are ordered.
SuffixType ==
  [none |-> IntType, u |-> T("uint"), l |-> T("long"), ul |-> T("ulong"),
   ll |-> T("llong"), ull |-> T("ullong")]

LiteralType(n) ==
  CASE n.k = "int_lit" -> SuffixType[n.what]
    [] n.k = "float_lit" -> T("double")
    [] n.k = "char_lit" -> IntType
    [] n.k = "string_lit" -> Pointer(T("char"), "raw")

-----------------------------------------------------------------------------
(* Nodes.  In the AST, expressions have kinds                                 *)
(*   int_lit (what: the suffix), float_lit, char_lit, string_lit              *)
(*   ident (what: the name), paren, member, sizeof, comma, ternary, index     *)
(*   call (args[1] is the callee), cast (ty: the written type)                *)
(*   unary, postfix, binary, assign (what: the operator)                      *)
(* statements                                                                 *)
(*   block, unsafe, expr, empty, break, continue, return                      *)
(*   decl (of var nodes: what is the name, ty the written type, args the      *)
(*         initialiser if there is one)                                       *)
(*   if, while, do (body first), for (init, cond, step, body; an empty node   *)
(*         stands for a part that is not there)                               *)
(* and items                                                                  *)
(*   var, and fn (what: the name, ty: [ret, arity], args: a params node of    *)
(*         var nodes, whose name may be "", and the body if there is one)     *)
(* In the HIR an ident has become a ref (what: the symbol), implicit marks a  *)
(* conversion, and error what could not be lowered.                           *)

N(k, what, args, ty) == [k |-> k, what |-> what, args |-> args, ty |-> ty]
EmptyNode == N("empty", "", <<>>, NoType)
ErrorNode == N("error", "", <<>>, ErrorType)
ImplicitCast(x, t) == N("implicit", "", <<x>>, t)

ParamsOf(f) == f.args[1].args
BodyOf(f) == Tail(f.args)

Arity ==
  [int_lit |-> 0, float_lit |-> 0, char_lit |-> 0, string_lit |-> 0, ident |-> 0, paren |-> 1,
   member |-> 1, sizeof |-> 1, cast |-> 1, unary |-> 1, postfix |-> 1, binary |-> 2, index |-> 2,
   assign |-> 2, ternary |-> 3]
ExprKinds == DOMAIN Arity \cup {"call", "comma"}
AstExpr == {e \in Ast : e.k \in ExprKinds}
AstStmt == {s \in Ast : s.k \notin ExprKinds}

UnaryOps == {"addr_of", "pre_inc", "pre_dec", "deref", "not", "bit_not", "plus", "neg"}

IsNode(n) == n = N(n.k, n.what, n.args, n.ty)
IsOptional(ns, S) == ns \in Seq(S) /\ Len(ns) <= 1

IsExpr(e) ==
  /\ IsNode(e) /\ e.args \in Seq(AstExpr)
  /\ \/ e.k \in DOMAIN Arity /\ Len(e.args) = Arity[e.k]
     \/ e.k \in {"call", "comma"} /\ e.args # <<>>
  /\ e.k = "unary" => e.what \in UnaryOps

IsStmt(s) ==
  /\ IsNode(s)
  /\ CASE s.k \in {"block", "unsafe"} -> s.args \in Seq(AstStmt)
       [] s.k = "expr" -> s.args \in Seq(AstExpr) /\ Len(s.args) = 1
       [] s.k = "decl" -> s.args \in Seq(AstStmt) /\ \A d \in Range(s.args) : d.k = "var"
       [] s.k \in {"var", "return"} -> IsOptional(s.args, AstExpr)
       [] s.k = "if" -> s.args \in (AstExpr \X AstStmt) \cup (AstExpr \X AstStmt \X AstStmt)
       [] s.k = "while" -> s.args \in AstExpr \X AstStmt
       [] s.k = "do" -> s.args \in AstStmt \X AstExpr
       [] s.k = "for" ->
            LET Part == AstExpr \cup {EmptyNode}
            IN s.args \in AstStmt \X Part \X Part \X AstStmt
       [] OTHER -> s.k \in {"break", "continue", "empty"} /\ s.args = <<>>

IsItem(d) ==
  /\ IsNode(d)
  /\ \/ d.k = "var" /\ IsOptional(d.args, AstExpr)
     \/ /\ d.k = "fn" /\ d.args # <<>> /\ IsOptional(BodyOf(d), AstStmt)
        /\ ParamsOf(d) \in Seq(AstStmt)

ASSUME AstAssumption ==
  /\ \A n \in Ast : IsExpr(n) \/ IsStmt(n)
  /\ \A m \in Modules : m \in Seq(Range(m)) /\ \A d \in Range(m) : IsItem(d)

FunctionType(f) ==
  Function(LowerType(f.ty.ret),
           [i \in DOMAIN ParamsOf(f) |-> LowerType(ParamsOf(f)[i].ty)], f.ty.arity)

IsLvalue(x) ==
  \/ x.k \in {"ref", "index"}
  \/ x.k = "unary" /\ x.what = "deref"

\* array_decay
Decayed(x) ==
  IF x.ty.k = "array" THEN ImplicitCast(x, Pointer(x.ty.of[1], "raw")) ELSE x

\* The function that a callee of type t calls: <<>> or its type.
Callable(t) ==
  CASE IsFunction(t) -> <<t>>
    [] IsPointer(t) /\ IsFunction(t.of[1]) -> <<t.of[1]>>
    [] OTHER -> <<>>

-----------------------------------------------------------------------------
(* The methods of the TypeChecker.  Symbol id is m.symbols[id].               *)

NoNames == [x \in {} |-> 0]
New ==
  [symbols |-> <<>>, scopes |-> <<NoNames>>, diagnostics |-> <<>>,
   current_return_type |-> <<>>, loop_depth |-> 0]

Error(m, codes) == [m EXCEPT !.diagnostics = @ \o codes]

PushScope(m) == [m EXCEPT !.scopes = Append(@, NoNames)]
PopScope(m) == [m EXCEPT !.scopes = Front(@)]

Bind(scope, name, id) ==
  [x \in DOMAIN scope \cup {name} |-> IF x = name THEN id ELSE scope[x]]

\* declare: the first symbol of a name in a scope stays.
Declare(m, name, id) ==
  LET top == Len(m.scopes) IN
  IF name \in DOMAIN m.scopes[top] THEN Error(m, <<"E0402">>)
  ELSE [m EXCEPT !.scopes[top] = Bind(@, name, id)]

\* The symbol of a name: <<>> or its id.
Lookup_Outermost(m, name) ==
  LET holding == {s \in DOMAIN m.scopes : name \in DOMAIN m.scopes[s]}
  IN IF holding = {} THEN <<>> ELSE <<m.scopes[Min(holding)][name]>>
Lookup(m, name) ==
  LET holding == {s \in DOMAIN m.scopes : name \in DOMAIN m.scopes[s]}
  IN IF holding = {} THEN <<>> ELSE <<m.scopes[Max(holding)][name]>>

Intern(m, name, kind, ty) ==
  [m EXCEPT !.symbols = Append(@, [name |-> name, kind |-> kind, ty |-> ty])]

NextSymbol(m) == Len(m.symbols) + 1

\* intern, then declare the new symbol.
Introduce_IdAfter(m, name, kind, ty) ==
  LET n == Intern(m, name, kind, ty) IN Declare(n, name, NextSymbol(n))
Introduce(m, name, kind, ty) ==
  Declare(Intern(m, name, kind, ty), name, NextSymbol(m))

DeclareParam(m, p) ==
  IF p.what = "" THEN Intern(m, "", "Param", LowerType(p.ty))
  ELSE Introduce(m, p.what, "Param", LowerType(p.ty))

-----------------------------------------------------------------------------
(* What the typing rules make of lowered operands: the new node and the       *)
(* diagnostics, in order.                                                     *)

R(x, errors) == [x |-> x, errors |-> errors]

ErrorIf(bad, code) == IF bad THEN <<code>> ELSE <<>>

IsVoidPointer(t) == IsPointer(t) /\ t.of[1] = VoidType

Convertible_AnyPointer(a, b) ==
  \/ IsArithmetic(a) /\ IsArithmetic(b)
  \/ IsPointer(a) /\ IsPointer(b)
Convertible(a, b) ==
  \/ IsArithmetic(a) /\ IsArithmetic(b)
  \/ IsPointer(a) /\ IsVoidPointer(b)
  \/ IsVoidPointer(a) /\ IsPointer(b)

ConvertTo(x, t) ==
  LET d == Decayed(x) IN
  IF d.ty = t \/ IsError(d.ty) \/ IsError(t) THEN R(d, <<>>)
  ELSE IF Convertible(d.ty, t) THEN R(ImplicitCast(d, t), <<>>)
  ELSE R(d, <<"E0403">>)

\* A unary or postfix operator: which operands decay, what they must be.
Unary(op, x) ==
  LET d == Decayed(x)
      Of(y, ty) == N("unary", op, <<y>>, ty)
      Checked(ok, ty) == R(Of(d, ty), ErrorIf(~ok /\ ~IsError(d.ty), "E0405"))
  IN CASE op = "addr_of" ->
            R(Of(x, Pointer(x.ty, "raw")), ErrorIf(~IsLvalue(x), "E0406"))
       [] op \in {"pre_inc", "pre_dec"} -> R(Of(d, d.ty), ErrorIf(~IsLvalue(x), "E0406"))
       [] op = "deref" ->
            Checked(IsPointer(d.ty), IF IsPointer(d.ty) THEN d.ty.of[1] ELSE ErrorType)
       [] op = "not" -> Checked(IsScalar(d.ty), IntType)
       [] op = "bit_not" -> Checked(IsInteger(d.ty), IntegerPromotion(d.ty))
       [] op \in {"plus", "neg"} -> Checked(IsArithmetic(d.ty), IntegerPromotion(d.ty))

Postfix(op, x) ==
  R(N("postfix", op, <<Decayed(x)>>, Decayed(x).ty), ErrorIf(~IsLvalue(x), "E0406"))

Index(base, index) ==
  LET b == Decayed(base)
      i == Decayed(index)
  IN R(N("index", "", <<b, i>>, IF IsPointer(b.ty) THEN b.ty.of[1] ELSE ErrorType),
       ErrorIf(~IsPointer(b.ty) /\ ~IsError(b.ty), "E0405")
         \o ErrorIf(~IsInteger(i.ty) /\ ~IsError(i.ty), "E0405"))

Comparisons == {"<", ">", "<=", ">=", "==", "!="}
Logicals == {"&&", "||"}
IntegerOnly == {"%", "<<", ">>", "&", "^", "|"}

\* Both operands are converted to their common type.
Balances(op, a, b) ==
  CASE op \in Logicals -> FALSE
    [] op \in IntegerOnly -> IsInteger(a) /\ IsInteger(b)
    [] OTHER -> IsArithmetic(a) /\ IsArithmetic(b)

PointerArithmetic(op, a, b) ==
  CASE IsPointer(a) /\ IsInteger(b) /\ op \in {"+", "-"} -> a
    [] IsPointer(b) /\ IsInteger(a) /\ op = "+" -> b
    [] IsPointer(a) /\ IsPointer(b) /\ op = "-" -> T("long")
    [] OTHER -> ErrorType

BinaryType(op, a, b) ==
  IF op \in Comparisons \cup Logicals THEN IntType
  ELSE IF Balances(op, a, b) THEN UsualArithmetic(a, b)
  ELSE PointerArithmetic(op, a, b)

\* Sums report an operand that is an error already; the others do not.
BinaryErrors(op, a, b) ==
  CASE op \in Logicals ->
         ErrorIf(~IsScalar(a) /\ ~IsError(a), "E0405")
           \o ErrorIf(~IsScalar(b) /\ ~IsError(b), "E0405")
    [] op \in {"+", "-"} -> ErrorIf(IsError(BinaryType(op, a, b)), "E0405")
    [] OTHER ->
         ErrorIf(/\ ~Balances(op, a, b)
                 /\ ~(op \in Comparisons /\ IsPointer(a) /\ IsPointer(b))
                 /\ ~IsError(a) /\ ~IsError(b), "E0405")

Binary(op, lhs, rhs) ==
  LET l == Decayed(lhs)
      r == Decayed(rhs)
      To(x) == IF Balances(op, l.ty, r.ty)
               THEN ConvertTo(x, UsualArithmetic(l.ty, r.ty)).x ELSE x
  IN R(N("binary", op, <<To(l), To(r)>>, BinaryType(op, l.ty, r.ty)),
       BinaryErrors(op, l.ty, r.ty))

Assign(op, lhs, rhs) ==
  LET r == ConvertTo(rhs, lhs.ty)
  IN R(N("assign", op, <<lhs, r.x>>, lhs.ty), r.errors)

Ternary(cond, then, else) ==
  LET t == Decayed(then)
      e == Decayed(else)
      common == UsualArithmetic(t.ty, e.ty)
      Is(x, y, ty) == N("ternary", "", <<cond, x, y>>, ty)
  IN IF IsArithmetic(t.ty) /\ IsArithmetic(e.ty)
     THEN R(Is(ConvertTo(t, common).x, ConvertTo(e, common).x, common), <<>>)
     ELSE IF t.ty = e.ty THEN R(Is(t, e, t.ty), <<>>)
     ELSE IF IsError(t.ty) \/ IsError(e.ty) THEN R(Is(t, e, ErrorType), <<>>)
     ELSE R(Is(t, e, t.ty), <<"E0403">>)

\* The node of n from its lowered parts; Unsafe collapses to a compound.
Made(n, xs) ==
  CASE n.k = "unary" -> Unary(n.what, xs[1])
    [] n.k = "postfix" -> Postfix(n.what, xs[1])
    [] n.k = "binary" -> Binary(n.what, xs[1], xs[2])
    [] n.k = "index" -> Index(xs[1], xs[2])
    [] n.k = "assign" -> Assign(n.what, xs[1], xs[2])
    [] n.k = "ternary" -> Ternary(xs[1], xs[2], xs[3])
    [] n.k = "cast" -> LET t == LowerType(n.ty) IN R(N("cast", "", <<Decayed(xs[1])>>, t), <<>>)
    [] n.k = "sizeof" -> R(N("sizeof", "", xs, T("ulong")), <<>>)
    [] n.k = "comma" -> R(N("comma", "", xs, Last(xs).ty), <<>>)
    [] n.k = "call" -> R(N("call", "", xs, Callable(xs[1].ty)[1].of[1]), <<>>)
    [] n.k = "unsafe" -> R(N("block", "", xs, NoType), <<>>)
    [] OTHER -> R(N(n.k, n.what, xs, NoType), <<>>)

-----------------------------------------------------------------------------
(* Tasks: calls of lower_expr, lower_stmt and lower_local_decls, and what     *)
(* their callers do next.                                                     *)

Lower(n) == [do |-> "lower", n |-> n]
Make(n) == [do |-> "make", n |-> n]
DeclareItem(n) == [do |-> "declare_item", n |-> n]
LowerItem(n) == [do |-> "lower_item", n |-> n]
DeclareLocal(n) == [do |-> "declare_local", n |-> n]
EnterScope == [do |-> "enter_scope"]
LeaveScope == [do |-> "leave_scope"]
EnterLoop == [do |-> "enter_loop"]
LeaveLoop == [do |-> "leave_loop"]
CheckScalar == [do |-> "check_scalar"]
CheckLvalue == [do |-> "check_lvalue"]
DecayValue == [do |-> "decay"]
Convert(t) == [do |-> "convert", ty |-> t]
CallArgs(n) == [do |-> "call_args", n |-> n]
EndFn(h, parts) == [do |-> "end_fn", n |-> h, parts |-> parts]
EndGlobal(h, parts) == [do |-> "end_global", n |-> h, parts |-> parts]

Each(ns) == [i \in DOMAIN ns |-> Lower(ns[i])]

\* lower_cond_expr
Cond(e) == <<Lower(e), CheckScalar>>
OptionalCond(e) == IF e = EmptyNode THEN <<Lower(e)>> ELSE Cond(e)

Looping_NotLeft(s) == <<EnterLoop, Lower(s)>>
Looping(s) == <<EnterLoop, Lower(s), LeaveLoop>>

Init ==
  /\ module \in Modules
  /\ tc = New
  /\ todo = [i \in DOMAIN module |-> DeclareItem(module[i])]
               \o [i \in DOMAIN module |-> LowerItem(module[i])]
  /\ vals = <<>>

Top == Last(vals)
TopValues(k) == SubSeq(vals, Len(vals) - k + 1, Len(vals))
Below(k) == SubSeq(vals, 1, Len(vals) - k)

Task == Head(todo)
Take(do) == todo # <<>> /\ Task.do = do
TakeNode(kinds) == Take("lower") /\ Task.n.k \in kinds

Then(tasks) == todo' = tasks \o Tail(todo)

Expand(tasks) == Then(tasks) /\ UNCHANGED <<module, tc, vals>>
Update(m) == tc' = m /\ Then(<<>>) /\ UNCHANGED <<module, vals>>

\* The top k values give way to x, with diagnostics.
Yield(k, x, errors) ==
  /\ vals' = Append(Below(k), x)
  /\ tc' = Error(tc, errors)
  /\ Then(<<>>)
  /\ UNCHANGED module

-----------------------------------------------------------------------------
(* The first pass over the items.                                             *)

\* A function that is declared already keeps its first symbol.
DeclareFn ==
  /\ Take("declare_item") /\ Task.n.k = "fn"
  /\ LET f == Task.n
         ty == FunctionType(f)
         found == Lookup(tc, f.what)
     IN Update(IF found = <<>> THEN Introduce(tc, f.what, "Function", ty)
               ELSE Error(tc, ErrorIf(tc.symbols[found[1]].ty # ty, "E0402")))

DeclareGlobal ==
  /\ Take("declare_item") /\ Task.n.k = "var"
  /\ Update(Introduce(tc, Task.n.what, "GlobalVar", LowerType(Task.n.ty)))

-----------------------------------------------------------------------------
(* The second pass: items.                                                    *)

SymbolOf(n) == Lookup(tc, n.what)[1]

LowerFn ==
  /\ Take("lower_item") /\ Task.n.k = "fn"
  /\ LET f == Task.n
         sym == SymbolOf(f)
         ps == ParamsOf(f)
         params == [i \in DOMAIN ps |->
                      N("var", NextSymbol(tc) + i - 1, <<>>, LowerType(ps[i].ty))]
         declared[i \in 0 .. Len(ps)] ==
           IF i = 0 THEN PushScope(tc) ELSE DeclareParam(declared[i - 1], ps[i])
         m == declared[Len(ps)]
         ty == tc.symbols[sym].ty
         ret == ty.of[1]
     IN /\ IsFunction(ty)
        /\ tc' = IF BodyOf(f) = <<>> THEN m ELSE [m EXCEPT !.current_return_type = <<ret>>]
        /\ Then(Each(BodyOf(f))
                  \o <<EndFn(N("fn", sym, <<N("params", "", params, NoType)>>,
                             [ret |-> ret, arity |-> f.ty.arity]), Len(BodyOf(f)))>>)
        /\ UNCHANGED <<module, vals>>

\* The name is that of a variable: the function is left out.
SkipFn ==
  /\ Take("lower_item") /\ Task.n.k = "fn"
  /\ ~IsFunction(tc.symbols[SymbolOf(Task.n)].ty)
  /\ Expand(<<>>)

\* Functions do not nest: no other return type was current.
FinishFn ==
  /\ Take("end_fn")
  /\ vals' = Append(Below(Task.parts), [Task.n EXCEPT !.args = @ \o TopValues(Task.parts)])
  /\ tc' = PopScope([tc EXCEPT !.current_return_type = <<>>])
  /\ Then(<<>>)
  /\ UNCHANGED module

LowerGlobal ==
  /\ Take("lower_item") /\ Task.n.k = "var"
  /\ LET d == Task.n
         sym == SymbolOf(d)
         ty == tc.symbols[sym].ty
     IN Expand(Each(d.args) \o (IF d.args = <<>> THEN <<>> ELSE <<Convert(ty)>>)
                 \o <<EndGlobal(N("var", sym, <<>>, ty), Len(d.args))>>)

FinishGlobal ==
  /\ Take("end_global")
  /\ Yield(Task.parts, [Task.n EXCEPT !.args = TopValues(Task.parts)], <<>>)

-----------------------------------------------------------------------------
(* Statements.                                                                *)

LowerBlock ==
  /\ TakeNode({"block", "unsafe"})
  /\ Expand(<<EnterScope>> \o Each(Task.n.args) \o <<LeaveScope, Make(Task.n)>>)

LowerIf ==
  /\ TakeNode({"if"})
  /\ Expand(Cond(Task.n.args[1]) \o Each(Tail(Task.n.args)) \o <<Make(Task.n)>>)

LowerWhile ==
  /\ TakeNode({"while"})
  /\ Expand(Cond(Task.n.args[1]) \o Looping(Task.n.args[2]) \o <<Make(Task.n)>>)

LowerDoWhile ==
  /\ TakeNode({"do"})
  /\ Expand(Looping(Task.n.args[1]) \o Cond(Task.n.args[2]) \o <<Make(Task.n)>>)

ForTasks_BodyFirst(n) ==
  <<EnterScope, Lower(n.args[1])>> \o OptionalCond(n.args[2])
    \o Looping(n.args[4]) \o <<Lower(n.args[3]), LeaveScope>>
ForTasks(n) ==
  <<EnterScope, Lower(n.args[1])>> \o OptionalCond(n.args[2]) \o <<Lower(n.args[3])>>
    \o Looping(n.args[4]) \o <<LeaveScope>>

LowerFor ==
  /\ TakeNode({"for"})
  /\ Expand(ForTasks(Task.n) \o <<Make(Task.n)>>)

LowerReturn ==
  /\ TakeNode({"return"}) /\ Task.n.args # <<>>
  /\ Expand(Each(Task.n.args)
              \o [i \in DOMAIN tc.current_return_type |-> Convert(tc.current_return_type[i])]
              \o <<Make(Task.n)>>)

LowerReturnVoid ==
  /\ TakeNode({"return"}) /\ Task.n.args = <<>>
  /\ Yield(0, Task.n, ErrorIf(\E t \in Range(tc.current_return_type) : t # VoidType, "E0403"))

LowerJump ==
  /\ TakeNode({"break", "continue"})
  /\ Yield(0, Task.n, ErrorIf(tc.loop_depth = 0, "E0405"))

LowerEmpty ==
  /\ TakeNode({"empty"})
  /\ Yield(0, Task.n, <<>>)

\* The initialiser is lowered before the name is declared.
LocalTasks(d) ==
  Each(d.args) \o (IF d.args = <<>> THEN <<>> ELSE <<Convert(LowerType(d.ty))>>)
    \o <<DeclareLocal(d)>>

LowerLocal ==
  /\ TakeNode({"var"})
  /\ Expand(LocalTasks(Task.n))

FinishLocal ==
  /\ Take("declare_local")
  /\ LET d == Task.n
         ty == LowerType(d.ty)
     IN /\ tc' = Introduce(tc, d.what, "LocalVar", ty)
        /\ vals' = Append(Below(Len(d.args)),
                          N("var", NextSymbol(tc), TopValues(Len(d.args)), ty))
        /\ Then(<<>>)
        /\ UNCHANGED module

-----------------------------------------------------------------------------
(* Expressions.                                                               *)

LowerLiteral ==
  /\ TakeNode({"int_lit", "float_lit", "char_lit", "string_lit"})
  /\ Yield(0, [Task.n EXCEPT !.ty = LiteralType(Task.n)], <<>>)

LowerIdent ==
  /\ TakeNode({"ident"})
  /\ LET found == Lookup(tc, Task.n.what) IN
     IF found = <<>> THEN Yield(0, ErrorNode, <<"E0401">>)
     ELSE Yield(0, N("ref", found[1], <<>>, tc.symbols[found[1]].ty), <<>>)

\* The operand of a member access is not looked at.
LowerMember ==
  /\ TakeNode({"member"})
  /\ Yield(0, ErrorNode, <<"E0405">>)

LowerParen ==
  /\ TakeNode({"paren"})
  /\ Expand(Each(Task.n.args))

\* Statements and expressions whose parts are lowered in order.
LowerParts ==
  /\ TakeNode({"expr", "decl", "unary", "postfix", "binary", "index", "cast", "sizeof", "comma"})
  /\ Expand(Each(Task.n.args) \o <<Make(Task.n)>>)

LowerAssign ==
  /\ TakeNode({"assign"})
  /\ Expand(<<Lower(Task.n.args[1]), CheckLvalue, Lower(Task.n.args[2]), Make(Task.n)>>)

LowerTernary ==
  /\ TakeNode({"ternary"})
  /\ Expand(Cond(Task.n.args[1]) \o Each(Tail(Task.n.args)) \o <<Make(Task.n)>>)

LowerCall ==
  /\ TakeNode({"call"})
  /\ Expand(<<Lower(Task.n.args[1]), CallArgs(Task.n)>>)

\* What a call does once its callee is lowered; each argument is converted
\* before the next one is lowered.
ArgTasks(args, params) ==
  FlattenSeq([i \in DOMAIN args |->
    <<Lower(args[i]), IF i \in DOMAIN params THEN Convert(params[i]) ELSE DecayValue>>])

ArityErrors(args, fn) ==
  ErrorIf(IF fn.attr = "variadic" THEN Len(args) < Len(fn.of) - 1
          ELSE Len(args) # Len(fn.of) - 1, "E0404")

LowerArgs ==
  /\ Take("call_args")
  /\ LET callee == Decayed(Top)
         args == Tail(Task.n.args)
         called == Callable(callee.ty)
     IN /\ called # <<>>
        /\ vals' = Append(Below(1), callee)
        /\ tc' = Error(tc, ArityErrors(args, called[1]))
        /\ Then(ArgTasks(args, Tail(called[1].of)) \o <<Make(Task.n)>>)
        /\ UNCHANGED module

NotAFunction ==
  /\ Take("call_args")
  /\ LET t == Decayed(Top).ty IN
     /\ Callable(t) = <<>>
     /\ Yield(1, ErrorNode, ErrorIf(~IsError(t), "E0405"))

-----------------------------------------------------------------------------
(* What follows a part that has been lowered.                                 *)

MakeNode ==
  /\ Take("make")
  /\ LET parts == Len(Task.n.args)
         made == Made(Task.n, TopValues(parts))
     IN Yield(parts, made.x, made.errors)

ScopeAction ==
  \/ Take("enter_scope") /\ Update(PushScope(tc))
  \/ Take("leave_scope") /\ Update(PopScope(tc))

LoopAction ==
  \/ Take("enter_loop") /\ Update([tc EXCEPT !.loop_depth = @ + 1])
  \/ Take("leave_loop") /\ Update([tc EXCEPT !.loop_depth = @ - 1])

ScalarAction ==
  /\ Take("check_scalar")
  /\ LET x == Decayed(Top)
     IN Yield(1, x, ErrorIf(~IsScalar(x.ty) /\ ~IsError(x.ty), "E0405"))

LvalueAction ==
  /\ Take("check_lvalue")
  /\ Yield(1, Top, ErrorIf(~IsLvalue(Top), "E0406"))

DecayAction ==
  /\ Take("decay")
  /\ Yield(1, Decayed(Top), <<>>)

ConvertAction ==
  /\ Take("convert")
  /\ LET r == ConvertTo(Top, Task.ty) IN Yield(1, r.x, r.errors)

Done == todo = <<>>
Terminating == Done /\ UNCHANGED vars

Next ==
  \/ DeclareFn \/ DeclareGlobal
  \/ LowerFn \/ SkipFn \/ FinishFn \/ LowerGlobal \/ FinishGlobal
  \/ LowerBlock \/ LowerIf \/ LowerWhile \/ LowerDoWhile \/ LowerFor
  \/ LowerReturn \/ LowerReturnVoid \/ LowerJump \/ LowerEmpty
  \/ LowerLocal \/ FinishLocal
  \/ LowerLiteral \/ LowerIdent \/ LowerMember \/ LowerParen \/ LowerParts
  \/ LowerAssign \/ LowerTernary \/ LowerCall \/ LowerArgs \/ NotAFunction
  \/ MakeNode \/ ScopeAction \/ LoopAction
  \/ ScalarAction \/ LvalueAction \/ DecayAction \/ ConvertAction
  \/ Terminating

Spec == Init /\ [][Next]_vars

-----------------------------------------------------------------------------
(* Properties.                                                                *)

\* The ids at hand are those of symbols (the SymbolTable is indexed with them),
\* and there is a scope to declare in (typeck lib.rs:86, "at least one scope").
TypeOK ==
  /\ tc.scopes # <<>>
  /\ \A s \in Range(tc.scopes) : Range(s) \subseteq DOMAIN tc.symbols
  /\ \A x \in Range(vals) : x.k \in {"ref", "fn", "var"} => x.what \in DOMAIN tc.symbols
  /\ Len(tc.current_return_type) <= 1
  /\ tc.loop_depth \in Nat

\* Whatever errors were met on the way, an item leaves the TypeChecker as the
\* first pass left it: the next body is checked with the global scope alone,
\* outside of every loop and function.
ItemsAreIndependent ==
  Done \/ Task.do = "lower_item" =>
    /\ Len(tc.scopes) = 1
    /\ DOMAIN tc.scopes[1] = {item.what : item \in Range(module)}
    /\ tc.loop_depth = 0
    /\ tc.current_return_type = <<>>
    /\ \A x \in Range(vals) : x.k \in {"fn", "var"}

=============================================================================
