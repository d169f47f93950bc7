----------------------------- MODULE TcMeaning -----------------------------
(***************************************************************************)
(* What it means for a module to be well formed and for its HIR to be      *)
(* right, said of whole trees and without scope stacks, conversions or     *)
(* tasks: which declaration a name means is a matter of where the two      *)
(* stand in the AST, and whether the HIR is typed is a matter of each node *)
(* and its parts.                                                          *)
(* The operators that walk a tree are recursive: only TLC uses this        *)
(* module.                                                                 *)
(***************************************************************************)
EXTENDS TypeCheck

\* The nodes of a tree in document order, each with its path from the root.
RECURSIVE NodesFrom(_, _)
NodesFrom(n, path) ==
  <<[at |-> path, n |-> n]>>
    \o FlattenSeq([i \in DOMAIN n.args |-> NodesFrom(n.args[i], Append(path, i))])

Nodes(items) == NodesFrom(N("module", "", items, NoType), <<>>)

Places(ns, kinds) == SelectSeq([i \in DOMAIN ns |-> i], LAMBDA i : ns[i].n.k \in kinds)

-----------------------------------------------------------------------------
(* Names, in the nodes ns of an AST.                                          *)

IsGlobal(ns, d) == Len(ns[d].at) = 1

\* The innermost node around i that is a scope.
Scopes == {"module", "fn", "block", "unsafe", "for"}
ScopeOf(ns, i) ==
  LET around == {p \in {ns[j].at : j \in Range(Places(ns, Scopes))} :
                   IsStrictPrefix(p, ns[i].at)}
  IN CHOOSE p \in around : \A q \in around : Len(q) <= Len(p)

\* The declarations that the use u of a name could mean: those of a scope
\* around it that end before it; of the items, all.
Visible(ns, u) ==
  {d \in Range(Places(ns, {"fn", "var"})) :
     /\ ns[d].n.what = ns[u].n.what
     /\ IsPrefix(ScopeOf(ns, d), ns[u].at)
     /\ IsGlobal(ns, d) \/ (d < u /\ ~IsPrefix(ns[d].at, ns[u].at))}

\* The one it does mean is the innermost.
Target(ns, u) ==
  CHOOSE d \in Visible(ns, u) :
    \A e \in Visible(ns, u) :
      \/ Len(ScopeOf(ns, e)) < Len(ScopeOf(ns, d))
      \/ ScopeOf(ns, e) = ScopeOf(ns, d) /\ d <= e

\* Symbols are numbered in document order, the items' first; the declarations
\* of a function share one.
SymbolOfDecl(ns, d) ==
  LET decls == Range(Places(ns, {"fn", "var"}))
      globals == {e \in decls : /\ IsGlobal(ns, e)
                                /\ \A f \in decls : IsGlobal(ns, f) /\ ns[f].n.what = ns[e].n.what
                                                      => e <= f}
  IN IF IsGlobal(ns, d) THEN Cardinality({e \in globals : e <= d})
     ELSE Cardinality(globals) + Cardinality({e \in decls : e <= d /\ ~IsGlobal(ns, e)})

\* No scope declares a name twice, but for functions of one type.
DeclaredOnce(ns) ==
  \A d, e \in Range(Places(ns, {"fn", "var"})) :
    d < e /\ ns[d].n.what = ns[e].n.what /\ ns[d].n.what # "" /\ ScopeOf(ns, d) = ScopeOf(ns, e)
      => /\ ns[d].n.k = "fn" /\ ns[e].n.k = "fn"
         /\ FunctionType(ns[d].n) = FunctionType(ns[e].n)

-----------------------------------------------------------------------------
(* Types, in the nodes of the HIR.                                            *)

\* What an arithmetic operand was before it was converted.
SourceType(x) == IF x.k = "implicit" /\ IsArithmetic(x.ty) THEN x.args[1].ty ELSE x.ty

\* x and y have been brought to the wider of their types, at least to int.
Balanced(x, y) ==
  /\ x.ty = y.ty /\ IsArithmetic(x.ty)
  /\ ArithRank(x.ty) = Max({ArithRank(SourceType(x)), ArithRank(SourceType(y)), ArithRank(IntType)})

\* What can be assigned to, incremented or decremented.
Modifiable(x) == IsLvalue(x) /\ IsScalar(x.ty)

UnaryTyped(n, x) ==
  CASE n.what = "addr_of" -> IsLvalue(x) /\ n.ty = Pointer(x.ty, "raw")
    [] n.what \in {"pre_inc", "pre_dec"} -> Modifiable(x) /\ n.ty = x.ty
    [] n.what = "deref" -> IsPointer(x.ty) /\ x.ty.of = <<n.ty>>
    [] n.what = "not" -> IsScalar(x.ty) /\ n.ty = IntType
    [] n.what = "bit_not" -> IsInteger(x.ty) /\ n.ty = IntegerPromotion(x.ty)
    [] n.what \in {"plus", "neg"} -> IsArithmetic(x.ty) /\ n.ty = IntegerPromotion(x.ty)

BinaryTyped(n, x, y) ==
  \/ n.what \in Logicals /\ IsScalar(x.ty) /\ IsScalar(y.ty) /\ n.ty = IntType
  \/ n.what \in Comparisons /\ IsPointer(x.ty) /\ IsPointer(y.ty) /\ n.ty = IntType
  \/ n.what \in Comparisons /\ Balanced(x, y) /\ n.ty = IntType
  \/ n.what \notin Logicals \cup Comparisons /\ Balanced(x, y) /\ n.ty = x.ty
       /\ (n.what \in IntegerOnly => IsInteger(x.ty))
  \/ n.what \in {"+", "-"} /\ IsPointer(x.ty) /\ IsInteger(y.ty) /\ n.ty = x.ty
  \/ n.what = "+" /\ IsInteger(x.ty) /\ IsPointer(y.ty) /\ n.ty = y.ty
  \/ n.what = "-" /\ IsPointer(x.ty) /\ IsPointer(y.ty) /\ n.ty = T("long")

CallTyped(n, callee, args) ==
  \E f \in {callee.ty} \cup Range(callee.ty.of) :
    /\ IsFunction(f)
    /\ f = callee.ty \/ IsPointer(callee.ty)
    /\ n.ty = f.of[1]
    /\ Len(args) >= Len(f.of) - 1
    /\ \A i \in DOMAIN args :
         IF i < Len(f.of) THEN args[i].ty = f.of[i + 1]
         ELSE f.attr = "variadic" /\ args[i].ty.k # "array"

ConversionTyped(a, b) ==
  \/ a.k = "array" /\ b = Pointer(a.of[1], "raw")
  \/ IsArithmetic(a) /\ IsArithmetic(b) /\ a # b
  \/ IsPointer(a) /\ IsPointer(b) /\ VoidType \in {a.of[1], b.of[1]} /\ a # b

IsCondition(x) == IsScalar(x.ty)

Typed(n, symbols) ==
  LET x == n.args[1]
      y == n.args[2]
  IN CASE n.k = "error" -> FALSE
       [] n.k = "ref" -> n.ty = symbols[n.what].ty
       [] n.k = "implicit" -> ConversionTyped(x.ty, n.ty)
       [] n.k = "unary" -> UnaryTyped(n, x)
       [] n.k = "postfix" -> Modifiable(x) /\ n.ty = x.ty
       [] n.k = "binary" -> BinaryTyped(n, x, y)
       [] n.k = "index" -> IsPointer(x.ty) /\ IsInteger(y.ty) /\ x.ty.of = <<n.ty>>
       [] n.k = "assign" -> Modifiable(x) /\ x.ty = y.ty /\ n.ty = x.ty
       [] n.k = "ternary" ->
            /\ IsCondition(x) /\ n.ty = y.ty /\ n.args[3].ty = y.ty
            /\ Balanced(y, n.args[3]) \/ ~IsArithmetic(y.ty)
       [] n.k = "call" -> CallTyped(n, x, Tail(n.args))
       [] n.k = "cast" -> x.ty.k # "array"
       [] n.k = "comma" -> n.ty = Last(n.args).ty
       [] n.k \in {"if", "while"} -> IsCondition(x)
       [] n.k = "do" -> IsCondition(y)
       [] n.k = "for" -> y = EmptyNode \/ IsCondition(y)
       [] n.k = "var" -> n.args # <<>> => x.ty = n.ty
       [] OTHER -> TRUE

\* The part of a loop that its jumps stand in.
LoopBody == [while |-> 2, do |-> 1, for |-> 4]

InLoop(ns, i) ==
  \E j \in DOMAIN ns :
    /\ ns[j].n.k \in DOMAIN LoopBody
    /\ IsPrefix(Append(ns[j].at, LoopBody[ns[j].n.k]), ns[i].at)

\* A statement is in the item that its path starts with.
ReturnTyped(hir, at, n) ==
  LET ret == hir[at[1]].ty.ret
  IN IF n.args = <<>> THEN ret = VoidType ELSE n.args[1].ty = ret

HirTyped(hir, symbols) ==
  LET ns == Nodes(hir) IN
  \A i \in DOMAIN ns :
    LET n == ns[i].n IN
      /\ Typed(n, symbols)
      /\ n.k \in {"break", "continue"} => InLoop(ns, i)
      /\ n.k = "return" => ReturnTyped(hir, ns[i].at, n)

-----------------------------------------------------------------------------
(* The source a tree says, and the source it was made from.                   *)

RECURSIVE Erased(_, _)
Erased(n, symbols) ==
  IF n.k = "implicit" THEN Erased(n.args[1], symbols)
  ELSE N(IF n.k = "ref" THEN "ident" ELSE n.k,
         IF n.k \in {"ref", "var", "fn"} THEN symbols[n.what].name ELSE n.what,
         [i \in DOMAIN n.args |-> Erased(n.args[i], symbols)],
         IF n.k \in {"var", "cast", "fn"} THEN n.ty ELSE NoType)

RECURSIVE Written(_)
Written(n) ==
  IF n.k = "paren" THEN Written(n.args[1])
  ELSE N(IF n.k = "unsafe" THEN "block" ELSE n.k, n.what,
         [i \in DOMAIN n.args |-> Written(n.args[i])],
         CASE n.k \in {"var", "cast"} -> LowerType(n.ty)
           [] n.k = "fn" -> [n.ty EXCEPT !.ret = LowerType(@)]
           [] OTHER -> NoType)

-----------------------------------------------------------------------------
(* Properties.                                                                *)

Accepted == Done /\ tc.diagnostics = <<>>

\* Every reference in the HIR is to the declaration that lexical scoping and the
\* forward references of the two passes (typeck lib.rs:5) give it, and a name is
\* reported as undefined only in a module that has such a name.
RefsAreLexical ==
  LET ns == Nodes(module)
      uses == Places(ns, {"ident"})
      hir == Nodes(vals)
      refs == Places(hir, {"ref"})
  IN /\ Done /\ "E0401" \in Range(tc.diagnostics) =>
          \E u \in Range(uses) : Visible(ns, u) = {}
     /\ Accepted =>
          /\ Len(refs) = Len(uses)
          /\ \A k \in DOMAIN uses :
               /\ Visible(ns, uses[k]) # {}
               /\ hir[refs[k]].n.what = SymbolOfDecl(ns, Target(ns, uses[k]))

\* The nodes that step their operand by one, or write to it.
IsStep(n) == n.k = "postfix" \/ (n.k = "unary" /\ n.what \in {"pre_inc", "pre_dec"})
IsWrite(n) == n.k = "assign" \/ IsStep(n)

\* Some node steps an array that has decayed, or writes a function or a void.
\* C has none of this; the code lets it pass (see StepsAreOfLvalues).
WritesNoScalar(hir) ==
  LET ns == Nodes(hir) IN
  \E i \in DOMAIN ns :
    /\ IsWrite(ns[i].n)
    /\ LET x == ns[i].n.args[1] IN x.k = "implicit" \/ x.ty.k \in {"function", "void"}

\* A module passes without a diagnostic exactly when it declares nothing twice
\* and its HIR is complete and typed: whatever is wrong is reported, and nothing
\* that is right.  Modules that write arrays, functions or voids are set aside.
AcceptsExactlyTheTyped ==
  Done /\ ~WritesNoScalar(vals) =>
    (tc.diagnostics = <<>> <=>
       /\ Len(vals) = Len(module)
       /\ DeclaredOnce(Nodes(module))
       /\ HirTyped(vals, tc.symbols))

\* Without its conversions the HIR of an accepted module is the source: nothing
\* is lost, added or reordered, and every name stands for itself.
HirIsTheSource ==
  Accepted =>
    [i \in DOMAIN vals |-> Erased(vals[i], tc.symbols)]
      = [i \in DOMAIN module |-> Written(module[i])]

-----------------------------------------------------------------------------
(* What the repository says, and the code does not do.                        *)

\* "typeck guarantees an lvalue here" (rccx_mir build.rs:704, :723): in the HIR of
\* an accepted module ++ and -- have an lvalue as their operand, and array decays
\* drop lvalueness (typeck lib.rs:1113).
StepsAreOfLvalues ==
  Accepted =>
    LET ns == Nodes(vals) IN
    \A i \in DOMAIN ns : IsStep(ns[i].n) => IsLvalue(ns[i].n.args[1])

=============================================================================
