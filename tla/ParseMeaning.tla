---------------------------- MODULE ParseMeaning ----------------------------
(***************************************************************************)
(* What the tokens of a C module mean, said from the tree: how a tree is   *)
(* written, which trees the grammar has, and what a run of type specifiers *)
(* names (C17, 6.7.2).  A tree is right for a list of tokens if the        *)
(* grammar has it and it is written so; there is no more than one.         *)
(* The operators that walk a tree are recursive: only TLC uses this        *)
(* module.                                                                 *)
(***************************************************************************)
EXTENDS Parser

-----------------------------------------------------------------------------
(* Writing a tree.  Specifiers and qualifiers are one word, a "type".         *)

Word(k, text, quals) == <<[k |-> k, text |-> text, quals |-> quals]>>
Sign(k) == Word(k, "", {})

Joined(parts, sep) ==
  FlattenSeq([i \in DOMAIN parts |-> IF i = 1 THEN parts[i] ELSE sep \o parts[i]])

AttributeWords(own) ==
  IF own = "raw" THEN <<>>
  ELSE Sign("[") \o Sign("[") \o Word("ident", "sc", {}) \o Sign("::") \o Word("ident", own, {})
         \o Sign("]") \o Sign("]")

StorageWords(storage) == FlattenSeq([i \in DOMAIN storage |-> Sign(storage[i])])
SpecWords(ty) == Word("type", ty.base, ty.quals)

LayersOf(ty, k) == SelectSeq(ty.layers, LAMBDA layer : layer.k = k)

PointerWords(ty) ==
  FlattenSeq([i \in DOMAIN LayersOf(ty, "pointer") |->
                LET layer == Reverse(LayersOf(ty, "pointer"))[i]
                IN Word("*", "", layer.quals) \o AttributeWords(layer.own)])

SymbolOf(table, name) == CHOOSE k \in DOMAIN table : table[k] = name

\* A declarator, given the words of its array bounds and its initialiser.
DeclaratorWords(v, w) ==
  LET arrays == LayersOf(v.ty, "array")
      sized == SelectSeq([i \in DOMAIN arrays |-> i], LAMBDA i : arrays[i].size # <<>>)
      Bound(i) == IF arrays[i].size = <<>> THEN <<>> ELSE w[Len(SelectSeq(sized, LAMBDA j : j <= i))]
  IN PointerWords(v.ty)
       \o (IF v.what = "" THEN <<>> ELSE Word("ident", v.what, {}))
       \o FlattenSeq([i \in DOMAIN arrays |-> Sign("[") \o Bound(i) \o Sign("]")])
       \o (IF v.args = <<>> THEN <<>> ELSE Sign("=") \o Last(w))

\* A declaration of vs, whose declarators have the words w.
VarWords(vs, w) ==
  StorageWords(vs[1].ty.storage) \o SpecWords(vs[1].ty) \o Joined(w, Sign(",")) \o Sign(";")

ParamWords(vs, w) == [i \in DOMAIN vs |-> SpecWords(vs[i].ty) \o w[i]]

BoundsOf(v) ==
  FlattenSeq([i \in DOMAIN LayersOf(v.ty, "array") |-> LayersOf(v.ty, "array")[i].size])

\* The bounds of a declarator are in its type.
Parts(n) == IF n.k = "var" THEN BoundsOf(n) \o n.args ELSE n.args

RECURSIVE Words(_)
Words(n) ==
  LET w == [i \in DOMAIN Parts(n) |-> Words(Parts(n)[i])]
      all == FlattenSeq(w)
  IN CASE n.k \in Leaves -> Word(n.k, n.what, {})
       [] n.k = "unary" -> Sign(SymbolOf(UnaryOps, n.what)) \o all
       [] n.k = "sizeof" -> Sign("sizeof") \o all
       [] n.k = "cast" -> Sign("(") \o SpecWords(n.ty) \o PointerWords(n.ty) \o Sign(")") \o all
       [] n.k = "paren" -> Sign("(") \o all \o Sign(")")
       [] n.k = "postfix" -> all \o Sign(SymbolOf(PostfixOps, n.what))
       [] n.k \in {"member", "arrow"} ->
            all \o Sign(SymbolOf(MemberKind, n.k)) \o Word("ident", n.what, {})
       [] n.k = "index" -> w[1] \o Sign("[") \o w[2] \o Sign("]")
       [] n.k = "call" -> w[1] \o Sign("(") \o Joined(Tail(w), Sign(",")) \o Sign(")")
       [] n.k \in {"binary", "assign"} -> w[1] \o Sign(n.what) \o w[2]
       [] n.k = "ternary" -> w[1] \o Sign("?") \o w[2] \o Sign(":") \o w[3]
       [] n.k = "comma" -> Joined(w, Sign(","))
       [] n.k = "empty" -> Sign(";")
       [] n.k = "expr" -> all \o Sign(";")
       [] n.k = "block" -> Sign("{") \o all \o Sign("}")
       [] n.k = "unsafe" -> Word("ident", "unsafe", {}) \o Sign("{") \o all \o Sign("}")
       [] n.k \in {"return", "break", "continue"} -> Sign(n.k) \o all \o Sign(";")
       [] n.k = "if" -> Sign("if") \o Sign("(") \o w[1] \o Sign(")")
                          \o Joined(Tail(w), Sign("else"))
       [] n.k = "while" -> Sign("while") \o Sign("(") \o w[1] \o Sign(")") \o w[2]
       [] n.k = "do" -> Sign("do") \o w[1] \o Sign("while") \o Sign("(") \o w[2] \o Sign(")")
                          \o Sign(";")
       [] n.k = "for" -> Sign("for") \o Sign("(") \o w[1]
                           \o (IF n.args[2].k = "empty" THEN w[2] ELSE w[2] \o Sign(";"))
                           \o (IF n.args[3].k = "empty" THEN <<>> ELSE w[3]) \o Sign(")") \o w[4]
       [] n.k = "decl" -> VarWords(n.args, w)
       [] n.k = "var" -> DeclaratorWords(n, w)
       [] n.k = "params" ->
            Sign("(")
              \o Joined(ParamWords(n.args, w)
                          \o (IF n.what = "variadic" THEN <<Sign("...")>> ELSE <<>>), Sign(","))
              \o Sign(")")
       [] n.k = "fn" ->
            StorageWords(n.ty.storage) \o SpecWords(n.ty.ret) \o PointerWords(n.ty.ret)
              \o Word("ident", n.what, {}) \o w[1] \o (IF Len(w) = 1 THEN Sign(";") ELSE w[2])

\* The items: the variables of one declaration have their start in common.
ItemWords(items) ==
  LET w == [i \in DOMAIN items |-> Words(items[i])]
      With(i) == SelectSeq([j \in DOMAIN items |-> j],
                   LAMBDA j : items[j].k = "var" /\ items[j].span.lo = items[i].span.lo)
      Together(js) == VarWords([i \in DOMAIN js |-> items[js[i]]], [i \in DOMAIN js |-> w[js[i]]])
  IN FlattenSeq([i \in DOMAIN items |->
       IF items[i].k = "fn" THEN w[i] ELSE IF With(i)[1] = i THEN Together(With(i)) ELSE <<>>])

-----------------------------------------------------------------------------
(* The words of the tokens: what names a type, and which attributes matter.   *)

\* The specifiers a type must and may have.
CTypes ==
  [void |-> <<<<"void">>, {}>>, bool |-> <<<<"bool">>, {}>>,
   float |-> <<<<"float">>, {}>>, double |-> <<<<"double">>, {}>>,
   ldouble |-> <<<<"long", "double">>, {}>>,
   char |-> <<<<"char">>, {}>>, schar |-> <<<<"char", "signed">>, {}>>,
   uchar |-> <<<<"char", "unsigned">>, {}>>,
   short |-> <<<<"short">>, {"signed", "int"}>>, ushort |-> <<<<"short", "unsigned">>, {"int"}>>,
   int |-> <<<<>>, {"signed", "int"}>>, uint |-> <<<<"unsigned">>, {"int"}>>,
   long |-> <<<<"long">>, {"signed", "int"}>>, ulong |-> <<<<"long", "unsigned">>, {"int"}>>,
   llong |-> <<<<"long", "long">>, {"signed", "int"}>>,
   ullong |-> <<<<"long", "long", "unsigned">>, {"int"}>>]

Times(ks, k) == Len(SelectSeq(ks, LAMBDA x : x = k))

NamesType(ks, t) ==
  \A k \in TypeSpecs :
    Times(ks, k) - Times(CTypes[t][1], k) \in 0 .. IF k \in CTypes[t][2] THEN 1 ELSE 0

\* A run that is not C is not held against the parser ("any").
MeaningOf(ks) ==
  LET types == {t \in DOMAIN CTypes : NamesType(ks, t)}
  IN IF types = {} THEN "any" ELSE CHOOSE t \in types : TRUE

TypeWords == TypeSpecs \cup Qualifiers

\* The attribute list that opens at p: <<>>, or its last token and the ownership
\* words in it.
AttributesAt(p) ==
  LET ends == {r \in p + 3 .. Len(tokens) : Kind(r - 1) = "]" /\ Kind(r) = "]"}
      owned == {q \in p .. Min(ends) : Text(q) \in DOMAIN OwnershipOf}
  IN IF ~OpensAttributes(p) \/ ends = {} THEN <<>>
     ELSE <<[end |-> Min(ends),
             words |-> IF owned = {} THEN <<>> ELSE AttributeWords(Text(Max(owned)))]>>

\* A list before a type is about the outermost pointer: the last star before the
\* declared name.
IsLeading(p) == AttributesAt(p) # <<>> /\ Kind(AttributesAt(p)[1].end + 1) \in TypeWords

StarOf(p) ==
  LET behind == After(AttributesAt(p)[1].end + 1, TypeWords)
      name == After(behind, Qualifiers \cup {"*"})
  IN {q \in behind .. name : Kind(q) = "*" /\ \A r \in q + 1 .. name : Kind(r) # "*"}

\* `(void)` is an empty list.
IsVoidList(p) ==
  Kind(p) = "void" /\ Kind(p - 1) = "(" /\ Kind(p + 1) = ")" /\ Kind(p - 2) = "ident"

TokenWords ==
  LET lists == {p \in DOMAIN tokens : AttributesAt(p) # <<>>}
      inList == UNION {p .. AttributesAt(p)[1].end : p \in lists}
      leading == {p \in lists : IsLeading(p)}
      Qualified(p) == QualifiersIn(KindsOf(p + 1, After(p + 1, Qualifiers)))
      WordAt(p) ==
        IF p \in lists \ leading THEN AttributesAt(p)[1].words
        ELSE IF p \in inList \/ IsVoidList(p) THEN <<>>
        ELSE IF Kind(p) = "*"
        THEN LET owner == {l \in leading : p \in StarOf(l)}
             IN Word("*", "", Qualified(p))
                  \o (IF owner = {} THEN <<>> ELSE AttributesAt(Max(owner))[1].words)
        ELSE IF Kind(p) \notin TypeWords THEN Word(Kind(p), Text(p), {})
        ELSE IF Kind(p - 1) \in TypeWords \cup {"*"} THEN <<>>
        ELSE LET ks == KindsOf(p, After(p, TypeWords))
             IN Word("type", MeaningOf(SelectSeq(ks, LAMBDA k : k \in TypeSpecs)), QualifiersIn(ks))
  IN FlattenSeq([p \in 1 .. Len(tokens) - 1 |-> WordAt(p)])

\* C89's implicit int: where the tokens have no type.
Untyped(ws) == SelectSeq(ws, LAMBDA w : w.k # "type")

Says(ws, written) ==
  IF Len(ws) = Len(written)
  THEN \A i \in DOMAIN ws :
         ws[i] = written[i] \/ (ws[i].k = "type" /\ ws[i] = [written[i] EXCEPT !.text = "any"])
  ELSE Untyped(ws) = Untyped(written)

-----------------------------------------------------------------------------
(* Trees of the grammar: how tightly the operator of an expression binds      *)
(* (C17, 6.5.1 to 6.5.17, from the primary expressions to the comma).         *)

BinaryLevel(op) ==
  CASE op \in {"*", "/", "%"} -> 12             \* 6.5.5
    [] op \in {"+", "-"} -> 11                  \* 6.5.6
    [] op \in {"<<", ">>"} -> 10                \* 6.5.7
    [] op \in {"<", ">", "<=", ">="} -> 9       \* 6.5.8
    [] op \in {"==", "!="} -> 8                 \* 6.5.9
    [] op = "&" -> 7
    [] op = "^" -> 6
    [] op = "|" -> 5
    [] op = "&&" -> 4                           \* 6.5.13
    [] op = "||" -> 3

LevelOf(n) ==
  CASE n.k = "comma" -> 0
    [] n.k = "assign" -> 1
    [] n.k = "ternary" -> 2
    [] n.k = "binary" -> BinaryLevel(n.what)
    [] n.k = "cast" -> 13
    [] n.k \in {"unary", "sizeof"} -> 14
    [] n.k \in {"postfix", "member", "arrow", "index", "call"} -> 15
    [] OTHER -> 16

\* sizeof, ++ and -- take an expression that is no cast; sizeof ( int ) has a type.
TakesUnary(n) == n.k = "sizeof" \/ (n.k = "unary" /\ n.what \in {"pre_inc", "pre_dec"})

\* The level each part of an expression must at least have.  As in most compilers,
\* an assignment may stand behind a colon, and what it assigns to is a question of
\* types (IsLvalue in TypeCheck).
PartLevels(n) ==
  CASE n.k = "binary" -> <<LevelOf(n), LevelOf(n) + 1>>
    [] n.k = "assign" -> <<3, 1>>
    [] n.k = "ternary" -> <<3, 0, 1>>
    [] n.k \in {"unary", "sizeof", "cast"} -> IF TakesUnary(n) THEN <<14>> ELSE <<13>>
    [] n.k \in {"postfix", "member", "arrow"} -> <<15>>
    [] n.k = "index" -> <<15, 0>>
    [] n.k = "call" -> [i \in DOMAIN n.args |-> IF i = 1 THEN 15 ELSE 1]
    [] n.k \in {"comma", "var"} -> [i \in DOMAIN Parts(n) |-> 1]
    [] OTHER -> [i \in DOMAIN n.args |-> 0]

\* An else would belong to an if at the end of s.
RECURSIVE TakesElse(_)
TakesElse(s) ==
  \/ s.k = "if" /\ Len(s.args) = 2
  \/ s.k \in {"if", "while", "for"} /\ TakesElse(Last(s.args))

RECURSIVE IsGrammatical(_)
IsGrammatical(n) ==
  /\ \A i \in DOMAIN Parts(n) :
       IsGrammatical(Parts(n)[i]) /\ LevelOf(Parts(n)[i]) >= PartLevels(n)[i]
  /\ n.k = "if" /\ Len(n.args) = 3 => ~TakesElse(n.args[2])

RECURSIVE SubTrees(_)
SubTrees(n) == {n} \cup UNION {SubTrees(p) : p \in Range(Parts(n))}

\* Trees that the code makes and C does not: sizeof, ++ or -- of a cast (so that
\* sizeof (int) * x is sizeof ((int) *x)), and arrays of arrays, whose bounds it
\* nests the wrong way round (int x[1][2] is two arrays of one).
SizesCast(n) == TakesUnary(n) /\ n.args[1].k = "cast"
NestsArrays(n) == n.k = "var" /\ Len(LayersOf(n.ty, "array")) > 1

Misread(trees) == \E n \in UNION {SubTrees(t) : t \in trees} : SizesCast(n) \/ NestsArrays(n)

-----------------------------------------------------------------------------
(* Positions.  Spans tell them as long as all tokens are of one file.         *)

OneFile == \A p \in DOMAIN tokens : tokens[p].file = tokens[1].file

Blocks(n) == {b \in SubTrees(n) : b.k \in {"block", "unsafe"}}

\* The first token after the brace at p that closes it, or the end of the file.
MatchingBrace(p) ==
  LET closing == {q \in p + 1 .. Len(tokens) :
                    Kind(q) = "eof" \/ (Kind(q) = "}" /\ Depth(p, q) = 1)}
  IN Min(closing)

\* The tokens between the items, and between the statements of their blocks.  The
\* span of an unsafe block is that of its braces.
StmtLo(n) == IF n.k = "unsafe" THEN n.span.lo - 1 ELSE n.span.lo
Covered(nodes) == UNION {StmtLo(n) .. n.span.hi : n \in nodes}

Vars == {n \in Range(vals) : n.k = "var"}
Semicolons == {p \in 2 .. Len(tokens) : Kind(p) = ";" /\ p - 1 \in Covered(Vars)}

\* The brace that closes a block may be missing.
Inside(b) == (b.span.lo + 1) .. (IF Kind(b.span.hi) = "}" THEN b.span.hi - 1 ELSE b.span.hi)

LostTokens ==
  ((1 .. Len(tokens) - 1) \ (Covered(Range(vals)) \cup Semicolons))
    \cup UNION {Inside(b) \ Covered(Range(b.args)) : b \in UNION {Blocks(n) : n \in Range(vals)}}

-----------------------------------------------------------------------------
(* Properties.                                                                *)

Finished == Done /\ ~panicked

\* The attribute lists that the end of the file cuts off take the end with them.
RanPastEof == pos > Len(tokens)

\* A module without a diagnostic has the one tree of the grammar that is written
\* with its tokens: nothing is skipped, and every operator has the operands that
\* its precedence and associativity in C give it.  Modules with a tree the code
\* misreads are set aside.
AcceptedIsTheSource ==
  Finished /\ diagnostics = <<>> /\ ~RanPastEof /\ ~Misread(Range(vals)) =>
    /\ Says(TokenWords, ItemWords(vals))
    /\ \A n \in Range(vals) : IsGrammatical(n)

\* Recovery may skip tokens, but never without a diagnostic where it does: every
\* run of tokens that is in no item or statement has one in it or right behind it.
NothingIsLostSilently ==
  Finished /\ ~RanPastEof /\ OneFile =>
    \A p \in LostTokens :
      \E d \in Range(diagnostics) :
        Min({p, d.at}) .. Max({p, d.at - 1}) \subseteq LostTokens

\* However statements are recovered from, a block ends at the brace that closes
\* it, so that an error never moves statements into or out of a block.
BracesMatch ==
  Finished /\ OneFile /\ (\A p \in DOMAIN tokens : ~OpensAttributes(p)) =>
    \A n \in Range(vals) :
      \A b \in Blocks(n) :
        b.span.hi = LET q == MatchingBrace(b.span.lo) IN IF Kind(q) = "}" THEN q ELSE q - 1
=============================================================================
