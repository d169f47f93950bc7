------------------------------- MODULE Parser -------------------------------
(***************************************************************************)
(* The parser (crates/rccx_parser): recursive descent over the tokens of   *)
(* the preprocessor, with recovery from syntax errors.                     *)
(*                                                                         *)
(* As in TypeCheck, `todo` is the list of what is left to do: the pending  *)
(* calls of the recursive Rust methods and the code that follows them in   *)
(* their callers.  A step takes the first task.  `vals` is the stack of    *)
(* the AST nodes that pending code has in its local variables, and at the  *)
(* end the items of the module.  A method that returns None gives up every *)
(* caller that passes the None on (with `?`) up to the first that handles  *)
(* it: the loops over items and over the statements of a block, and an     *)
(* array bound.                                                            *)
(*                                                                         *)
(* A token is [k, text, file]: punctuation and keywords are their own      *)
(* kind, and text is what an identifier or a literal says.  Keywords with  *)
(* two spellings have one.  A token's place in its file is its place in    *)
(* the list.  The wording of messages is left out: a diagnostic is its     *)
(* code and the token it is at.  AST nodes are those of TypeCheck, with    *)
(* the span of their tokens; integers are what they say.                   *)
(***************************************************************************)
EXTENDS Integers, SequencesExt, FiniteSetsExt

CONSTANTS
  Texts  \* the token lists Init may pick

\* The preprocessor ends every list with an eof token.
TextsAssumption ==
  \A ts \in Texts :
    /\ ts \in Seq([k : STRING \ {"none"}, text : STRING, file : Nat])
    /\ ts # <<>> /\ Last(ts).k = "eof"

ASSUME TextsAssumption

VARIABLES
  tokens,       \* Parser::tokens
  pos,          \* Parser::pos, from 1
  diagnostics,  \* Parser::diagnostics
  todo,         \* what is left to do, first task first
  vals,         \* AST nodes in pending code, last one last
  panicked      \* a debug assertion has failed

vars == <<tokens, pos, diagnostics, todo, vals, panicked>>

-----------------------------------------------------------------------------
(* The cursor.                                                                *)

\* The last one is the end of the list.
Places == 1 .. Len(tokens) + 1

Kind(p) == IF p \in DOMAIN tokens THEN tokens[p].k ELSE "none"
Text(p) == tokens[p].text

IsEof == Kind(pos) \in {"none", "eof"}

Count(k, from, to) == Cardinality({p \in from .. to : Kind(p) = k})

\* The first token from p on whose kind is not one of kinds.
After(p, kinds) == Min({q \in p .. Len(tokens) + 1 : Kind(q) \notin kinds})

Error(code, p) == <<[code |-> code, at |-> Min({p, Len(tokens)})]>>

(* Spans: a file, and the first and the last token.                           *)

TokenSpan(p) == [file |-> tokens[p].file, lo |-> p, hi |-> p]

Join(a, b) == [file |-> a.file, lo |-> Min({a.lo, b.lo}), hi |-> Max({a.hi, b.hi})]

SpanFrom(start) ==
  LET last == TokenSpan(Max({pos - 1, 1}))
  IN IF last.file = start.file THEN Join(start, last) ELSE start

Depth(p, q) == Count("{", p, q - 1) - Count("}", p, q - 1)

\* Mutant: the braces that open are not counted.
SyncAfterStatement_NotCounted(p) ==
  LET stops == {q \in p .. Len(tokens) : Kind(q) \in {"eof", ";", "}"}}
      stop == Min(stops)
  IN IF stops = {} THEN Len(tokens) + 1
     ELSE IF Kind(stop) = ";" THEN stop + 1 ELSE stop

\* sync_after_statement: a semicolon outside of the braces that open from p on
\* is skipped too, a brace that closes none of them is not.
SyncAfterStatement(p) ==
  LET stops == {q \in p .. Len(tokens) :
                  \/ Kind(q) = "eof"
                  \/ Kind(q) \in {";", "}"} /\ Depth(p, q) = 0}
      stop == Min(stops)
  IN IF stops = {} THEN Len(tokens) + 1
     ELSE IF Kind(stop) = ";" THEN stop + 1 ELSE stop

-----------------------------------------------------------------------------
(* What the methods that only loop over tokens find from token p on.          *)

StorageSpecs == {"static", "extern", "auto", "register", "inline", "_Noreturn", "thread_local"}
Qualifiers == {"const", "volatile", "restrict", "_Atomic"}
BaseSpecs == {"void", "bool", "char", "int", "float", "double"}
Signs == {"signed", "unsigned"}
TypeSpecs == BaseSpecs \cup Signs \cup {"short", "long"}

\* The places where a loop that is at p begins its rounds, and the one where it ends:
\* a round that begins at q goes on to next[q].
Stops(next, p) ==
  LET from[q \in DOMAIN next] == IF next[q] = q THEN <<q>> ELSE <<q>> \o from[next[q]]
  IN from[p]

KindsOf(from, to) == [i \in 1 .. to - from |-> Kind(from + i - 1)]

(* parse_safec_attrs: attribute lists and the ownerships they name.           *)

OwnershipOf == [owner |-> "owner", borrow |-> "borrow", borrow_mut |-> "borrow_mut"]

\* Behind the parenthesis that matches the one at p, if any does.
AfterParens(p) ==
  LET closing == {q \in p + 1 .. Len(tokens) : Count("(", p, q) = Count(")", p, q)}
  IN IF closing = {} THEN Len(tokens) + 1 ELSE Min(closing) + 1

\* One attribute: a name, a qualified name that may have arguments, or any other
\* token.
AfterArguments(p) == IF Kind(p) = "(" THEN AfterParens(p) ELSE p

AfterAttribute(p) ==
  IF Kind(p) = "none" THEN p
  ELSE IF KindsOf(p, p + 2) # <<"ident", "::">> THEN p + 1
  ELSE AfterArguments(IF Kind(p + 2) = "ident" THEN p + 3 ELSE p + 2)

OwnershipAt(p) ==
  IF /\ KindsOf(p, p + 3) = <<"ident", "::", "ident">>
     /\ Text(p) = "sc" /\ Text(p + 2) \in DOMAIN OwnershipOf
  THEN <<OwnershipOf[Text(p + 2)]>> ELSE <<>>

AttributeEnd(p) == IF Kind(p) = "]" THEN p ELSE AfterAttribute(p)

\* The brackets that close a list are passed over, if they are there.
Closed(p) == IF Kind(p) # "]" THEN p ELSE IF Kind(p + 1) # "]" THEN p + 1 ELSE p + 2

\* Where a list of attributes ends, and the ownerships in it.
AttributeList(p) ==
  LET Next(q, end) == IF Kind(end) = "," THEN end + 1 ELSE q
      Of(starts) ==
        [end |-> Closed(AttributeEnd(Last(starts))),
         owns |-> FlattenSeq([i \in DOMAIN starts |-> OwnershipAt(starts[i])])]
  IN Of(Stops([q \in Places |-> Next(q, AttributeEnd(q))], p))

OpensAttributes(p) == Kind(p) = "[" /\ Kind(p + 1) = "["

\* The last ownership counts.
Attributes(p) ==
  LET Of(lists, owns) ==
        [end |-> Last(lists), own |-> IF owns = <<>> THEN "raw" ELSE Last(owns)]
      Named(lists) ==
        Of(lists, FlattenSeq([i \in 1 .. Len(lists) - 1 |-> AttributeList(lists[i] + 2).owns]))
  IN Named(
       Stops([q \in Places |-> IF OpensAttributes(q) THEN AttributeList(q + 2).end ELSE q], p))

(* parse_type_specifier.  Types are written as in TypeCheck, with qualifiers. *)

LastOf(ks, kinds) ==
  LET found == SelectSeq(ks, LAMBDA k : k \in kinds)
  IN IF found = <<>> THEN "" ELSE Last(found)

CharTypes == "" :> "char" @@ "signed" :> "schar" @@ "unsigned" :> "uchar"
IntTypes ==
  <<1, 0>> :> <<"short", "ushort">> @@ <<0, 0>> :> <<"int", "uint">>
    @@ <<0, 1>> :> <<"long", "ulong">> @@ <<0, 2>> :> <<"llong", "ullong">>

\* The base type that a run of specifiers and qualifiers means: <<>> or its name.
BaseType(ks) ==
  LET base == LastOf(ks, BaseSpecs)
      sign == LastOf(ks, Signs)
      length == <<Len(SelectSeq(ks, LAMBDA k : k = "short")),
                  Len(SelectSeq(ks, LAMBDA k : k = "long"))>>
      signless == sign = ""
  IN IF base \in {"void", "bool", "float", "double"} /\ length = <<0, 0>> /\ signless THEN <<base>>
     ELSE IF base = "double" /\ length = <<0, 1>> /\ signless THEN <<"ldouble">>
     ELSE IF base = "char" /\ length = <<0, 0>> THEN <<CharTypes[sign]>>
     ELSE IF length \in DOMAIN IntTypes
     THEN <<IntTypes[length][IF sign = "unsigned" THEN 2 ELSE 1]>>
     ELSE <<>>

QualifiersIn(ks) == Range(ks) \cap Qualifiers

\* The type of a declared variable has the storage of the declaration with it.
Written(base, quals) == [base |-> base, quals |-> quals, layers |-> <<>>, storage |-> <<>>]

\* [end, errors, ty]: ty is <<>> if there is none.
Specified(end, errors, base, quals) ==
  [end |-> end,
   errors |-> IF base = <<>> THEN errors \o Error("E0304", end) ELSE errors,
   ty |-> IF base = <<>> THEN <<>> ELSE <<Written(base[1], quals)>>]

\* Other base specifiers do not go before `void`.
VoidErrors(p, end) ==
  LET voids == {q \in p .. end - 1 : Kind(q) = "void" /\ \E r \in p .. q - 1 : Kind(r) \in BaseSpecs}
  IN FlattenSeq([i \in 1 .. end - p |->
                   IF p + i - 1 \in voids THEN Error("E0306", p + i - 1) ELSE <<>>])

TypeSpecifier(p) ==
  LET end == After(p, TypeSpecs \cup Qualifiers)
      ks == KindsOf(p, end)
  IN IF Kind(p) = "none" THEN [end |-> p, errors |-> <<>>, ty |-> <<>>]
     ELSE Specified(end, VoidErrors(p, end), BaseType(ks), QualifiersIn(ks))

PointerLayer(own, quals) == [k |-> "pointer", own |-> own, size |-> <<>>, quals |-> quals]
ArrayLayer(size) == [k |-> "array", own |-> "raw", size |-> size, quals |-> {}]

Wrapped(ty, layer) == [ty EXCEPT !.layers = <<layer>> \o @]

\* The pointer level at p; those of a cast have no attributes.
Level(p, attributed) ==
  LET With(q, attrs) ==
        [end |-> attrs.end, layer |-> PointerLayer(attrs.own, QualifiersIn(KindsOf(p + 1, q)))]
      From(q) == With(q, IF attributed THEN Attributes(q) ELSE [end |-> q, own |-> "raw"])
  IN From(After(p + 1, Qualifiers))

\* Pointer levels of ty, the last one outermost.
Pointers(p, ty, attributed) ==
  LET Levels(stars) == [i \in 1 .. Len(stars) - 1 |-> Level(stars[i], attributed).layer]
      Of(stars) ==
        [end |-> Last(stars), ty |-> [ty EXCEPT !.layers = Reverse(Levels(stars)) \o @]]
  IN Of(Stops([q \in Places |-> IF Kind(q) = "*" THEN Level(q, attributed).end ELSE q], p))

ApplyOutermostOwnership(ty, own) ==
  IF own = "raw" \/ ty.layers = <<>> THEN ty ELSE [ty EXCEPT !.layers[1].own = own]

\* Storage, attributes and type specifiers, as far as a declaration's names share
\* them.
Specifiers(p) ==
  LET With(q, attrs, spec) ==
        [end |-> spec.end, errors |-> spec.errors, ty |-> spec.ty,
         own |-> attrs.own, storage |-> KindsOf(p, q)]
      Typed(q, attrs) == With(q, attrs, TypeSpecifier(attrs.end))
      From(q) == Typed(q, Attributes(q))
  IN From(After(p, StorageSpecs))

AfterBrackets(p) ==
  LET closing == {q \in p .. Len(tokens) - 1 : Kind(q) = "]" /\ Kind(q + 1) = "]"}
  IN IF closing = {} THEN Len(tokens) + 1 ELSE Min(closing) + 2

LooksLikeDeclStart(p) ==
  LET skipped ==
        Stops([q \in Places |-> IF OpensAttributes(q) THEN AfterBrackets(q + 2) ELSE q], p)
  IN Kind(Last(skipped)) \in TypeSpecs \cup Qualifiers \cup StorageSpecs

-----------------------------------------------------------------------------
(* Operators.                                                                 *)

AssignOps == {"=", "+=", "-=", "*=", "/=", "%=", "<<=", ">>=", "&=", "^=", "|="}

UnaryOps ==
  [op \in {"+", "-", "!", "~", "*", "&", "++", "--"} |->
     CASE op = "+" -> "plus" [] op = "-" -> "neg" [] op = "!" -> "not" [] op = "~" -> "bit_not"
       [] op = "*" -> "deref" [] op = "&" -> "addr_of" [] op = "++" -> "pre_inc"
       [] op = "--" -> "pre_dec"]

\* binop_for, loosest first
BinaryOps ==
  <<{"||"}, {"&&"}, {"|"}, {"^"}, {"&"}, {"==", "!="}, {"<", ">", "<=", ">="}, {"<<", ">>"},
    {"+", "-"}, {"*", "/", "%"}>>

Precedence ==
  [op \in UNION Range(BinaryOps) |-> CHOOSE level \in DOMAIN BinaryOps : op \in BinaryOps[level]]

PostfixOps == [op \in {"++", "--"} |-> IF op = "++" THEN "inc" ELSE "dec"]
MemberKind == [op \in {".", "->"} |-> IF op = "." THEN "member" ELSE "arrow"]

Leaves == {"ident", "int_lit", "float_lit", "string_lit", "char_lit"}

-----------------------------------------------------------------------------
(* Nodes and tasks.                                                           *)

NoType == Written("none", {})
N(k, what, args, ty, span) == [k |-> k, what |-> what, args |-> args, ty |-> ty, span |-> span]
EmptyNode == N("empty", "", <<>>, NoType, TokenSpan(1))

Call(name) == [do |-> name]
Expect(k) == [do |-> "expect", k |-> k]
BlockOf(k) == [do |-> "block", k |-> k]
Slot(k) == [do |-> "slot", k |-> k]
Climb(min) == [do |-> "climb", min |-> min]

\* A node of the values above the first `from`.  Its span begins with `first`;
\* how it ends depends on the code: joined with the last value's or the last
\* token's, or with span_from.
Make(k, what, ty, first, from, ends) ==
  [do |-> "make", k |-> k, what |-> what, ty |-> ty, first |-> first, from |-> from, ends |-> ends]

\* Of the node on top of vals, or of the token at p, and what is parsed from now on.
MakeFromTop(k, what, ends) == Make(k, what, NoType, Last(vals).span, Len(vals) - 1, ends)
MakeFromToken(k, what, p, ends) == Make(k, what, NoType, TokenSpan(p), Len(vals), ends)

\* The callers that handle a None.
Loop(name, p, height) ==
  [do |-> name, ok |-> TRUE, at |-> p, height |-> height]
Handlers == {"items", "stmts", "array_end"}

At(name) == todo # <<>> /\ Head(todo).do = name
Task == Head(todo)

\* The first task is done: go on at p with ts, and the values vs.
Step(p, ts, vs, errors) ==
  /\ pos' = p
  /\ todo' = ts \o Tail(todo)
  /\ vals' = vs
  /\ diagnostics' = diagnostics \o errors
  /\ UNCHANGED <<tokens, panicked>>

Go(p, ts) == Step(p, ts, vals, <<>>)
Push(p, n) == Step(p, <<>>, Append(vals, n), <<>>)

\* The first task returns None at p.
Fail(p, errors) ==
  LET handler == Min({i \in DOMAIN todo : i > 1 /\ todo[i].do \in Handlers})
  IN /\ pos' = p
     /\ todo' = <<[todo[handler] EXCEPT !.ok = FALSE]>> \o SubSeq(todo, handler + 1, Len(todo))
     /\ diagnostics' = diagnostics \o errors
     /\ UNCHANGED <<tokens, vals, panicked>>

ExpectToken_Silent ==
  /\ At("expect")
  /\ IF Kind(pos) = Task.k THEN Go(pos + 1, <<>>) ELSE Fail(pos, <<>>)

ExpectToken ==
  /\ At("expect")
  /\ IF Kind(pos) = Task.k THEN Go(pos + 1, <<>>) ELSE Fail(pos, Error("E0302", pos))

MakeNode ==
  /\ At("make")
  /\ LET args == SubSeq(vals, Task.from + 1, Len(vals))
         last == IF Task.ends = "value" THEN Last(args).span ELSE TokenSpan(pos - 1)
         span == IF Task.ends = "written" THEN SpanFrom(Task.first) ELSE Join(Task.first, last)
     IN /\ Task.ends # "written" => Task.first.file = last.file
        /\ Step(pos, <<>>,
                Append(SubSeq(vals, 1, Task.from), N(Task.k, Task.what, args, Task.ty, span)), <<>>)

JoinAcrossFiles_EverySpan ==
  /\ At("make")
  /\ LET last == IF Task.ends = "value" THEN Last(vals).span ELSE TokenSpan(pos - 1)
     IN Task.first.file # last.file
  /\ panicked' = TRUE
  /\ todo' = <<>>
  /\ UNCHANGED <<tokens, pos, diagnostics, vals>>

\* Span::join asserts that both spans are in one file (a debug build).
JoinAcrossFiles ==
  /\ At("make")
  /\ Task.ends # "written"
  /\ LET last == IF Task.ends = "value" THEN Last(vals).span ELSE TokenSpan(pos - 1)
     IN Task.first.file # last.file
  /\ panicked' = TRUE
  /\ todo' = <<>>
  /\ UNCHANGED <<tokens, pos, diagnostics, vals>>

-----------------------------------------------------------------------------
(* Items.                                                                     *)

Init ==
  /\ tokens \in Texts
  /\ pos = 1
  /\ diagnostics = <<>>
  /\ todo = <<Loop("items", 0, 0)>>
  /\ vals = <<>>
  /\ panicked = FALSE

NextItem ==
  /\ At("items") /\ Task.ok /\ ~IsEof
  /\ Go(pos, <<Call("item"), Loop("items", pos, Len(vals))>>)

EndItems ==
  /\ At("items") /\ Task.ok /\ IsEof
  /\ Go(pos, <<>>)

Recover_NoBump ==
  /\ \/ At("items")
     \/ At("stmts")
  /\ ~Task.ok
  /\ Step(SyncAfterStatement(pos), <<[Task EXCEPT !.ok = TRUE]>>, SubSeq(vals, 1, Task.height), <<>>)

Recover_PastEof ==
  /\ \/ At("items")
     \/ At("stmts")
  /\ ~Task.ok
  /\ LET start == IF pos = Task.at \/ Kind(pos) = "none" THEN pos + 1 ELSE pos
     IN Step(Max({start, SyncAfterStatement(start)}), <<[Task EXCEPT !.ok = TRUE]>>,
             SubSeq(vals, 1, Task.height), <<>>)

\* Both loops force progress before they synchronize.
Recover ==
  /\ \/ At("items")
     \/ At("stmts")
  /\ ~Task.ok
  /\ LET start == IF pos = Task.at /\ Kind(pos) # "none" THEN pos + 1 ELSE pos
     IN Step(SyncAfterStatement(start), <<[Task EXCEPT !.ok = TRUE]>>,
             SubSeq(vals, 1, Task.height), <<>>)

\* What the names of a declaration share; `at` is where it starts.
Shared(s, p, local) ==
  [base |-> s.ty[1], own |-> s.own, storage |-> s.storage, at |-> p, local |-> local]

Of(name, c) == [do |-> name, c |-> c]

Declaration(s, local, ts(_)) ==
  IF s.ty = <<>> THEN Fail(s.end, s.errors)
  ELSE Step(s.end, ts(Shared(s, pos, local)), vals, s.errors)

ParseItem ==
  /\ At("item")
  /\ Declaration(Specifiers(pos), FALSE, LAMBDA c : <<Of("declarator", c), Of("item_form", c)>>)

\* A var node with the declared type; its span is the name's for now.
DeclareVar(d, own) ==
  IF Kind(d.end) # "ident" THEN Fail(d.end, Error("E0305", d.end))
  ELSE Push(d.end + 1, N("var", Text(d.end), <<>>, ApplyOutermostOwnership(d.ty, own),
                         TokenSpan(d.end)))

ParseDeclarator ==
  /\ At("declarator")
  /\ IF Kind(pos) = "none" THEN Fail(pos, <<>>)
     ELSE DeclareVar(Pointers(pos, Task.c.base, TRUE), Task.c.own)

VarTasks(c) == <<Call("array"), Call("init"), Of("finish_var", c), Of("more", c)>>

ParseItemForm ==
  /\ At("item_form")
  /\ IF Kind(pos) = "("
     THEN Go(pos + 1, <<Call("params"), Expect(")"), Call("body"),
                        [do |-> "finish_fn", c |-> Task.c, from |-> Len(vals) - 1]>>)
     ELSE Go(pos, VarTasks(Task.c))

EditTop(n) == Append(Front(vals), n)

\* An array suffix of the var on top of vals.
ParseArraySuffix ==
  /\ At("array")
  /\ IF Kind(pos) # "[" THEN Go(pos, <<>>)
     ELSE IF Kind(pos + 1) = "]" THEN Go(pos + 1, <<Loop("array_end", pos, Len(vals))>>)
     ELSE Go(pos + 1, <<Call("assignment"), Loop("array_end", pos, Len(vals))>>)

\* An error in the bound, or a missing bracket, is reported and no more.
FinishArraySuffix ==
  /\ At("array_end")
  /\ LET var == vals[Task.height]
         size == IF Task.ok THEN SubSeq(vals, Task.height + 1, Len(vals)) ELSE <<>>
         closed == Kind(pos) = "]"
     IN Step(IF closed THEN pos + 1 ELSE pos, <<Call("array")>>,
             Append(SubSeq(vals, 1, Task.height - 1),
                    [var EXCEPT !.ty = Wrapped(@, ArrayLayer(size))]),
             IF closed THEN <<>> ELSE Error("E0302", pos))

ParseInitializer ==
  /\ At("init")
  /\ Go(IF Kind(pos) = "=" THEN pos + 1 ELSE pos,
        IF Kind(pos) = "=" THEN <<Call("assignment"), Call("attach")>> ELSE <<>>)

AttachInitializer ==
  /\ At("attach")
  /\ LET var == vals[Len(vals) - 1]
     IN Step(pos, <<>>,
             Append(SubSeq(vals, 1, Len(vals) - 2), [var EXCEPT !.args = <<Last(vals)>>]), <<>>)

\* The span of a local begins with its name, that of a global with its specifiers.
FinishVar ==
  /\ At("finish_var")
  /\ LET start == IF Task.c.local THEN Last(vals).span ELSE TokenSpan(Task.c.at)
         var == [Last(vals) EXCEPT !.span = SpanFrom(start), !.ty.storage = Task.c.storage]
     IN Step(pos, <<>>, EditTop(var), <<>>)

ParseMore ==
  /\ At("more")
  /\ IF Kind(pos) = "," THEN Go(pos + 1, <<Of("declarator", Task.c)>> \o VarTasks(Task.c))
     ELSE Go(pos, <<Expect(";")>>)

-----------------------------------------------------------------------------
(* Functions.                                                                 *)

Param(from) == [do |-> "param", from |-> from]
MoreParams(from) == [do |-> "param_more", from |-> from]
EndParams(arity, from) == Make("params", arity, NoType, TokenSpan(1), from, "written")

ParseParamList ==
  /\ At("params")
  /\ LET none == EndParams("fixed", Len(vals)) IN
     IF Kind(pos) = ")" THEN Go(pos, <<none>>)
     ELSE IF Kind(pos) = "void" /\ Kind(pos + 1) = ")" THEN Go(pos + 1, <<none>>)
     ELSE Go(pos, <<Param(Len(vals))>>)

\* The name may be missing.
DeclareParam(d, own, errors) ==
  LET named == Kind(d.end) = "ident"
      param == N("var", IF named THEN Text(d.end) ELSE "", <<>>,
                 ApplyOutermostOwnership(d.ty, own), TokenSpan(pos))
  IN Step(IF named THEN d.end + 1 ELSE d.end, <<Call("array"), MoreParams(Task.from)>>,
          Append(vals, param), errors)

\* Without a type the list just ends.
DeclareTyped(spec, own) ==
  IF spec.ty = <<>> THEN Step(spec.end, <<EndParams("fixed", Task.from)>>, vals, spec.errors)
  ELSE DeclareParam(Pointers(spec.end, spec.ty[1], TRUE), own, spec.errors)

ParseParam ==
  /\ At("param")
  /\ LET With(attrs) == DeclareTyped(TypeSpecifier(attrs.end), attrs.own)
     IN IF Kind(pos) = "..." THEN Go(pos + 1, <<EndParams("variadic", Task.from)>>)
        ELSE IF Kind(pos) = "none" THEN Go(pos, <<EndParams("fixed", Task.from)>>)
        ELSE With(Attributes(pos))

ParseMoreParams ==
  /\ At("param_more")
  /\ LET param == [Last(vals) EXCEPT !.span = SpanFrom(@)]
         more == Kind(pos) = ","
     IN Step(IF more THEN pos + 1 ELSE pos,
             <<IF more THEN Param(Task.from) ELSE EndParams("fixed", Task.from)>>,
             EditTop(param), <<>>)

ParseBody ==
  /\ At("body")
  /\ Go(pos, IF Kind(pos) = "{" THEN <<BlockOf("block")>> ELSE <<Expect(";")>>)

\* The declarator, the parameters and the body, if there is one, become the function.
FinishFn ==
  /\ At("finish_fn")
  /\ LET declarator == vals[Task.from + 1]
         parts == SubSeq(vals, Task.from + 2, Len(vals))
         ty == [ret |-> declarator.ty, arity |-> parts[1].what, storage |-> Task.c.storage]
     IN Step(pos, <<>>,
             Append(SubSeq(vals, 1, Task.from),
                    N("fn", declarator.what, parts, ty, SpanFrom(TokenSpan(Task.c.at)))), <<>>)

-----------------------------------------------------------------------------
(* Statements.                                                                *)

ParseBlock ==
  /\ At("block")
  /\ Go(pos + 1, <<Loop("stmts", pos, Len(vals)),
                   [do |-> "block_end", k |-> Task.k, open |-> pos, from |-> Len(vals)]>>)

NextStmt ==
  /\ At("stmts") /\ Task.ok
  /\ ~IsEof /\ Kind(pos) # "}"
  /\ Go(pos, <<Call("stmt"), Loop("stmts", pos, Len(vals))>>)

EndStmts ==
  /\ At("stmts") /\ Task.ok
  /\ IsEof \/ Kind(pos) = "}"
  /\ Go(pos, <<>>)

\* A missing brace is reported and no more.
EndBlock ==
  /\ At("block_end")
  /\ LET closed == Kind(pos) = "}"
         made == Make(Task.k, "", NoType, TokenSpan(Task.open), Task.from, "written")
     IN Step(IF closed THEN pos + 1 ELSE pos, <<made>>, vals,
             IF closed THEN <<>> ELSE Error("E0302", pos))

StartsUnsafe == Kind(pos) = "ident" /\ Text(pos) = "unsafe" /\ Kind(pos + 1) = "{"

ParseUnsafe == At("stmt") /\ StartsUnsafe /\ Go(pos + 1, <<BlockOf("unsafe")>>)

ParseCompound == At("stmt") /\ Kind(pos) = "{" /\ Go(pos, <<BlockOf("block")>>)

ParseEmpty ==
  At("stmt") /\ Kind(pos) = ";" /\ Push(pos + 1, [EmptyNode EXCEPT !.span = TokenSpan(pos)])

ParseReturn ==
  /\ At("stmt") /\ Kind(pos) = "return"
  /\ LET value == IF Kind(pos + 1) = ";" THEN <<>> ELSE <<Call("expr")>>
     IN Go(pos + 1, value \o <<Expect(";"), MakeFromToken("return", "", pos, "written")>>)

ParseJump ==
  /\ At("stmt") /\ Kind(pos) \in {"break", "continue"}
  /\ Go(pos + 1, <<Expect(";"), MakeFromToken(Kind(pos), "", pos, "written")>>)

Parenthesized(task) == <<Expect("("), task, Expect(")")>>

ParseIf ==
  /\ At("stmt") /\ Kind(pos) = "if"
  /\ Go(pos + 1, Parenthesized(Call("expr"))
                   \o <<Call("stmt"), Call("else"), MakeFromToken("if", "", pos, "written")>>)

ParseElse ==
  /\ At("else")
  /\ Go(IF Kind(pos) = "else" THEN pos + 1 ELSE pos,
        IF Kind(pos) = "else" THEN <<Call("stmt")>> ELSE <<>>)

ParseWhile ==
  /\ At("stmt") /\ Kind(pos) = "while"
  /\ Go(pos + 1, Parenthesized(Call("expr"))
                   \o <<Call("stmt"), MakeFromToken("while", "", pos, "written")>>)

ParseDoWhile ==
  /\ At("stmt") /\ Kind(pos) = "do"
  /\ Go(pos + 1, <<Call("stmt"), Expect("while")>> \o Parenthesized(Call("expr"))
                   \o <<Expect(";"), MakeFromToken("do", "", pos, "written")>>)

ParseFor ==
  /\ At("stmt") /\ Kind(pos) = "for"
  /\ Go(pos + 1, <<Expect("("), Call("for_init"), Slot(";"), Expect(";"), Slot(")"), Expect(")"),
                   Call("stmt"), MakeFromToken("for", "", pos, "written")>>)

ExprStmtTasks == <<Call("expr"), Expect(";"), MakeFromToken("expr", "", pos, "written")>>

ParseForInit_KeepsSemicolon ==
  /\ At("for_init")
  /\ IF Kind(pos) = ";" THEN Push(pos, EmptyNode)
     ELSE Go(pos, IF LooksLikeDeclStart(pos) THEN <<Call("local")>> ELSE ExprStmtTasks)

ParseForInit ==
  /\ At("for_init")
  /\ IF Kind(pos) = ";" THEN Push(pos + 1, EmptyNode)
     ELSE Go(pos, IF LooksLikeDeclStart(pos) THEN <<Call("local")>> ELSE ExprStmtTasks)

\* An expression that may be left out before a token of kind k.
ParseSlot ==
  /\ At("slot")
  /\ IF Kind(pos) = Task.k THEN Push(pos, EmptyNode) ELSE Go(pos, <<Call("expr")>>)

StmtKeywords == {"return", "break", "continue", "if", "while", "do", "for"}

IsOtherStmt == At("stmt") /\ ~StartsUnsafe /\ Kind(pos) \notin StmtKeywords \cup {"{", ";"}

ParseDeclStmt == IsOtherStmt /\ LooksLikeDeclStart(pos) /\ Go(pos, <<Call("local")>>)

ParseExprStmt == IsOtherStmt /\ ~LooksLikeDeclStart(pos) /\ Go(pos, ExprStmtTasks)

ParseLocal ==
  /\ At("local")
  /\ Declaration(Specifiers(pos), TRUE,
       LAMBDA c : <<Of("declarator", c)>> \o VarTasks(c)
                    \o <<MakeFromToken("decl", "", pos, "written")>>)

-----------------------------------------------------------------------------
(* Expressions.                                                               *)

ParseExpr ==
  /\ At("expr")
  /\ Go(pos, <<Call("assignment"), [do |-> "comma", from |-> Len(vals)]>>)

ParseComma ==
  /\ At("comma")
  /\ LET first == vals[Task.from + 1].span IN
     IF Kind(pos) = "," THEN Go(pos + 1, <<Call("assignment"), Task>>)
     ELSE Go(pos, IF Len(vals) = Task.from + 1 THEN <<>>
                  ELSE <<Make("comma", "", NoType, first, Task.from, "written")>>)

ParseAssignment ==
  At("assignment") /\ Go(pos, <<Call("unary"), Climb(0), Call("ternary"), Call("assign_op")>>)

ParseAssignOp ==
  /\ At("assign_op")
  /\ IF Kind(pos) = "none" THEN Fail(pos, <<>>)
     ELSE IF Kind(pos) \in AssignOps
     THEN Go(pos + 1, <<Call("assignment"), MakeFromTop("assign", Kind(pos), "value")>>)
     ELSE Go(pos, <<>>)

ParseTernary ==
  /\ At("ternary")
  /\ IF Kind(pos) = "?"
     THEN Go(pos + 1, <<Call("expr"), Expect(":"), Call("assignment"),
                        MakeFromTop("ternary", "", "value")>>)
     ELSE Go(pos, <<>>)

ParseBinary_RightAssociative ==
  /\ At("climb")
  /\ IF Kind(pos) \in DOMAIN Precedence /\ Precedence[Kind(pos)] >= Task.min
     THEN Go(pos + 1, <<Call("unary"), Climb(Precedence[Kind(pos)]),
                        MakeFromTop("binary", Kind(pos), "value"), Task>>)
     ELSE Go(pos, <<>>)

ParseBinary ==
  /\ At("climb")
  /\ IF Kind(pos) \in DOMAIN Precedence /\ Precedence[Kind(pos)] >= Task.min
     THEN Go(pos + 1, <<Call("unary"), Climb(Precedence[Kind(pos)] + 1),
                        MakeFromTop("binary", Kind(pos), "value"), Task>>)
     ELSE Go(pos, <<>>)

ParseUnary ==
  /\ At("unary")
  /\ IF Kind(pos) = "none" THEN Fail(pos, <<>>)
     ELSE IF Kind(pos) \in DOMAIN UnaryOps
     THEN Go(pos + 1, <<Call("unary"), MakeFromToken("unary", UnaryOps[Kind(pos)], pos, "value")>>)
     ELSE IF Kind(pos) = "sizeof"
     THEN Go(pos + 1, <<Call("unary"), MakeFromToken("sizeof", "", pos, "value")>>)
     ELSE Go(pos, <<Call("primary"), Call("postfix")>>)

ParsePostfix ==
  /\ At("postfix")
  /\ LET k == Kind(pos)
         again == Call("postfix")
     IN IF k = "("
        THEN Go(pos + 1, (IF Kind(pos + 1) = ")" THEN <<>> ELSE <<Call("call_args")>>)
                           \o <<Expect(")"), MakeFromTop("call", "", "token"), again>>)
        ELSE IF k = "["
        THEN Go(pos + 1, <<Call("expr"), Expect("]"), MakeFromTop("index", "", "token"), again>>)
        ELSE IF k \in DOMAIN MemberKind
        THEN IF Kind(pos + 1) = "ident"
             THEN Go(pos + 2, <<MakeFromTop(MemberKind[k], Text(pos + 1), "token"), again>>)
             ELSE Fail(pos + 1, Error("E0305", pos + 1))
        ELSE IF k \in DOMAIN PostfixOps
        THEN Go(pos + 1, <<MakeFromTop("postfix", PostfixOps[k], "token"), again>>)
        ELSE Go(pos, <<>>)

ParseCallArgs ==
  At("call_args") /\ Go(pos, <<Call("assignment"), Call("call_more")>>)

ParseMoreArgs ==
  /\ At("call_more")
  /\ IF Kind(pos) = "," THEN Go(pos + 1, <<Call("call_args")>>) ELSE Go(pos, <<>>)

ParseLeaf ==
  /\ At("primary") /\ Kind(pos) \in Leaves
  /\ Push(pos + 1, N(Kind(pos), Text(pos), <<>>, NoType, TokenSpan(pos)))

CastTo(d, errors) ==
  Step(d.end, <<Expect(")"), Call("unary"),
                [MakeFromToken("cast", "", pos, "value") EXCEPT !.ty = d.ty]>>, vals, errors)

ParseCast ==
  /\ At("primary") /\ Kind(pos) = "(" /\ LooksLikeDeclStart(pos + 1)
  /\ LET With(spec) ==
           IF spec.ty = <<>> THEN Fail(spec.end, spec.errors)
           ELSE CastTo(Pointers(spec.end, spec.ty[1], FALSE), spec.errors)
     IN With(TypeSpecifier(pos + 1))

ParseParen ==
  /\ At("primary") /\ Kind(pos) = "(" /\ ~LooksLikeDeclStart(pos + 1)
  /\ Go(pos + 1, <<Call("expr"), Expect(")"), MakeFromToken("paren", "", pos, "token")>>)

ExpectedExpr ==
  /\ At("primary") /\ Kind(pos) \notin Leaves \cup {"("}
  /\ Fail(pos, Error("E0303", pos))

-----------------------------------------------------------------------------

Done == todo = <<>>
Terminating == Done /\ UNCHANGED vars

Parse ==
  \/ ExpectToken \/ MakeNode \/ JoinAcrossFiles
  \/ NextItem \/ EndItems \/ Recover
  \/ ParseItem \/ ParseDeclarator \/ ParseItemForm \/ ParseArraySuffix \/ FinishArraySuffix
  \/ ParseInitializer \/ AttachInitializer \/ FinishVar \/ ParseMore
  \/ ParseParamList \/ ParseParam \/ ParseMoreParams \/ ParseBody \/ FinishFn
  \/ ParseBlock \/ NextStmt \/ EndStmts \/ EndBlock
  \/ ParseUnsafe \/ ParseCompound \/ ParseEmpty \/ ParseReturn \/ ParseJump
  \/ ParseIf \/ ParseElse \/ ParseWhile \/ ParseDoWhile
  \/ ParseFor \/ ParseForInit \/ ParseSlot \/ ParseDeclStmt \/ ParseExprStmt \/ ParseLocal
  \/ ParseExpr \/ ParseComma \/ ParseAssignment \/ ParseAssignOp \/ ParseTernary \/ ParseBinary
  \/ ParseUnary \/ ParsePostfix \/ ParseCallArgs \/ ParseMoreArgs
  \/ ParseLeaf \/ ParseCast \/ ParseParen \/ ExpectedExpr

Next == Parse \/ Terminating

Spec == Init /\ [][Next]_vars

-----------------------------------------------------------------------------
(* Type invariant.                                                            *)

Tasks ==
  {"items", "stmts", "array_end", "expect", "make", "item", "declarator", "item_form", "array",
   "init", "attach", "finish_var", "more", "params", "param", "param_more", "body", "finish_fn",
   "block", "block_end", "stmt", "else", "for_init", "slot", "local", "expr", "comma",
   "assignment", "assign_op", "ternary", "climb", "unary", "primary", "postfix", "call_args",
   "call_more"}

TypeOK ==
  /\ Last(tokens).k = "eof"
  /\ pos \in Places
  /\ \A d \in Range(diagnostics) :
       d.code \in {"E0302", "E0303", "E0304", "E0305", "E0306"} /\ d.at \in DOMAIN tokens
  /\ \A t \in Range(todo) : t.do \in Tasks
  /\ \A n \in Range(vals) : {n.span.lo, n.span.hi} \subseteq DOMAIN tokens /\ n.span.lo <= n.span.hi
  /\ panicked \in BOOLEAN

-----------------------------------------------------------------------------
(* Safety.                                                                    *)

\* The assertion of Span::join fails only in a module that has an expression in two
\* files: two tokens side by side, of different files, neither of which begins or
\* ends a statement (an #include or a macro of another file within it).
ExprBoundary(p) ==
  /\ tokens[p].file # tokens[p + 1].file
  /\ {Kind(p), Kind(p + 1)} \cap (StmtKeywords \cup {";", "{", "}", "eof"}) = {}

PanicsOnlyAcrossFiles ==
  panicked => \E p \in 1 .. Len(tokens) - 1 : ExprBoundary(p)

\* Every round of the loops over items and statements has consumed a token,
\* whether it succeeded or was recovered from: the parser terminates.
EveryRoundConsumes ==
  (At("items") \/ At("stmts")) /\ Task.ok => pos > Task.at
=============================================================================
