------------------------------ MODULE MirBuild ------------------------------
(***************************************************************************)
(* The lowering of one function from HIR to MIR (crates/rccx_mir,          *)
(* build.rs): Builder::build and every lower_* method.                     *)
(*                                                                         *)
(* The Rust code recurses over the HIR tree.  Here `todo` is the list of   *)
(* what is left to do: the pending calls of lower_stmt and                 *)
(* lower_expr_to_operand, and the pieces of code that follow them in the   *)
(* callers.  A step takes the first task.  `ops` is the stack of the       *)
(* operands and places that pending code has in its local variables.       *)
(* `me` is the Builder itself, and its methods are operators on it.        *)
(*                                                                         *)
(* Of a type only whether it is an owner pointer is kept, and of a call    *)
(* whether it returns void; names and spans are left out.                  *)
(***************************************************************************)
EXTENDS Integers, SequencesExt

CONSTANTS
  Programs,   \* the functions Init may pick
  HirExpr,    \* the expressions in them, with their subexpressions
  HirStmt,    \* the statements in them, with their substatements
  Functions   \* the symbols of kind Function

(***************************************************************************)
(* HIR.  A function is                                                     *)
(*   [params |-> Seq of [sym, own], own |-> BOOLEAN, body |-> Seq of stmts] *)
(* An expression is [k |-> kind, what |-> .., args |-> subexpressions,     *)
(* own |-> its type is an owner], with kinds                               *)
(*   const    a literal, sizeof or an error (what: the constant)           *)
(*   ref      a symbol (what: the symbol)                                  *)
(*   deref, index, plus, addr_of, comma, ternary                           *)
(*   call     args[1] is the callee (what: "void" or "value")              *)
(*   unary    (what: neg, not or bit_not)                                  *)
(*   cast     written or implicit (what: which)                            *)
(*   binary   all but && and || (what: the operator)                       *)
(*   logical  (what: "and" or "or")                                        *)
(*   pre, post  (what: "add" or "sub")                                     *)
(*   assign   (what: "=" or the operator of a compound assignment)         *)
(* A statement is [k |-> kind, ...] with the fields its action uses; an    *)
(* optional part is a sequence of at most one.                             *)
(***************************************************************************)

Arity ==
  [const |-> 0, ref |-> 0, deref |-> 1, index |-> 2, plus |-> 1, addr_of |-> 1, unary |-> 1,
   cast |-> 1, binary |-> 2, logical |-> 2, ternary |-> 3, pre |-> 1, post |-> 1, assign |-> 2]

IsExpr(e) ==
  /\ e.own \in BOOLEAN
  /\ e.args \in Seq(HirExpr)
  /\ \/ e.k \in DOMAIN Arity /\ Len(e.args) = Arity[e.k]
     \/ e.k \in {"call", "comma"} /\ e.args # <<>>

IsOptional(s, S) == s \in Seq(S) /\ Len(s) <= 1

IsDecl(d) == d.own \in BOOLEAN /\ IsOptional(d.init, HirExpr)

\* A for begins with declarations or an expression.
IsForInit(s) == s.k \in {"decl", "expr"}

IsStmt(s) ==
  CASE s.k = "compound" -> s.body \in Seq(HirStmt)
    [] s.k = "expr" -> s.e \in HirExpr
    [] s.k = "decl" -> s.ds \in Seq(Range(s.ds)) /\ \A d \in Range(s.ds) : IsDecl(d)
    [] s.k = "if" -> s.c \in HirExpr /\ s.then \in HirStmt /\ IsOptional(s.else, HirStmt)
    [] s.k \in {"while", "do_while"} -> s.c \in HirExpr /\ s.body \in HirStmt
    [] s.k = "for" ->
         /\ IsOptional(s.init, HirStmt) /\ \A init \in Range(s.init) : IsForInit(init)
         /\ IsOptional(s.cond, HirExpr) /\ IsOptional(s.step, HirExpr)
         /\ s.body \in HirStmt
    [] s.k = "return" -> IsOptional(s.value, HirExpr)
    [] OTHER -> s.k \in {"break", "continue", "empty"}

IsFunction(f) ==
  /\ f.own \in BOOLEAN
  /\ f.params \in Seq(Range(f.params)) /\ \A p \in Range(f.params) : p.own \in BOOLEAN
  /\ f.body \in Seq(HirStmt)

ASSUME HirAssumption ==
  /\ \A e \in HirExpr : IsExpr(e)
  /\ \A s \in HirStmt : IsStmt(s)
  /\ \A f \in Programs : IsFunction(f)

VARIABLES
  fn,    \* the HIR function
  me,    \* the Builder
  todo,  \* what is left to do, first task first
  ops,   \* operands and places in pending code, last one first
  pc     \* "run", "done" or "panic"

vars == <<fn, me, todo, ops, pc>>

-----------------------------------------------------------------------------
(* MIR. *)

Deref == -1  \* a projection is Deref or the local of an index

FromLocal(l) == [local |-> l, proj |-> <<>>]
Project(pl, p) == [pl EXCEPT !.proj = Append(pl.proj, p)]

Copy(pl) == [mode |-> "Copy", place |-> pl]
Move(pl) == [mode |-> "Move", place |-> pl]
Const(c) == [mode |-> "Const", const |-> c]
ErrorConst == Const([error |-> TRUE])
IntLit(n) == Const([int |-> n])

\* Mutant: only owners behind pointers move.
ReadPlace_Copies(pl, own) == IF own /\ pl.proj # <<>> THEN Move(pl) ELSE Copy(pl)

\* An owner moves when it is read.
ReadPlace(pl, own) == IF own THEN Move(pl) ELSE Copy(pl)

\* reads: the operands in evaluation order; dest: no or one place written;
\* of: the place a borrow or a storage statement is about.
Assign(dest, op, reads) == [op |-> op, reads |-> reads, dest |-> <<dest>>, of |-> <<>>]
AddressOf(dest, pl) == [op |-> "addr_of", reads |-> <<>>, dest |-> <<dest>>, of |-> <<pl>>]
CallStmt(dest, reads) == [op |-> "call", reads |-> reads, dest |-> dest, of |-> <<>>]
StorageLive(l) == [op |-> "live", reads |-> <<>>, dest |-> <<>>, of |-> <<FromLocal(l)>>]

Unreachable == [t |-> "Unreachable", to |-> <<>>, cond |-> <<>>]
Return == [t |-> "Return", to |-> <<>>, cond |-> <<>>]
Goto(b) == [t |-> "Goto", to |-> <<b>>, cond |-> <<>>]
SwitchInt(c, b1, b2) == [t |-> "SwitchInt", to |-> <<b1, b2>>, cond |-> <<c>>]

-----------------------------------------------------------------------------
(* The methods of the Builder.  Block b is m.blocks[b + 1], local l is        *)
(* m.locals[l + 1].                                                           *)

NewBlock == [stmts |-> <<>>, term |-> Unreachable]
NewBlocks(m, k) == [m EXCEPT !.blocks = @ \o [i \in 1 .. k |-> NewBlock]]

\* The k-th block that the next NewBlocks makes.
Fresh(m, k) == Len(m.blocks) + k - 1

SetTerminator(m, b, t) == [m EXCEPT !.blocks[b + 1].term = t]
Terminate(m, t) == SetTerminator(m, m.current, t)
PushStmt(m, s) == [m EXCEPT !.blocks[m.current + 1].stmts = Append(@, s)]
IsCurrentLive_OnceUsed(m) ==
  LET b == m.blocks[m.current + 1] IN b.term.t = "Unreachable" /\ b.stmts # <<>>
IsCurrentLive_Always(m) == TRUE
IsCurrentLive(m) == m.blocks[m.current + 1].term.t \notin {"Return", "Goto", "SwitchInt"}
SwitchTo(m, b) == [m EXCEPT !.current = b]

Insert(map, x, y) == [z \in DOMAIN map \cup {x} |-> IF z = x THEN y ELSE map[z]]

NextLocal(m) == Len(m.locals)
NewLocal(m, kind, own) == [m EXCEPT !.locals = Append(@, [kind |-> kind, own |-> own])]
FreshTemp(m, own) == NewLocal(m, "Temp", own)
DeclareVar_IdAfter(m, sym, own) ==
  LET n == NewLocal(m, "Var", own) IN [n EXCEPT !.sym_to_local = Insert(@, sym, NextLocal(n))]
DeclareVar(m, sym, own) ==
  [NewLocal(m, "Var", own) EXCEPT !.sym_to_local = Insert(@, sym, NextLocal(m))]

\* A new temp, assigned what op computes of the operands.
EmitRvalue_NoTemp(m, op, reads, own) ==
  PushStmt(m, Assign(FromLocal(NextLocal(m)), op, reads))
EmitRvalue(m, op, reads, own) ==
  PushStmt(FreshTemp(m, own), Assign(FromLocal(NextLocal(m)), op, reads))

NewBuilder(f) ==
  [locals |-> <<[kind |-> "Return", own |-> f.own]>>
              \o [i \in DOMAIN f.params |-> [kind |-> "Arg", own |-> f.params[i].own]],
   blocks |-> <<>>,
   current |-> 0,
   sym_to_local |-> [s \in {f.params[i].sym : i \in DOMAIN f.params} |->
                       CHOOSE i \in DOMAIN f.params : f.params[i].sym = s],
   loop_stack |-> <<>>]

-----------------------------------------------------------------------------
(* Tasks: calls of lower_block, lower_stmt, lower_decl,                       *)
(* lower_expr_to_operand and try_lower_as_place ...                           *)

Block(ss) == [do |-> "block", ss |-> ss]
Stmt(s) == [do |-> "stmt", s |-> s]
Decl(d) == [do |-> "decl", d |-> d]
Expr(e) == [do |-> "expr", e |-> e]
Place(e) == [do |-> "place", e |-> e]

(* ... and what their callers do next with the Builder ...                    *)

Enter(b) == [do |-> "enter", block |-> b]
Jump(t) == [do |-> "jump", term |-> t]
Close(b) == [do |-> "close", to |-> b]
Branch(b1, b2) == [do |-> "branch", to |-> <<b1, b2>>]
PushLoop_Swapped(c, b) == [do |-> "push_loop", targets |-> <<b, c>>]
PushLoop(c, b) == [do |-> "push_loop", targets |-> <<c, b>>]
PopLoop == [do |-> "pop_loop"]
ForRest(s) == [do |-> "for", s |-> s]

(* ... and with the operands and places at hand.                              *)

Put(x) == [do |-> "put", x |-> x]
Discard == [do |-> "discard"]
KeepLast(n) == [do |-> "keep_last", n |-> n]
Store(l) == [do |-> "store", local |-> l]
Read(own) == [do |-> "read", own |-> own]
Peek(own) == [do |-> "peek", own |-> own]
Materialize(own) == [do |-> "materialize", own |-> own]
DerefIt == [do |-> "deref"]
IndexIt == [do |-> "index"]
Emit(op, n, own) == [do |-> "emit", op |-> op, n |-> n, own |-> own]
EmitAddress(own) == [do |-> "address", own |-> own]
EmitCall(n, void, own) == [do |-> "call", n |-> n, void |-> void, own |-> own]
Save(own) == [do |-> "save", own |-> own]
Combine(op, own) == [do |-> "combine", op |-> op, own |-> own]
Update(result) == [do |-> "update", result |-> result]

Exprs(es) == [i \in DOMAIN es |-> Expr(es[i])]
IfAny(opt, tasks) == IF opt = <<>> THEN <<>> ELSE tasks

\* The n operands put last, in the order they were put, and the others.
LastOps(n) == Reverse(SubSeq(ops, 1, n))
Drop(n) == SubSeq(ops, n + 1, Len(ops))

Running == pc = "run" /\ todo # <<>>
Task == Head(todo)
Doing(what) == Running /\ Task.do = what
Then(tasks) == todo' = tasks \o Tail(todo)

-----------------------------------------------------------------------------
(* Statements. *)

Start ==
  /\ me = NewBlocks(NewBuilder(fn), 1)
  /\ todo = <<Block(fn.body)>>
  /\ ops = <<>>
  /\ pc = "run"

Init == fn \in Programs /\ Start

\* The statements after one that ended the block are dropped.
LowerBlock ==
  /\ Doing("block")
  /\ Then(IF Task.ss = <<>> \/ ~IsCurrentLive(me)
          THEN <<>>
          ELSE <<Stmt(Head(Task.ss)), Block(Tail(Task.ss))>>)
  /\ UNCHANGED <<fn, me, ops, pc>>

Statement(kind) == Doing("stmt") /\ Task.s.k = kind /\ UNCHANGED <<fn, ops, pc>>

LowerCompound ==
  /\ Statement("compound")
  /\ Then(<<Block(Task.s.body)>>)
  /\ UNCHANGED me

LowerExprStmt ==
  /\ Statement("expr")
  /\ Then(<<Expr(Task.s.e), Discard>>)
  /\ UNCHANGED me

LowerDeclStmt ==
  /\ Statement("decl")
  /\ Then([i \in DOMAIN Task.s.ds |-> Decl(Task.s.ds[i])])
  /\ UNCHANGED me

\* The name is bound before its initializer is lowered.
LowerDecl ==
  /\ Doing("decl")
  /\ LET l == NextLocal(me) IN
       /\ me' = PushStmt(DeclareVar(me, Task.d.sym, Task.d.own), StorageLive(l))
       /\ Then(IfAny(Task.d.init, Exprs(Task.d.init) \o <<Store(l)>>))
  /\ UNCHANGED <<fn, ops, pc>>

LowerReturn ==
  /\ Statement("return")
  /\ Then(IfAny(Task.s.value, Exprs(Task.s.value) \o <<Store(0)>>) \o <<Jump(Return)>>)
  /\ UNCHANGED me

LowerIf ==
  /\ Statement("if")
  /\ LET then == Fresh(me, 1)  else == Fresh(me, 2)  join == Fresh(me, 3) IN
       Then(<<Expr(Task.s.c), Branch(then, else), Enter(then), Stmt(Task.s.then), Close(join),
              Enter(else)>> \o [i \in DOMAIN Task.s.else |-> Stmt(Task.s.else[i])]
            \o <<Close(join), Enter(join)>>)
  /\ me' = NewBlocks(me, 3)

LowerWhile ==
  /\ Statement("while")
  /\ LET header == Fresh(me, 1)  body == Fresh(me, 2)  exit == Fresh(me, 3) IN
       Then(<<Jump(Goto(header)), Enter(header), Expr(Task.s.c), Branch(body, exit),
              PushLoop(header, exit), Enter(body), Stmt(Task.s.body), Close(header), PopLoop,
              Enter(exit)>>)
  /\ me' = NewBlocks(me, 3)

LowerDoWhile ==
  /\ Statement("do_while")
  /\ LET body == Fresh(me, 1)  cond == Fresh(me, 2)  exit == Fresh(me, 3) IN
       Then(<<Jump(Goto(body)), PushLoop(cond, exit), Enter(body), Stmt(Task.s.body),
              Close(cond), PopLoop, Enter(cond), Expr(Task.s.c), Branch(body, exit),
              Enter(exit)>>)
  /\ me' = NewBlocks(me, 3)

\* The clauses of a for: first the initialization, then the blocks.
LowerFor ==
  /\ Statement("for")
  /\ Then([i \in DOMAIN Task.s.init |-> Stmt(Task.s.init[i])] \o <<ForRest(Task.s)>>)
  /\ UNCHANGED me

LowerForLoop ==
  /\ Doing("for")
  /\ LET header == Fresh(me, 1)  body == Fresh(me, 2)  step == Fresh(me, 3)  exit == Fresh(me, 4)
         test == IF Task.s.cond = <<>>
                 THEN <<Jump(Goto(body))>>
                 ELSE Exprs(Task.s.cond) \o <<Branch(body, exit)>>
     IN Then(<<Jump(Goto(header)), Enter(header)>> \o test
             \o <<PushLoop(step, exit), Enter(body), Stmt(Task.s.body), Close(step), PopLoop,
                  Enter(step)>>
             \o IfAny(Task.s.step, Exprs(Task.s.step) \o <<Discard>>)
             \o <<Jump(Goto(header)), Enter(exit)>>)
  /\ me' = NewBlocks(me, 4)
  /\ UNCHANGED <<fn, ops, pc>>

\* Outside of a loop these do nothing.
LowerBreak ==
  /\ Statement("break")
  /\ me' = IF me.loop_stack = <<>> THEN me ELSE Terminate(me, Goto(Last(me.loop_stack)[2]))
  /\ Then(<<>>)

LowerContinue ==
  /\ Statement("continue")
  /\ me' = IF me.loop_stack = <<>> THEN me ELSE Terminate(me, Goto(Last(me.loop_stack)[1]))
  /\ Then(<<>>)

LowerEmpty ==
  /\ Statement("empty")
  /\ Then(<<>>)
  /\ UNCHANGED me

-----------------------------------------------------------------------------
(* Control flow between those calls. *)

EnterBlock ==
  /\ Doing("enter")
  /\ me' = SwitchTo(me, Task.block)
  /\ Then(<<>>)
  /\ UNCHANGED <<fn, ops, pc>>

SetJump ==
  /\ Doing("jump")
  /\ me' = Terminate(me, Task.term)
  /\ Then(<<>>)
  /\ UNCHANGED <<fn, ops, pc>>

CloseArm ==
  /\ Doing("close")
  /\ me' = IF IsCurrentLive(me) THEN Terminate(me, Goto(Task.to)) ELSE me
  /\ Then(<<>>)
  /\ UNCHANGED <<fn, ops, pc>>

BranchOn ==
  /\ Doing("branch")
  /\ me' = Terminate(me, SwitchInt(Head(ops), Task.to[1], Task.to[2]))
  /\ ops' = Tail(ops)
  /\ Then(<<>>)
  /\ UNCHANGED <<fn, pc>>

EnterLoop ==
  /\ Doing("push_loop")
  /\ me' = [me EXCEPT !.loop_stack = Append(@, Task.targets)]
  /\ Then(<<>>)
  /\ UNCHANGED <<fn, ops, pc>>

LeaveLoop ==
  /\ Doing("pop_loop")
  /\ me' = [me EXCEPT !.loop_stack = Front(@)]
  /\ Then(<<>>)
  /\ UNCHANGED <<fn, ops, pc>>

\* The end of build(): a body that falls off its end returns.
Finish ==
  /\ pc = "run" /\ todo = <<>>
  /\ me' = IF IsCurrentLive(me) THEN Terminate(me, Return) ELSE me
  /\ pc' = "done"
  /\ UNCHANGED <<fn, todo, ops>>

-----------------------------------------------------------------------------
(* Expressions. *)

\* Mutant: an index is no place.
IsPlace_NoIndex(e) ==
  \/ e.k = "deref"
  \/ e.k = "ref" /\ e.what \in DOMAIN me.sym_to_local

\* try_lower_as_place succeeds.
IsPlace(e) ==
  \/ e.k \in {"deref", "index"}
  \/ e.k = "ref" /\ e.what \in DOMAIN me.sym_to_local

\* An expression of one of the kinds that is not lowered as a place.
Expression(kinds) ==
  Doing("expr") /\ Task.e.k \in kinds /\ ~IsPlace(Task.e) /\ UNCHANGED <<fn, ops, pc>>

LowerPlaceRead ==
  /\ Doing("expr") /\ IsPlace(Task.e)
  /\ Then(<<Place(Task.e), Read(Task.e.own)>>)
  /\ UNCHANGED <<fn, me, ops, pc>>

\* A global variable reads as the error constant.
SymbolUse(sym) == IF sym \in Functions THEN Const([fn |-> sym]) ELSE ErrorConst

LowerConst ==
  /\ Expression({"const", "ref"})
  /\ Then(<<Put(IF Task.e.k = "const" THEN Const(Task.e.what) ELSE SymbolUse(Task.e.what))>>)
  /\ UNCHANGED me

\* The operands, then the operation on them.
Operation(kind) ==
  /\ Expression({kind})
  /\ Then(Exprs(Task.e.args) \o <<Emit(Task.e.what, Len(Task.e.args), Task.e.own)>>)
  /\ UNCHANGED me

LowerBinary == Operation("binary")
LowerUnary == Operation("unary")
LowerCast == Operation("cast")

LowerCall ==
  /\ Expression({"call"})
  /\ Then(Exprs(Task.e.args) \o <<EmitCall(Len(Task.e.args), Task.e.what = "void", Task.e.own)>>)
  /\ UNCHANGED me

\* The value of the last operand (unary plus has only that one).
LowerComma ==
  /\ Expression({"comma", "plus"})
  /\ Then(Exprs(Task.e.args) \o <<KeepLast(Len(Task.e.args))>>)
  /\ UNCHANGED me

\* && and ||.  The block that gets the short-circuit value is the one the
\* SwitchInt takes when the right operand is skipped: the join block itself.
LowerShortCircuit ==
  /\ Expression({"logical"})
  /\ LET result == NextLocal(me)  rhs == Fresh(me, 1)  join == Fresh(me, 2)
         and == Task.e.what = "and"
     IN Then(<<Expr(Task.e.args[1]),
               IF and THEN Branch(rhs, join) ELSE Branch(join, rhs),
               Enter(join), Put(IntLit(IF and THEN 0 ELSE 1)), Store(result), Jump(Goto(join)),
               Enter(rhs), Expr(Task.e.args[2]), Store(result), Jump(Goto(join)),
               Enter(join), Put(Copy(FromLocal(result)))>>)
  /\ me' = NewBlocks(FreshTemp(me, Task.e.own), 2)

LowerTernary ==
  /\ Expression({"ternary"})
  /\ LET result == NextLocal(me)
         then == Fresh(me, 1)  else == Fresh(me, 2)  join == Fresh(me, 3)
     IN Then(<<Expr(Task.e.args[1]), Branch(then, else),
               Enter(then), Expr(Task.e.args[2]), Store(result), Jump(Goto(join)),
               Enter(else), Expr(Task.e.args[3]), Store(result), Jump(Goto(join)),
               Enter(join), Put(Copy(FromLocal(result)))>>)
  /\ me' = NewBlocks(FreshTemp(me, Task.e.own), 3)

LowerAddrOf ==
  /\ Expression({"addr_of"})
  /\ LET operand == Task.e.args[1] IN
       IF IsPlace(operand)
       THEN /\ Then(<<Place(operand), EmitAddress(Task.e.own)>>)
            /\ UNCHANGED me
       ELSE /\ Then(<<Put(FromLocal(NextLocal(me))), EmitAddress(Task.e.own)>>)
            /\ me' = FreshTemp(me, operand.own)

\* ++x and --x: the new value.
LowerPrefix ==
  /\ Expression({"pre"}) /\ IsPlace(Task.e.args[1])
  /\ Then(<<Place(Task.e.args[1]), Peek(Task.e.own), Put(IntLit(1)),
            Emit(Task.e.what, 2, Task.e.own), Update("value")>>)
  /\ UNCHANGED me

\* x++ and x--: the saved old value; x is read twice.
LowerPostfix ==
  /\ Expression({"post"}) /\ IsPlace(Task.e.args[1])
  /\ Then(<<Place(Task.e.args[1]), Peek(Task.e.own), Save(Task.e.own),
            Peek(Task.e.own), Put(IntLit(1)), Emit(Task.e.what, 2, Task.e.own), Update("none")>>)
  /\ UNCHANGED me

LowerAssign ==
  /\ Expression({"assign"}) /\ IsPlace(Task.e.args[1])
  /\ Then(<<Place(Task.e.args[1]), Expr(Task.e.args[2])>>
          \o (IF Task.e.what = "=" THEN <<>> ELSE <<Combine(Task.e.what, Task.e.own)>>)
          \o <<Update("place")>>)
  /\ UNCHANGED me

\* expect("typeck guarantees an lvalue here")
PanicOnPlace ==
  /\ Running /\ Task.do = "expr"
  /\ Task.e.k \in {"pre", "post", "assign"} /\ ~IsPlace(Task.e.args[1])
  /\ pc' = "panic"
  /\ UNCHANGED <<fn, me, todo, ops>>

-----------------------------------------------------------------------------
(* Places. *)

LowerPlace ==
  /\ Doing("place")
  /\ LET e == Task.e IN
       Then(CASE e.k = "ref" -> <<Put(FromLocal(me.sym_to_local[e.what]))>>
              [] e.k = "deref" -> <<Expr(e.args[1]), Materialize(e.args[1].own), DerefIt>>
              [] e.k = "index" -> <<Expr(e.args[1]), Materialize(e.args[1].own),
                                    Expr(e.args[2]), Materialize(e.args[2].own), IndexIt>>)
  /\ UNCHANGED <<fn, me, ops, pc>>

\* An operand that is a local stands for itself (also one that moves).
MaterializeOperand ==
  /\ Doing("materialize")
  /\ IF ops[1].mode # "Const" /\ ops[1].place.proj = <<>>
     THEN /\ ops' = <<ops[1].place>> \o Tail(ops)
          /\ UNCHANGED me
     ELSE /\ ops' = <<FromLocal(NextLocal(me))>> \o Tail(ops)
          /\ me' = EmitRvalue(me, "use", <<ops[1]>>, Task.own)
  /\ Then(<<>>)
  /\ UNCHANGED <<fn, pc>>

ProjectPlace ==
  /\ \/ Doing("deref") /\ ops' = <<Project(ops[1], Deref)>> \o Tail(ops)
     \/ /\ Doing("index")
        /\ ops' = <<Project(Project(ops[2], Deref), ops[1].local)>> \o Drop(2)
  /\ Then(<<>>)
  /\ UNCHANGED <<fn, me, pc>>

ReadIt ==
  /\ \/ Doing("read") /\ ops' = <<ReadPlace(ops[1], Task.own)>> \o Tail(ops)
     \/ Doing("peek") /\ ops' = <<ReadPlace(ops[1], Task.own)>> \o ops
  /\ Then(<<>>)
  /\ UNCHANGED <<fn, me, pc>>

-----------------------------------------------------------------------------
(* Operands. *)

PutOperand ==
  /\ Doing("put")
  /\ ops' = <<Task.x>> \o ops
  /\ Then(<<>>)
  /\ UNCHANGED <<fn, me, pc>>

DropOperands ==
  /\ \/ Doing("discard") /\ ops' = Tail(ops)
     \/ Doing("keep_last") /\ ops' = <<Head(ops)>> \o Drop(Task.n)
  /\ Then(<<>>)
  /\ UNCHANGED <<fn, me, pc>>

StoreOperand ==
  /\ Doing("store")
  /\ me' = PushStmt(me, Assign(FromLocal(Task.local), "use", <<Head(ops)>>))
  /\ ops' = Tail(ops)
  /\ Then(<<>>)
  /\ UNCHANGED <<fn, pc>>

\* emit_rvalue: the result is read from its temp.
EmitIt ==
  /\ \/ /\ Doing("emit")
        /\ me' = EmitRvalue(me, Task.op, LastOps(Task.n), Task.own)
        /\ ops' = <<ReadPlace(FromLocal(NextLocal(me)), Task.own)>> \o Drop(Task.n)
     \/ /\ Doing("address")
        /\ me' = PushStmt(FreshTemp(me, Task.own), AddressOf(FromLocal(NextLocal(me)), ops[1]))
        /\ ops' = <<ReadPlace(FromLocal(NextLocal(me)), Task.own)>> \o Tail(ops)
  /\ Then(<<>>)
  /\ UNCHANGED <<fn, pc>>

\* A result, unlike emit_rvalue's, is copied even if it is an owner.
EmitTheCall ==
  /\ Doing("call")
  /\ IF Task.void
     THEN /\ me' = PushStmt(me, CallStmt(<<>>, LastOps(Task.n)))
          /\ ops' = <<ErrorConst>> \o Drop(Task.n)
     ELSE LET dest == FromLocal(NextLocal(me)) IN
          /\ me' = PushStmt(FreshTemp(me, Task.own), CallStmt(<<dest>>, LastOps(Task.n)))
          /\ ops' = <<Copy(dest)>> \o Drop(Task.n)
  /\ Then(<<>>)
  /\ UNCHANGED <<fn, pc>>

\* x++ saves the value it read; x stays at hand.
SaveOld ==
  /\ Doing("save")
  /\ me' = EmitRvalue(me, "use", <<ops[1]>>, Task.own)
  /\ ops' = <<ops[2], Copy(FromLocal(NextLocal(me)))>> \o Drop(2)
  /\ Then(<<>>)
  /\ UNCHANGED <<fn, pc>>

\* x op= e computes x op e, reading x after e.
CombineWithOld ==
  /\ Doing("combine")
  /\ me' = EmitRvalue(me, Task.op, <<ReadPlace(ops[2], Task.own), ops[1]>>, Task.own)
  /\ ops' = <<ReadPlace(FromLocal(NextLocal(me)), Task.own)>> \o Tail(ops)
  /\ Then(<<>>)
  /\ UNCHANGED <<fn, pc>>

UpdatePlace ==
  /\ Doing("update")
  /\ me' = PushStmt(me, Assign(ops[2], "use", <<ops[1]>>))
  /\ ops' = (CASE Task.result = "value" -> <<ops[1]>>
               [] Task.result = "place" -> <<Copy(ops[2])>>
               [] Task.result = "none" -> <<>>) \o Drop(2)
  /\ Then(<<>>)
  /\ UNCHANGED <<fn, pc>>

-----------------------------------------------------------------------------
Finished ==
  /\ pc # "run"
  /\ UNCHANGED vars

Next ==
  \/ LowerBlock \/ LowerCompound \/ LowerExprStmt \/ LowerDeclStmt \/ LowerDecl
  \/ LowerReturn \/ LowerIf \/ LowerWhile \/ LowerDoWhile \/ LowerFor \/ LowerForLoop
  \/ LowerBreak \/ LowerContinue \/ LowerEmpty
  \/ EnterBlock \/ SetJump \/ CloseArm \/ BranchOn \/ EnterLoop \/ LeaveLoop \/ Finish
  \/ LowerPlaceRead \/ LowerConst \/ LowerBinary \/ LowerUnary \/ LowerCast
  \/ LowerCall \/ LowerComma
  \/ LowerShortCircuit \/ LowerTernary \/ LowerAddrOf \/ LowerPrefix \/ LowerPostfix
  \/ LowerAssign \/ PanicOnPlace
  \/ LowerPlace \/ MaterializeOperand \/ ProjectPlace \/ ReadIt
  \/ PutOperand \/ DropOperands \/ StoreOperand \/ EmitIt \/ EmitTheCall \/ SaveOld
  \/ CombineWithOld \/ UpdatePlace
  \/ Finished

Spec == Init /\ [][Next]_vars

-----------------------------------------------------------------------------
(* Properties. *)

Blocks(m) == 0 .. Len(m.blocks) - 1
Locals(m) == 0 .. Len(m.locals) - 1

IsPlaceOf(m, pl) ==
  /\ pl.local \in Locals(m)
  /\ Range(pl.proj) \subseteq Locals(m) \cup {Deref}

IsOperandOf(m, o) == o.mode \in {"Copy", "Move"} => IsPlaceOf(m, o.place)

IsStatementOf(m, s) ==
  /\ \A o \in Range(s.reads) : IsOperandOf(m, o)
  /\ \A pl \in Range(s.dest) \cup Range(s.of) : IsPlaceOf(m, pl)

\* The Builder holds a body whose ids are all in range (it indexes its vectors
\* with them), and so are the ids it still has at hand.
TypeOK ==
  /\ pc \in {"run", "done", "panic"}
  /\ me.current \in Blocks(me)
  /\ Range(me.sym_to_local) \subseteq Locals(me)
  /\ \A t \in Range(me.loop_stack) : Range(t) \subseteq Blocks(me)
  /\ \A i \in DOMAIN me.blocks :
       LET b == me.blocks[i] IN
         /\ \A s \in Range(b.stmts) : IsStatementOf(me, s)
         /\ Range(b.term.to) \subseteq Blocks(me)
         /\ \A o \in Range(b.term.cond) : IsOperandOf(me, o)
  /\ \A x \in Range(ops) : IF "mode" \in DOMAIN x THEN IsOperandOf(me, x) ELSE IsPlaceOf(me, x)

\* new_block leaves `Unreachable` on a block for its caller to patch
\* (build.rs:113): when the body is handed out every block has been patched,
\* the dead ones too, and no loop is left open.
EveryBlockClosed ==
  pc = "done" =>
    /\ \A i \in DOMAIN me.blocks : me.blocks[i].term.t # "Unreachable"
    /\ me.loop_stack = <<>>
    /\ ops = <<>>

\* set_terminator and push_stmt check nothing: that a block which got its
\* terminator is never written again is up to every caller's use of
\* is_current_live and to the order in which it switches blocks.  The one
\* exception is the join block of && and ||, which is first closed with a jump
\* to itself (build.rs:639) and then written on.
ClosedBlocksStay ==
  [][\A i \in DOMAIN me.blocks :
       me.blocks[i].term \notin {Unreachable, Goto(i - 1)} => me'.blocks[i] = me.blocks[i]]_vars

=============================================================================
