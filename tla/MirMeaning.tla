----------------------------- MODULE MirMeaning -----------------------------
(***************************************************************************)
(* What a function does when it runs, twice: read off the HIR, as C says,  *)
(* and by executing the MIR the Builder made of it.  The lowering is right *)
(* if both make the same calls with the same arguments in the same order   *)
(* and return the same value, whatever the called functions answer.        *)
(*                                                                         *)
(* A value is [int |-> n], [fn |-> symbol] or [ptr |-> variable].  A call  *)
(* takes the next value of `answers`, and 0 when they are used up.         *)
(* The operators are recursive: only TLC uses this module.                 *)
(***************************************************************************)
EXTENDS MirBuild

CONSTANTS
  Answers,  \* the sequences of answers to try
  Fuel      \* bound: blocks of MIR executed in one run

Number(n) == [int |-> n]
Truth(v) == v # Number(0)
Undef == [undef |-> TRUE]

Apply(op, vs) ==
  IF \E i \in DOMAIN vs : "int" \notin DOMAIN vs[i]
  THEN Undef
  ELSE LET n == [i \in DOMAIN vs |-> vs[i].int] IN
       Number(CASE op = "add" -> n[1] + n[2]
                [] op = "sub" -> n[1] - n[2]
                [] op = "neg" -> -n[1]
                [] op = "not" -> IF n[1] = 0 THEN 1 ELSE 0
                [] op = "eq" -> IF n[1] = n[2] THEN 1 ELSE 0)

\* What a run has done: memory, the answers left, the calls made.
At(env, ans) == [env |-> env, answers |-> ans, trace |-> <<>>]
Write(s, x, v) == [s EXCEPT !.env = (x :> v) @@ @]
Contents(s, x) == IF x \in DOMAIN s.env THEN s.env[x] ELSE Undef
Answer(s) == Number(IF s.answers = <<>> THEN 0 ELSE Head(s.answers))
Called(s, vs) ==
  [s EXCEPT !.trace = Append(@, vs),
            !.answers = IF @ = <<>> THEN @ ELSE Tail(@)]

-----------------------------------------------------------------------------
(* The source.  Exec also tells how the statement ended: "next", "break",     *)
(* "continue", or "return" with the values returned (none or one).            *)

\* A value, and the variable it was read from (Nowhere if none).
Nowhere == "nowhere"
Value(v, s) == [v |-> v, at |-> Nowhere, s |-> s]
Stored(x, s) == [v |-> Contents(s, x), at |-> x, s |-> s]
Ended(how, s) == [how |-> how, s |-> s, value |-> <<>>]

Bool(v) == Number(IF Truth(v) THEN 1 ELSE 0)

\* An operation on evaluated operands: vs are their values, at the variables
\* they were read from.
Result(e, vs, at, s) ==
  CASE e.k = "const" -> Value(e.what, s)
    [] e.k = "ref" -> IF e.what \in Functions THEN Value([fn |-> e.what], s)
                                              ELSE Stored(e.what, s)
    [] e.k = "deref" \/ (e.k = "index" /\ vs[2] = Number(0)) -> Stored(vs[1].ptr, s)
    [] e.k = "addr_of" -> Value([ptr |-> at[1]], s)
    [] e.k \in {"unary", "binary"} -> Value(Apply(e.what, vs), s)
    [] e.k = "call" /\ e.what = "void" -> Value(Undef, [s EXCEPT !.trace = Append(@, vs)])
    [] e.k = "call" /\ e.what # "void" -> Value(Answer(s), Called(s, vs))
    [] e.k \in {"comma", "plus"} -> Value(Last(vs), s)
    [] e.k \in {"pre", "post", "assign"} ->
         LET rhs == IF e.k = "assign" THEN vs[2] ELSE Number(1)
             new == IF e.what = "=" THEN rhs ELSE Apply(e.what, <<vs[1], rhs>>)
         IN Value(IF e.k = "post" THEN vs[1] ELSE new, Write(s, at[1], new))

ResultOf(e, r) == Result(e, r.vs, r.at, r.s)

\* The operand whose value ?:, && or || has, when the value of the first is v.
Chosen(e, v) ==
  CASE e.k = "ternary" -> IF Truth(v) THEN 2 ELSE 3
    [] e.k = "logical" -> IF Truth(v) = (e.what = "and") THEN 2 ELSE 1

RECURSIVE Eval(_, _), Exec(_, _)

Eval(e, s) ==
  IF e.k \in {"ternary", "logical"}
  THEN LET c == Eval(e.args[1], s)
           r == IF Chosen(e, c.v) = 1 THEN c ELSE Eval(e.args[Chosen(e, c.v)], c.s)
       IN Value(IF e.k = "logical" THEN Bool(r.v) ELSE r.v, r.s)
  ELSE ResultOf(e, FoldLeft(LAMBDA r, a : LET x == Eval(a, r.s) IN
                              [vs |-> Append(r.vs, x.v), at |-> Append(r.at, x.at), s |-> x.s],
                            [vs |-> <<>>, at |-> <<>>, s |-> s], e.args))

\* while (test) { body; step; }  With `skip` the test is skipped the first time.
LoopOf(st) ==
  [k |-> "loop", skip |-> st.k = "do_while", body |-> st.body,
   test |-> IF st.k = "for" THEN st.cond ELSE <<st.c>>,
   step |-> IF st.k = "for" THEN st.step ELSE <<>>]

Exec(st, s) ==
  LET all(ss, t) == FoldLeft(LAMBDA r, x : IF r.how = "next" THEN Exec(x, r.s) ELSE r,
                             Ended("next", t), ss)
  IN
  CASE st.k = "compound" -> all(st.body, s)
    [] st.k = "expr" -> Ended("next", Eval(st.e, s).s)
    [] st.k = "decl" ->
         Ended("next", FoldLeft(LAMBDA t, d : IF d.init = <<>> THEN t
                                  ELSE LET a == Eval(d.init[1], t) IN Write(a.s, d.sym, a.v),
                                s, st.ds))
    [] st.k = "if" -> LET c == Eval(st.c, s) IN
                      all(IF Truth(c.v) THEN <<st.then>> ELSE st.else, c.s)
    [] st.k \in {"while", "do_while"} -> Exec(LoopOf(st), s)
    [] st.k = "for" -> Exec(LoopOf(st), all(st.init, s).s)
    [] st.k = "loop" ->
         LET c == IF st.skip \/ st.test = <<>> THEN Value(Number(1), s)
                  ELSE Eval(st.test[1], s)
             r == Exec(st.body, c.s)
         IN IF ~Truth(c.v) THEN Ended("next", c.s)
            ELSE CASE r.how = "break" -> Ended("next", r.s)
                   [] r.how = "return" -> r
                   [] OTHER -> Exec([st EXCEPT !.skip = FALSE],
                                    FoldLeft(LAMBDA t, e : Eval(e, t).s, r.s, st.step))
    [] st.k = "return" /\ st.value = <<>> -> Ended("return", s)
    [] st.k = "return" /\ st.value # <<>> ->
         LET a == Eval(st.value[1], s) IN [how |-> "return", s |-> a.s, value |-> <<a.v>>]
    [] st.k \in {"break", "continue"} -> Ended(st.k, s)
    [] st.k = "empty" -> Ended("next", s)

\* Parameter i is called with the number i.
RunSource(f, ans) ==
  LET env == [x \in {f.params[i].sym : i \in DOMAIN f.params} |->
                Number(CHOOSE i \in DOMAIN f.params : f.params[i].sym = x)]
      r == Exec([k |-> "compound", body |-> f.body], At(env, ans))
  IN [trace |-> r.s.trace, value |-> r.value]

-----------------------------------------------------------------------------
(* The MIR. *)

\* The local a place designates: itself, or what it points to, which is an
\* array of one.
LocalOf(pl, s) ==
  CASE pl.proj = <<>> -> pl.local
    [] pl.proj = <<Deref>> -> Contents(s, pl.local).ptr
    [] Len(pl.proj) = 2 /\ Contents(s, pl.proj[2]) = Number(0) -> Contents(s, pl.local).ptr

OperandValue(o, s) ==
  IF o.mode = "Const" THEN o.const ELSE Contents(s, LocalOf(o.place, s))

Step(st, s) ==
  LET vs == [i \in DOMAIN st.reads |-> OperandValue(st.reads[i], s)] IN
  CASE st.op = "live" -> s
    [] st.op = "use" -> Write(s, LocalOf(st.dest[1], s), vs[1])
    [] st.op = "addr_of" -> Write(s, st.dest[1].local, [ptr |-> LocalOf(st.of[1], s)])
    [] st.op = "call" -> IF st.dest = <<>> THEN [s EXCEPT !.trace = Append(@, vs)]
                         ELSE Write(Called(s, vs), st.dest[1].local, Answer(s))
    [] OTHER -> Write(s, st.dest[1].local, Apply(st.op, vs))

\* Runs from block b; a run that takes more than `fuel` blocks does not return.
RECURSIVE RunBlocks(_, _, _, _)
RunBlocks(m, b, s, fuel) ==
  LET blk == m.blocks[b + 1]
      t == FoldLeft(LAMBDA u, st : Step(st, u), s, blk.stmts)
      to == blk.term.to
  IN CASE blk.term.t = "Return" -> [trace |-> t.trace, value |-> <<Contents(t, 0)>>]
       [] fuel = 0 \/ blk.term.t = "Unreachable" -> [trace |-> t.trace, value |-> <<>>]
       [] blk.term.t = "Goto" -> RunBlocks(m, to[1], t, fuel - 1)
       [] blk.term.t = "SwitchInt" ->
            RunBlocks(m, to[IF Truth(OperandValue(blk.term.cond[1], t)) THEN 1 ELSE 2],
                      t, fuel - 1)

RunMir(ans) ==
  RunBlocks(me, 0, At([l \in 1 .. Len(fn.params) |-> Number(l)], ans), Fuel)

-----------------------------------------------------------------------------
(* Properties. *)

(***************************************************************************)
(* The MIR makes the calls the source makes, in that order and with those  *)
(* arguments, and it returns what the source returns, whatever is          *)
(* answered: through every nesting of loops, jumps out of them,            *)
(* declarations and expressions that are lowered to control flow.  A call  *)
(* answers numbers: functions with owners, whose pointers come from calls, *)
(* are left out.                                                           *)
(***************************************************************************)
RunsLikeTheSource ==
  pc = "done" /\ (\A l \in Range(me.locals) : ~l.own) =>
    \A ans \in Answers :
      LET source == RunSource(fn, ans)  mir == RunMir(ans) IN
        /\ mir.trace = source.trace
        /\ mir.value # <<>>
        /\ source.value # <<>> => mir.value = source.value

=============================================================================
