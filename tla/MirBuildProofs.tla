--------------------------- MODULE MirBuildProofs ---------------------------
(***************************************************************************)
(* The builder keeps its body in range, closes every block, and does not   *)
(* write a block again that it has closed: for every program.              *)
(*                                                                         *)
(* The invariant says that what is left to do fits what is at hand.  A     *)
(* point is what the proof follows of the builder between two tasks: which *)
(* kinds of values pending code holds, how the current block stands, how   *)
(* many loops are open and which blocks have been made and not yet been    *)
(* entered.  Every task has an effect on the point; todo always leads from *)
(* the present point to the end, where nothing is pending, and an action   *)
(* replaces a task by tasks that together have the same effect.            *)
(***************************************************************************)
EXTENDS MirBuild, SequenceFacts

-----------------------------------------------------------------------------
(* Points.  kinds[i] is the kind of the i-th value from the bottom.           *)

Kind == {"operand", "place"}

\* The current block is open when it may be written, closed when it has its
\* terminator; join is the join block of && or ||, entered for the first time.
Flag == {"open", "any", "closed", "join"}

Point == [kinds : [Nat -> Kind], height : Nat, flag : Flag, at : Int, depth : Nat, pend : SUBSET Int]

KindOf(x) == IF "mode" \in DOMAIN x THEN "operand" ELSE "place"

Operands(n) == [i \in 1 .. n |-> "operand"]

\* The values a task takes and the values it leaves, bottom first.
Takes(t) ==
  CASE t.do \in {"branch", "discard", "store", "materialize"} -> <<"operand">>
    [] t.do \in {"keep_last", "emit", "call"} -> Operands(t.n)
    [] t.do \in {"read", "address", "peek", "deref"} -> <<"place">>
    [] t.do = "index" -> <<"place", "place">>
    [] t.do \in {"save", "combine", "update"} -> <<"place", "operand">>
    [] OTHER -> <<>>

Leaves(t) ==
  CASE t.do \in {"expr", "keep_last", "emit", "call", "read", "address"} -> <<"operand">>
    [] t.do \in {"place", "materialize", "deref", "index"} -> <<"place">>
    [] t.do = "put" -> <<KindOf(t.x)>>
    [] t.do \in {"peek", "combine"} -> <<"place", "operand">>
    [] t.do = "save" -> <<"operand", "place">>
    [] t.do = "update" -> IF t.result = "none" THEN <<>> ELSE <<"operand">>
    [] OTHER -> <<>>

\* q holds what p holds, with `out` on top in place of `in`.
Stack(p, q, in, out) ==
  /\ Len(in) <= p.height
  /\ q.height = p.height - Len(in) + Len(out)
  /\ \A i \in 1 .. Len(in) : p.kinds[p.height - Len(in) + i] = in[i]
  /\ \A i \in 1 .. Len(out) : q.kinds[p.height - Len(in) + i] = out[i]
  /\ \A i \in 1 .. p.height - Len(in) : q.kinds[i] = p.kinds[i]

\* The current block stays as it is, or less is known of it.
Stays(p, q) == p.flag = "open" /\ q.flag \in {"open", "any"}

Flow(t, p, q) ==
  CASE t.do = "block" -> p.flag \in {"open", "any"} /\ q.flag = "any" /\ q.pend = p.pend
    [] t.do = "stmt" ->
         p.flag = "open" /\ (q.flag = "any" \/ (q.flag = "open" /\ IsForInit(t.s))) /\ q.pend = p.pend
    [] t.do = "for" -> p.flag = "open" /\ q.flag = "any" /\ q.pend = p.pend
    [] t.do = "close" -> p.flag \in {"open", "any"} /\ q.flag = "closed" /\ q.pend = p.pend
    [] t.do = "branch" -> p.flag = "open" /\ q.flag \in {"closed", "any"} /\ q.pend = p.pend
    [] t.do = "jump" ->
         /\ \/ p.flag = "open" /\ q.flag \in {"closed", "any"}
            \/ p.flag = "join" /\ q.flag = "closed" /\ t.term = Goto(p.at)
         /\ q.pend = p.pend
    [] t.do = "enter" ->
         /\ p.flag = "closed" /\ p.pend = q.pend \cup {t.block}
         /\ \/ q.flag \in {"open", "any"} /\ t.block \notin q.pend
            \/ q.flag = "join" /\ q.at = t.block /\ t.block \in q.pend
    [] t.do \in {"push_loop", "pop_loop"} -> p.flag = "closed" /\ q.flag = "closed" /\ q.pend = p.pend
    [] t.do \in {"put", "store"} ->
         (Stays(p, q) \/ (p.flag = "join" /\ q.flag = "join" /\ q.at = p.at)) /\ q.pend = p.pend
    [] OTHER -> Stays(p, q) /\ q.pend = p.pend

Loops(t) == CASE t.do = "push_loop" -> 1 [] t.do = "pop_loop" -> -1 [] OTHER -> 0

Effect(t, p, q) ==
  /\ Stack(p, q, Takes(t), Leaves(t))
  /\ Flow(t, p, q)
  /\ q.depth = p.depth + Loops(t)

\* The tasks one after the other lead from p to q.
Runs(ts, p, q) ==
  \E h \in [1 .. Len(ts) + 1 -> Point] :
    /\ h[1] = p /\ h[Len(ts) + 1] = q
    /\ \A i \in 1 .. Len(ts) : Effect(ts[i], h[i], h[i + 1])

\* ... to the end of the function.
IsEnd(q) == q.height = 0 /\ q.flag = "any" /\ q.depth = 0 /\ q.pend = {}
Leads(ts, p) == \E q \in Point : IsEnd(q) /\ Runs(ts, p, q)

-----------------------------------------------------------------------------
(* The builder at a point.                                                    *)

Term(m, b) == m.blocks[b + 1].term
Writable(m, b) == Term(m, b) \in {Unreachable, Goto(b)}

Stacked(o, p) ==
  /\ Len(o) = p.height
  /\ \A i \in 1 .. Len(o) : KindOf(o[i]) = p.kinds[Len(o) + 1 - i]

Placed(m, p) ==
  /\ Len(m.loop_stack) = p.depth
  /\ p.pend \subseteq Blocks(m) /\ \A b \in p.pend : Writable(m, b)
  /\ \A b \in Blocks(m) : Term(m, b) = Unreachable => b \in {m.current} \cup p.pend
  /\ p.flag \in {"open", "any"} => m.current \notin p.pend
  /\ p.flag = "open" => Writable(m, m.current)
  /\ p.flag = "closed" => Term(m, m.current) # Unreachable
  /\ p.flag = "join" => m.current = p.at /\ m.current \in p.pend

-----------------------------------------------------------------------------
(* What the builder holds is in range.                                        *)

PlaceIn(m, pl) ==
  /\ pl = [local |-> pl.local, proj |-> pl.proj]
  /\ IsSequence(pl.proj)
  /\ IsPlaceOf(m, pl)

OperandIn(m, o) ==
  \/ o = Const(o.const)
  \/ PlaceIn(m, o.place) /\ o \in {Copy(o.place), Move(o.place)}

StatementIn(m, s) ==
  /\ IsSequence(s.reads) /\ \A i \in 1 .. Len(s.reads) : OperandIn(m, s.reads[i])
  /\ IsSequence(s.dest) /\ \A i \in 1 .. Len(s.dest) : PlaceIn(m, s.dest[i])
  /\ IsSequence(s.of) /\ \A i \in 1 .. Len(s.of) : PlaceIn(m, s.of[i])

TermIn(m, t) ==
  \/ t \in {Unreachable, Return}
  \/ \E b \in Blocks(m) : t = Goto(b)
  \/ \E c : \E b1, b2 \in Blocks(m) : OperandIn(m, c) /\ t = SwitchInt(c, b1, b2)

BlockIn(m, b) ==
  /\ b = [stmts |-> b.stmts, term |-> b.term]
  /\ IsSequence(b.stmts) /\ \A i \in 1 .. Len(b.stmts) : StatementIn(m, b.stmts[i])
  /\ TermIn(m, b.term)

BuilderOK(m) ==
  /\ m = [locals |-> m.locals, blocks |-> m.blocks, current |-> m.current,
          sym_to_local |-> m.sym_to_local, loop_stack |-> m.loop_stack]
  /\ IsSequence(m.locals) /\ m.locals # <<>>
  /\ IsSequence(m.blocks) /\ \A i \in 1 .. Len(m.blocks) : BlockIn(m, m.blocks[i])
  /\ m.current \in Blocks(m)
  /\ Range(m.sym_to_local) \subseteq Locals(m)
  /\ m.loop_stack \in Seq(Blocks(m) \X Blocks(m))

ValueIn(m, x) == OperandIn(m, x) \/ PlaceIn(m, x)
OpsOK(m, o) == IsSequence(o) /\ \A i \in 1 .. Len(o) : ValueIn(m, o[i])
ValuesStay(m, n) == \A x : ValueIn(m, x) => ValueIn(n, x)

\* try_lower_as_place succeeds, also later.
PlaceExpr(m, e) ==
  e.k \in {"deref", "index"} \/ (e.k = "ref" /\ e.what \in DOMAIN m.sym_to_local)

TaskOK(m, t) ==
  CASE t.do = "block" -> t.ss \in Seq(HirStmt)
    [] t.do = "stmt" -> t.s \in HirStmt
    [] t.do = "for" -> t.s \in HirStmt /\ t.s.k = "for"
    [] t.do = "decl" -> IsDecl(t.d)
    [] t.do = "expr" -> t.e \in HirExpr
    [] t.do = "place" -> t.e \in HirExpr /\ PlaceExpr(m, t.e)
    [] t.do = "enter" -> t.block \in Blocks(m)
    [] t.do = "jump" -> t.term = Return \/ \E b \in Blocks(m) : t.term = Goto(b)
    [] t.do = "close" -> t.to \in Blocks(m)
    [] t.do = "branch" -> t.to \in Blocks(m) \X Blocks(m)
    [] t.do = "push_loop" -> t.targets \in Blocks(m) \X Blocks(m)
    [] t.do = "put" -> ValueIn(m, t.x)
    [] t.do = "store" -> t.local \in Locals(m)
    [] t.do = "keep_last" -> t.n \in Nat \ {0}
    [] t.do \in {"emit", "call"} -> t.n \in Nat
    [] t.do = "update" -> t.result \in {"value", "place", "none"}
    [] OTHER -> t.do \in {"pop_loop", "discard", "read", "peek", "materialize", "deref", "index",
                          "address", "save", "combine"}

TasksOK(m, ts) == IsSequence(ts) /\ \A i \in 1 .. Len(ts) : TaskOK(m, ts[i])

(***************************************************************************)
(* The inductive invariant.                                                *)
(***************************************************************************)
Inv ==
  /\ pc \in {"run", "done", "panic"}
  /\ BuilderOK(me)
  /\ OpsOK(me, ops)
  /\ TasksOK(me, todo)
  /\ pc = "run" => \E p \in Point : Stacked(ops, p) /\ Placed(me, p) /\ Leads(todo, p)
  /\ EveryBlockClosed

-----------------------------------------------------------------------------
(* Runs of tasks.                                                             *)

LEMMA RunsNothing ==
  ASSUME NEW p \in Point
  PROVE  Runs(<<>>, p, p)
<1> DEFINE h == [i \in 1 .. 1 |-> p]
<1>1. Len(<<>>) = 0
  BY SequenceEmpty
<1>2. h \in [1 .. Len(<<>>) + 1 -> Point] /\ h[1] = p
  BY <1>1
<1> HIDE DEF h
<1> QED
  BY <1>1, <1>2 DEF Runs

LEMMA RunsConcat ==
  ASSUME NEW s, IsSequence(s), NEW t, IsSequence(t), NEW p, NEW q, NEW r,
         Runs(s, p, q), Runs(t, q, r)
  PROVE  Runs(s \o t, p, r)
<1> DEFINE m == Len(s)
           n == Len(t)
<1>1. m \in Nat /\ n \in Nat
  BY SequenceElim
<1>2. PICK g \in [1 .. m + 1 -> Point] :
        /\ g[1] = p /\ g[m + 1] = q
        /\ \A i \in 1 .. m : Effect(s[i], g[i], g[i + 1])
  BY DEF Runs
<1>3. PICK h \in [1 .. n + 1 -> Point] :
        /\ h[1] = q /\ h[n + 1] = r
        /\ \A i \in 1 .. n : Effect(t[i], h[i], h[i + 1])
  BY DEF Runs
<1> DEFINE f == [i \in 1 .. m + n + 1 |-> IF i <= m THEN g[i] ELSE h[i - m]]
<1>4. /\ Len(s \o t) = m + n
      /\ \A i \in 1 .. m : (s \o t)[i] = s[i]
      /\ \A i \in 1 .. n : (s \o t)[m + i] = t[i]
  BY SequenceConcat
<1> HIDE DEF m, n
<1>5. f \in [1 .. m + n + 1 -> Point]
  <2>1. ASSUME NEW i \in 1 .. m + n + 1, i <= m
        PROVE  i \in 1 .. m + 1
    BY <1>1, <2>1
  <2>2. ASSUME NEW i \in 1 .. m + n + 1, ~ (i <= m)
        PROVE  i - m \in 1 .. n + 1
    BY <1>1, <2>2
  <2> QED
    BY <2>1, <2>2
<1>6. f[1] = p
  <2>1. CASE m = 0
    BY <1>1, <1>2, <1>3, <2>1
  <2>2. CASE m # 0
    BY <1>1, <1>2, <2>2
  <2> QED
    BY <2>1, <2>2
<1>7. f[m + n + 1] = r
  BY <1>1, <1>3
<1>8. ASSUME NEW i \in 1 .. m + n
      PROVE  Effect((s \o t)[i], f[i], f[i + 1])
  <2>1. CASE i < m
    <3>1. i \in 1 .. m /\ f[i] = g[i] /\ f[i + 1] = g[i + 1]
      BY <1>1, <2>1
    <3> QED
      BY <1>2, <1>4, <3>1
  <2>2. CASE i = m
    <3>1. i \in 1 .. m /\ f[i] = g[i] /\ f[i + 1] = h[1]
      BY <1>1, <2>2
    <3> QED
      BY <1>2, <1>3, <1>4, <2>2, <3>1
  <2>3. CASE i > m
    <3>1. /\ i - m \in 1 .. n /\ m + (i - m) = i
          /\ f[i] = h[i - m] /\ f[i + 1] = h[i - m + 1]
      BY <1>1, <2>3
    <3> QED
      BY <1>3, <1>4, <3>1
  <2>4. i < m \/ i = m \/ i > m
    BY <1>1
  <2> QED
    BY <2>1, <2>2, <2>3, <2>4
<1> HIDE DEF f
<1> QED
  BY <1>4, <1>5, <1>6, <1>7, <1>8 DEF Runs

LEMMA RunsHead ==
  ASSUME NEW s, IsSequence(s), s # <<>>, NEW p, NEW r, Runs(s, p, r)
  PROVE  \E q \in Point : p \in Point /\ Effect(Head(s), p, q) /\ Runs(Tail(s), q, r)
<1> DEFINE n == Len(s)
<1>1. /\ n \in Nat \ {0} /\ Head(s) = s[1] /\ Len(Tail(s)) = n - 1
      /\ \A i \in 1 .. n - 1 : Tail(s)[i] = s[i + 1]
  BY SequenceTail
<1>2. PICK h \in [1 .. n + 1 -> Point] :
        /\ h[1] = p /\ h[n + 1] = r
        /\ \A i \in 1 .. n : Effect(s[i], h[i], h[i + 1])
  BY DEF Runs
<1> HIDE DEF n
<1> DEFINE g == [i \in 1 .. n |-> h[i + 1]]
<1>3. g \in [1 .. Len(Tail(s)) + 1 -> Point] /\ g[1] = h[2] /\ g[Len(Tail(s)) + 1] = r
  BY <1>1, <1>2
<1>4. ASSUME NEW i \in 1 .. Len(Tail(s))
      PROVE  Effect(Tail(s)[i], g[i], g[i + 1])
  <2>1. i \in 1 .. n - 1 /\ i + 1 \in 1 .. n /\ g[i] = h[i + 1] /\ g[i + 1] = h[i + 1 + 1]
    BY <1>1
  <2> QED
    BY <1>1, <1>2, <2>1
<1>5. h[1] \in Point /\ h[2] \in Point /\ Effect(Head(s), p, h[2])
  BY <1>1, <1>2
<1> HIDE DEF g
<1>6. Runs(Tail(s), h[2], r)
  BY <1>3, <1>4 DEF Runs
<1> QED
  BY <1>2, <1>5, <1>6

LEMMA RunsOne ==
  ASSUME NEW t, NEW p \in Point, NEW q \in Point, Effect(t, p, q)
  PROVE  Runs(<<t>>, p, q)
<1>1. Len(<<t>>) = 1 /\ <<t>>[1] = t
  BY SequenceOne
<1>2. <<p, q>> \in [1 .. 1 + 1 -> Point] /\ <<p, q>>[1] = p /\ <<p, q>>[2] = q
  OBVIOUS
<1> QED
  BY <1>1, <1>2 DEF Runs

LEMMA RunsTwo ==
  ASSUME NEW t1, NEW t2, NEW p1 \in Point, NEW p2 \in Point, NEW p3 \in Point, Effect(t1, p1, p2),
         Effect(t2, p2, p3)
  PROVE  Runs(<<t1, t2>>, p1, p3)
<1> DEFINE ts == <<t1, t2>>
           h == <<p1, p2, p3>>
<1> SUFFICES Runs(ts, p1, p3)
  OBVIOUS
<1>1. Len(ts) = 2 /\ Len(ts) + 1 = 3
  OBVIOUS
<1>2. h \in [1 .. 3 -> Point] /\ h[1] = p1 /\ h[3] = p3
  OBVIOUS
<1>3. ASSUME NEW i \in 1 .. 2
      PROVE  Effect(ts[i], h[i], h[i + 1])
  <2>1. i = 1 \/ i = 2
    OBVIOUS
  <2> QED
    BY <2>1
<1> HIDE DEF ts, h
<1> QED
  BY <1>1, <1>2, <1>3 DEF Runs

LEMMA RunsThree ==
  ASSUME NEW t1, NEW t2, NEW t3, NEW p1 \in Point, NEW p2 \in Point, NEW p3 \in Point,
         NEW p4 \in Point, Effect(t1, p1, p2), Effect(t2, p2, p3), Effect(t3, p3, p4)
  PROVE  Runs(<<t1, t2, t3>>, p1, p4)
<1> DEFINE ts == <<t1, t2, t3>>
           h == <<p1, p2, p3, p4>>
<1> SUFFICES Runs(ts, p1, p4)
  OBVIOUS
<1>1. Len(ts) = 3 /\ Len(ts) + 1 = 4
  OBVIOUS
<1>2. h \in [1 .. 4 -> Point] /\ h[1] = p1 /\ h[4] = p4
  OBVIOUS
<1>3. ASSUME NEW i \in 1 .. 3
      PROVE  Effect(ts[i], h[i], h[i + 1])
  <2>1. i = 1 \/ i = 2 \/ i = 3
    OBVIOUS
  <2> QED
    BY <2>1
<1> HIDE DEF ts, h
<1> QED
  BY <1>1, <1>2, <1>3 DEF Runs

LEMMA RunsFive ==
  ASSUME NEW t1, NEW t2, NEW t3, NEW t4, NEW t5, NEW p1 \in Point, NEW p2 \in Point,
         NEW p3 \in Point, NEW p4 \in Point, NEW p5 \in Point, NEW p6 \in Point, Effect(t1, p1, p2),
         Effect(t2, p2, p3), Effect(t3, p3, p4), Effect(t4, p4, p5), Effect(t5, p5, p6)
  PROVE  Runs(<<t1, t2, t3, t4, t5>>, p1, p6)
<1> DEFINE ts == <<t1, t2, t3, t4, t5>>
           h == <<p1, p2, p3, p4, p5, p6>>
<1> SUFFICES Runs(ts, p1, p6)
  OBVIOUS
<1>1. Len(ts) = 5 /\ Len(ts) + 1 = 6
  OBVIOUS
<1>2. h \in [1 .. 6 -> Point] /\ h[1] = p1 /\ h[6] = p6
  OBVIOUS
<1>3. ASSUME NEW i \in 1 .. 5
      PROVE  Effect(ts[i], h[i], h[i + 1])
  <2>1. i = 1 \/ i = 2 \/ i = 3 \/ i = 4 \/ i = 5
    OBVIOUS
  <2> QED
    BY <2>1
<1> HIDE DEF ts, h
<1> QED
  BY <1>1, <1>2, <1>3 DEF Runs

LEMMA RunsSix ==
  ASSUME NEW t1, NEW t2, NEW t3, NEW t4, NEW t5, NEW t6, NEW p1 \in Point, NEW p2 \in Point,
         NEW p3 \in Point, NEW p4 \in Point, NEW p5 \in Point, NEW p6 \in Point, NEW p7 \in Point,
         Effect(t1, p1, p2), Effect(t2, p2, p3), Effect(t3, p3, p4), Effect(t4, p4, p5),
         Effect(t5, p5, p6), Effect(t6, p6, p7)
  PROVE  Runs(<<t1, t2, t3, t4, t5, t6>>, p1, p7)
<1> DEFINE ts == <<t1, t2, t3, t4, t5, t6>>
           h == <<p1, p2, p3, p4, p5, p6, p7>>
<1> SUFFICES Runs(ts, p1, p7)
  OBVIOUS
<1>1. Len(ts) = 6 /\ Len(ts) + 1 = 7
  OBVIOUS
<1>2. h \in [1 .. 7 -> Point] /\ h[1] = p1 /\ h[7] = p7
  OBVIOUS
<1>3. ASSUME NEW i \in 1 .. 6
      PROVE  Effect(ts[i], h[i], h[i + 1])
  <2>1. i = 1 \/ i = 2 \/ i = 3 \/ i = 4 \/ i = 5 \/ i = 6
    OBVIOUS
  <2> QED
    BY <2>1
<1> HIDE DEF ts, h
<1> QED
  BY <1>1, <1>2, <1>3 DEF Runs

LEMMA RunsSeven ==
  ASSUME NEW t1, NEW t2, NEW t3, NEW t4, NEW t5, NEW t6, NEW t7, NEW p1 \in Point, NEW p2 \in Point,
         NEW p3 \in Point, NEW p4 \in Point, NEW p5 \in Point, NEW p6 \in Point, NEW p7 \in Point,
         NEW p8 \in Point, Effect(t1, p1, p2), Effect(t2, p2, p3), Effect(t3, p3, p4),
         Effect(t4, p4, p5), Effect(t5, p5, p6), Effect(t6, p6, p7), Effect(t7, p7, p8)
  PROVE  Runs(<<t1, t2, t3, t4, t5, t6, t7>>, p1, p8)
<1> DEFINE ts == <<t1, t2, t3, t4, t5, t6, t7>>
           h == <<p1, p2, p3, p4, p5, p6, p7, p8>>
<1> SUFFICES Runs(ts, p1, p8)
  OBVIOUS
<1>1. Len(ts) = 7 /\ Len(ts) + 1 = 8
  OBVIOUS
<1>2. h \in [1 .. 8 -> Point] /\ h[1] = p1 /\ h[8] = p8
  OBVIOUS
<1>3. ASSUME NEW i \in 1 .. 7
      PROVE  Effect(ts[i], h[i], h[i + 1])
  <2>1. i = 1 \/ i = 2 \/ i = 3 \/ i = 4 \/ i = 5 \/ i = 6 \/ i = 7
    OBVIOUS
  <2> QED
    BY <2>1
<1> HIDE DEF ts, h
<1> QED
  BY <1>1, <1>2, <1>3 DEF Runs

LEMMA RunsTen ==
  ASSUME NEW t1, NEW t2, NEW t3, NEW t4, NEW t5, NEW t6, NEW t7, NEW t8, NEW t9, NEW t10,
         NEW p1 \in Point, NEW p2 \in Point, NEW p3 \in Point, NEW p4 \in Point, NEW p5 \in Point,
         NEW p6 \in Point, NEW p7 \in Point, NEW p8 \in Point, NEW p9 \in Point, NEW p10 \in Point,
         NEW p11 \in Point, Effect(t1, p1, p2), Effect(t2, p2, p3), Effect(t3, p3, p4),
         Effect(t4, p4, p5), Effect(t5, p5, p6), Effect(t6, p6, p7), Effect(t7, p7, p8),
         Effect(t8, p8, p9), Effect(t9, p9, p10), Effect(t10, p10, p11)
  PROVE  Runs(<<t1, t2, t3, t4, t5, t6, t7, t8, t9, t10>>, p1, p11)
<1> DEFINE ts == <<t1, t2, t3, t4, t5, t6, t7, t8, t9, t10>>
           h == <<p1, p2, p3, p4, p5, p6, p7, p8, p9, p10, p11>>
<1> SUFFICES Runs(ts, p1, p11)
  OBVIOUS
<1>1. Len(ts) = 10 /\ Len(ts) + 1 = 11
  OBVIOUS
<1>2. h \in [1 .. 11 -> Point] /\ h[1] = p1 /\ h[11] = p11
  OBVIOUS
<1>3. ASSUME NEW i \in 1 .. 10
      PROVE  Effect(ts[i], h[i], h[i + 1])
  <2>1. i = 1 \/ i = 2 \/ i = 3 \/ i = 4 \/ i = 5 \/ i = 6 \/ i = 7 \/ i = 8 \/ i = 9 \/ i = 10
    OBVIOUS
  <2> QED
    BY <2>1
<1> HIDE DEF ts, h
<1> QED
  BY <1>1, <1>2, <1>3 DEF Runs

LEMMA RunsTwelve ==
  ASSUME NEW t1, NEW t2, NEW t3, NEW t4, NEW t5, NEW t6, NEW t7, NEW t8, NEW t9, NEW t10, NEW t11,
         NEW t12, NEW p1 \in Point, NEW p2 \in Point, NEW p3 \in Point, NEW p4 \in Point,
         NEW p5 \in Point, NEW p6 \in Point, NEW p7 \in Point, NEW p8 \in Point, NEW p9 \in Point,
         NEW p10 \in Point, NEW p11 \in Point, NEW p12 \in Point, NEW p13 \in Point,
         Effect(t1, p1, p2), Effect(t2, p2, p3), Effect(t3, p3, p4), Effect(t4, p4, p5),
         Effect(t5, p5, p6), Effect(t6, p6, p7), Effect(t7, p7, p8), Effect(t8, p8, p9),
         Effect(t9, p9, p10), Effect(t10, p10, p11), Effect(t11, p11, p12), Effect(t12, p12, p13)
  PROVE  Runs(<<t1, t2, t3, t4, t5, t6, t7, t8, t9, t10, t11, t12>>, p1, p13)
<1> DEFINE ts == <<t1, t2, t3, t4, t5, t6, t7, t8, t9, t10, t11, t12>>
           h == <<p1, p2, p3, p4, p5, p6, p7, p8, p9, p10, p11, p12, p13>>
<1> SUFFICES Runs(ts, p1, p13)
  OBVIOUS
<1>1. Len(ts) = 12 /\ Len(ts) + 1 = 13
  OBVIOUS
<1>2. h \in [1 .. 13 -> Point] /\ h[1] = p1 /\ h[13] = p13
  OBVIOUS
<1>3. ASSUME NEW i \in 1 .. 12
      PROVE  Effect(ts[i], h[i], h[i + 1])
  <2>1. i = 1 \/ i = 2 \/ i = 3 \/ i = 4 \/ i = 5 \/ i = 6 \/ i = 7 \/ i = 8 \/ i = 9 \/ i = 10 \/ i = 11 \/ i = 12
    OBVIOUS
  <2> QED
    BY <2>1
<1> HIDE DEF ts, h
<1> QED
  BY <1>1, <1>2, <1>3 DEF Runs

LEMMA LeadsHead ==
  ASSUME NEW s, IsSequence(s), s # <<>>, NEW p, Leads(s, p)
  PROVE  \E q \in Point : Effect(Head(s), p, q) /\ Leads(Tail(s), q)
BY RunsHead DEF Leads

LEMMA LeadsConcat ==
  ASSUME NEW s, IsSequence(s), NEW t, IsSequence(t), NEW p, NEW q, Runs(s, p, q), Leads(t, q)
  PROVE  Leads(s \o t, p)
BY RunsConcat DEF Leads

LEMMA LeadsNothing ==
  ASSUME NEW p, Leads(<<>>, p)
  PROVE  IsEnd(p)
<1>1. Len(<<>>) = 0 /\ 0 + 1 = 1
  BY SequenceEmpty
<1> QED
  BY <1>1 DEF Leads, Runs

-----------------------------------------------------------------------------
(* What is over the values of a point p.                                      *)

Over(p, q, x) == Stack(p, q, <<>>, x)

\* A point with x over the values of p.
On(p, x, flag, pend) ==
  [p EXCEPT !.height = @ + Len(x),
            !.kinds = [i \in Nat |-> IF i \in p.height + 1 .. p.height + Len(x)
                                     THEN x[i - p.height] ELSE p.kinds[i]],
            !.flag = flag,
            !.pend = pend]

LEMMA OverIs ==
  ASSUME NEW p \in Point, NEW q \in Point, NEW x \in Seq(Kind)
  PROVE  Over(p, q, x) <=>
           /\ q.height = p.height + Len(x)
           /\ \A i \in 1 .. Len(x) : q.kinds[p.height + i] = x[i]
           /\ \A i \in 1 .. p.height : q.kinds[i] = p.kinds[i]
<1>1. p.height \in Nat /\ Len(x) \in Nat /\ Len(<<>>) = 0
  BY LenProperties, SequenceEmpty DEF Point
<1>2. p.height - 0 = p.height /\ p.height - 0 + Len(x) = p.height + Len(x) /\ 0 <= p.height
  BY <1>1
<1>3. \A i \in 1 .. 0 : p.kinds[p.height + i] = <<>>[i]
  OBVIOUS
<1> QED
  BY <1>1, <1>2, <1>3 DEF Over, Stack

LEMMA OverNothing ==
  ASSUME NEW p \in Point
  PROVE  Over(p, p, <<>>)
<1>1. p.height \in Nat /\ Len(<<>>) = 0 /\ <<>> \in Seq(Kind)
  BY SequenceEmpty DEF Point
<1>2. p.height = p.height + Len(<<>>) /\ \A i \in 1 .. Len(<<>>) : FALSE
  BY <1>1
<1> QED
  BY <1>1, <1>2, OverIs

LEMMA OnIsPoint ==
  ASSUME NEW p \in Point, NEW x \in Seq(Kind), NEW flag \in Flag, NEW pend \in SUBSET Int
  PROVE  /\ On(p, x, flag, pend) \in Point
         /\ On(p, x, flag, pend).flag = flag
         /\ On(p, x, flag, pend).pend = pend
         /\ On(p, x, flag, pend).depth = p.depth
         /\ On(p, x, flag, pend).at = p.at
         /\ Over(p, On(p, x, flag, pend), x)
<1> DEFINE k == [i \in Nat |-> IF i \in p.height + 1 .. p.height + Len(x)
                               THEN x[i - p.height] ELSE p.kinds[i]]
           o == On(p, x, flag, pend)
<1>1. p.height \in Nat /\ p.kinds \in [Nat -> Kind]
  BY DEF Point
<1>2. Len(x) \in Nat /\ \A i \in 1 .. Len(x) : x[i] \in Kind
  BY LenProperties, ElementOfSeq
<1>3. k \in [Nat -> Kind]
  <2>1. ASSUME NEW i \in Nat, i \in p.height + 1 .. p.height + Len(x)
        PROVE  x[i - p.height] \in Kind
    <3>1. i - p.height \in 1 .. Len(x)
      BY <1>1, <1>2, <2>1
    <3> QED
      BY <1>2, <3>1
  <2> QED
    BY <1>1, <2>1
<1> HIDE DEF k
<1>4. o = [kinds |-> k, height |-> p.height + Len(x), flag |-> flag, at |-> p.at,
           depth |-> p.depth, pend |-> pend]
  <2>1. p = [kinds |-> p.kinds, height |-> p.height, flag |-> p.flag, at |-> p.at,
             depth |-> p.depth, pend |-> p.pend]
    BY DEF Point
  <2>2. o = [p EXCEPT !.height = p.height + Len(x), !.kinds = k, !.flag = flag, !.pend = pend]
    BY <2>1 DEF On, k
  <2> HIDE DEF o
  <2> QED
    BY <2>1, <2>2
<1>5. o \in Point
  BY <1>1, <1>2, <1>3, <1>4 DEF Point
<1>6. Over(p, o, x)
  <2>2. ASSUME NEW i \in 1 .. Len(x)
        PROVE  k[p.height + i] = x[i]
    <3>1. p.height + i \in p.height + 1 .. p.height + Len(x) /\ p.height + i - p.height = i
      BY <1>1, <1>2
    <3> QED
      BY <1>1, <1>2, <3>1 DEF k
  <2>3. ASSUME NEW i \in 1 .. p.height
        PROVE  k[i] = p.kinds[i]
    BY <1>1, <1>2 DEF k
  <2> QED
    BY <1>4, <1>5, <2>2, <2>3, OverIs
<1> QED
  BY <1>4, <1>5, <1>6

\* From x over p to y over p, a task takes `in` and leaves `out` over z.
LEMMA StackFrame ==
  ASSUME NEW p \in Point, NEW a \in Point, NEW b \in Point,
         NEW z \in Seq(Kind), NEW in \in Seq(Kind), NEW out \in Seq(Kind),
         Over(p, a, z \o in), Over(p, b, z \o out)
  PROVE  Stack(a, b, in, out)
<1> DEFINE x == z \o in
           y == z \o out
<1>1. p.height \in Nat /\ a.height \in Nat /\ b.height \in Nat
  BY DEF Point
<1>2. Len(z) \in Nat /\ Len(in) \in Nat /\ Len(out) \in Nat
  BY LenProperties
<1>3. /\ Len(x) = Len(z) + Len(in)
      /\ \A i \in 1 .. Len(z) : x[i] = z[i]
      /\ \A i \in 1 .. Len(in) : x[Len(z) + i] = in[i]
  BY SequenceIntro, SequenceConcat
<1>4. /\ Len(y) = Len(z) + Len(out)
      /\ \A i \in 1 .. Len(z) : y[i] = z[i]
      /\ \A i \in 1 .. Len(out) : y[Len(z) + i] = out[i]
  BY SequenceIntro, SequenceConcat
<1> HIDE DEF x, y
<1>5. /\ a.height = p.height + Len(z) + Len(in)
      /\ \A i \in 1 .. Len(x) : a.kinds[p.height + i] = x[i]
      /\ \A i \in 1 .. p.height : a.kinds[i] = p.kinds[i]
  <2>1. x \in Seq(Kind) /\ Over(p, a, x)
    BY ConcatProperties DEF x
  <2>2. /\ a.height = p.height + Len(x)
        /\ \A i \in 1 .. Len(x) : a.kinds[p.height + i] = x[i]
        /\ \A i \in 1 .. p.height : a.kinds[i] = p.kinds[i]
    BY <2>1, OverIs
  <2>3. p.height + Len(x) = p.height + Len(z) + Len(in)
    BY <1>1, <1>2, <1>3
  <2> QED
    BY <2>2, <2>3
<1>6. /\ b.height = p.height + Len(z) + Len(out)
      /\ \A i \in 1 .. Len(y) : b.kinds[p.height + i] = y[i]
      /\ \A i \in 1 .. p.height : b.kinds[i] = p.kinds[i]
  <2>1. y \in Seq(Kind) /\ Over(p, b, y)
    BY ConcatProperties DEF y
  <2>2. /\ b.height = p.height + Len(y)
        /\ \A i \in 1 .. Len(y) : b.kinds[p.height + i] = y[i]
        /\ \A i \in 1 .. p.height : b.kinds[i] = p.kinds[i]
    BY <2>1, OverIs
  <2>3. p.height + Len(y) = p.height + Len(z) + Len(out)
    BY <1>1, <1>2, <1>4
  <2> QED
    BY <2>2, <2>3
<1>7. a.height - Len(in) = p.height + Len(z)
  BY <1>1, <1>2, <1>5
<1>8. ASSUME NEW i \in 1 .. Len(in)
      PROVE  a.kinds[p.height + Len(z) + i] = in[i]
  <2>1. Len(z) + i \in 1 .. Len(x) /\ p.height + (Len(z) + i) = p.height + Len(z) + i
    BY <1>1, <1>2, <1>3
  <2> QED
    BY <1>3, <1>5, <2>1
<1>9. ASSUME NEW i \in 1 .. Len(out)
      PROVE  b.kinds[p.height + Len(z) + i] = out[i]
  <2>1. Len(z) + i \in 1 .. Len(y) /\ p.height + (Len(z) + i) = p.height + Len(z) + i
    BY <1>1, <1>2, <1>4
  <2> QED
    BY <1>4, <1>6, <2>1
<1>10. ASSUME NEW i \in 1 .. p.height + Len(z)
       PROVE  b.kinds[i] = a.kinds[i]
  <2>1. CASE i <= p.height
    <3>1. i \in 1 .. p.height
      BY <1>1, <1>2, <2>1
    <3> QED
      BY <1>5, <1>6, <3>1
  <2>2. CASE i > p.height
    <3>1. /\ i - p.height \in 1 .. Len(z) /\ p.height + (i - p.height) = i
          /\ i - p.height \in 1 .. Len(x) /\ i - p.height \in 1 .. Len(y)
      BY <1>1, <1>2, <1>3, <1>4, <2>2
    <3> QED
      BY <1>3, <1>4, <1>5, <1>6, <3>1
  <2>3. i <= p.height \/ i > p.height
    BY <1>1, <1>2
  <2> QED
    BY <2>1, <2>2, <2>3
<1>11. Len(in) <= a.height /\ b.height = a.height - Len(in) + Len(out)
  BY <1>1, <1>2, <1>5, <1>6
<1> QED
  BY <1>7, <1>8, <1>9, <1>10, <1>11 DEF Stack

\* The expressions es put an operand each.
LEMMA RunsExprs ==
  ASSUME NEW es \in Seq(HirExpr), es # <<>>, NEW p \in Point, NEW q \in Point,
         Over(p, q, Operands(Len(es))), Stays(p, q), q.pend = p.pend, q.depth = p.depth
  PROVE  IsSequence(Exprs(es)) /\ Runs(Exprs(es), p, q)
<1> DEFINE n == Len(es)
           at(i) == On(p, Operands(i), "open", p.pend)
<1>1. n \in Nat \ {0} /\ DOMAIN es = 1 .. n
  BY LenProperties, EmptySeq
<1>2. /\ IsSequence(Exprs(es)) /\ Len(Exprs(es)) = n
      /\ \A i \in 1 .. n : Exprs(es)[i] = Expr(es[i])
  <2>1. Exprs(es) = [i \in 1 .. n |-> Expr(es[i])]
    BY <1>1 DEF Exprs
  <2>2. \A i \in 1 .. n : Exprs(es)[i] = Expr(es[i])
    BY <2>1
  <2>3. Exprs(es) = [i \in 1 .. n |-> Exprs(es)[i]]
    BY <2>1, <2>2
  <2> HIDE DEF n
  <2> QED
    BY <1>1, <2>2, <2>3, SequenceByIndex
<1> HIDE DEF n
<1>3. ASSUME NEW i \in Nat
      PROVE  Operands(i) \in Seq(Kind) /\ Operands(i + 1) = Operands(i) \o <<"operand">>
  <2>1. ASSUME NEW j \in Nat
        PROVE  Operands(j) \in Seq(Kind) /\ Len(Operands(j)) = j /\ IsSequence(Operands(j))
    <3>1. Operands(j) \in [1 .. j -> Kind]
      BY DEF Operands, Kind
    <3>2. Operands(j) \in Seq(Kind)
      BY <3>1, SeqDef
    <3> QED
      BY <3>1, <3>2, LenProperties, SequenceIntro
  <2>2. IsSequence(Operands(i + 1)) /\ Len(Operands(i + 1)) = i + 1
    BY <2>1
  <2>3. /\ IsSequence(Operands(i) \o <<"operand">>)
        /\ Len(Operands(i) \o <<"operand">>) = i + 1
        /\ \A j \in 1 .. i : (Operands(i) \o <<"operand">>)[j] = "operand"
        /\ (Operands(i) \o <<"operand">>)[i + 1] = "operand"
    <3>1. \A j \in 1 .. i : Operands(i)[j] = "operand"
      BY DEF Operands
    <3>2. IsSequence(<<"operand">>) /\ Len(<<"operand">>) = 1 /\ <<"operand">>[1] = "operand"
      BY SequenceOne
    <3>3. /\ IsSequence(Operands(i) \o <<"operand">>)
          /\ Len(Operands(i) \o <<"operand">>) = Len(Operands(i)) + Len(<<"operand">>)
          /\ \A j \in 1 .. Len(Operands(i)) : (Operands(i) \o <<"operand">>)[j] = Operands(i)[j]
          /\ \A j \in 1 .. Len(<<"operand">>) :
               (Operands(i) \o <<"operand">>)[Len(Operands(i)) + j] = <<"operand">>[j]
      BY <2>1, <3>2, SequenceConcat
    <3> QED
      BY <2>1, <3>1, <3>2, <3>3
  <2>4. \A j \in 1 .. i + 1 : Operands(i + 1)[j] = (Operands(i) \o <<"operand">>)[j]
    <3>1. \A j \in 1 .. i + 1 : Operands(i + 1)[j] = "operand"
      BY DEF Operands
    <3>2. \A j \in 1 .. i + 1 : j \in 1 .. i \/ j = i + 1
      OBVIOUS
    <3> QED
      BY <2>3, <3>1, <3>2
  <2> QED
    BY <2>1, <2>2, <2>3, <2>4, SequencesEqual
<1>4. ASSUME NEW i \in Nat
      PROVE  /\ at(i) \in Point /\ at(i).flag = "open" /\ at(i).pend = p.pend
             /\ at(i).depth = p.depth /\ Over(p, at(i), Operands(i))
  <2>1. p.pend \in SUBSET Int /\ "open" \in Flag
    BY DEF Point, Flag
  <2> QED
    BY <1>3, <2>1, OnIsPoint, ZenonT(40)
<1>5. ASSUME NEW e, NEW i \in Nat, NEW b \in Point, Over(p, b, Operands(i + 1)),
             b.flag \in {"open", "any"}, b.pend = p.pend, b.depth = p.depth,
             NEW a \in Point, Over(p, a, Operands(i)), a.flag = "open", a.pend = p.pend,
             a.depth = p.depth
      PROVE  Effect(Expr(e), a, b)
  <2>1. Operands(i) \o <<>> = Operands(i)
    BY <1>3, ConcatEmptySeq
  <2>2. <<>> \in Seq(Kind) /\ <<"operand">> \in Seq(Kind)
    BY DEF Kind
  <2>3. Stack(a, b, <<>>, <<"operand">>)
    BY <1>3, <1>5, <2>1, <2>2, StackFrame
  <2>4. Takes(Expr(e)) = <<>> /\ Leaves(Expr(e)) = <<"operand">> /\ Loops(Expr(e)) = 0
    BY DEF Takes, Leaves, Loops, Expr
  <2>5. Flow(Expr(e), a, b)
    BY <1>5 DEF Flow, Expr, Stays
  <2>6. b.depth = a.depth + 0
    BY <1>5 DEF Point
  <2> QED
    BY <2>3, <2>4, <2>5, <2>6 DEF Effect
<1>6. Over(p, p, Operands(0))
  <2>1. Operands(0) = <<>> /\ <<>> \in Seq(Kind)
    BY DEF Operands
  <2> QED
    BY <2>1, OverNothing
<1>7. PICK g \in [1 .. n + 1 -> Point] :
        /\ g[1] = p /\ g[n + 1] = q
        /\ \A i \in 1 .. n :
             /\ Over(p, g[i], Operands(i - 1)) /\ g[i].flag = "open" /\ g[i].pend = p.pend
             /\ g[i].depth = p.depth
  <2> DEFINE g == [i \in 1 .. n + 1 |-> IF i = 1 THEN p ELSE IF i = n + 1 THEN q ELSE at(i - 1)]
  <2>1. \A i \in 1 .. n + 1 : i - 1 \in Nat
    BY <1>1
  <2>2. g \in [1 .. n + 1 -> Point]
    BY <1>4, <2>1
  <2>3. g[1] = p /\ g[n + 1] = q
    BY <1>1
  <2>4. ASSUME NEW i \in 1 .. n
        PROVE  /\ Over(p, g[i], Operands(i - 1)) /\ g[i].flag = "open" /\ g[i].pend = p.pend
               /\ g[i].depth = p.depth
    <3>1. CASE i = 1
      BY <1>1, <1>6, <3>1 DEF Stays
    <3>2. CASE i # 1
      <4>1. g[i] = at(i - 1) /\ i - 1 \in Nat
        BY <1>1, <3>2
      <4> QED
        BY <1>4, <4>1
    <3> QED
      BY <3>1, <3>2
  <2> QED
    BY <2>2, <2>3, <2>4
<1>8. ASSUME NEW i \in 1 .. n
      PROVE  Effect(Exprs(es)[i], g[i], g[i + 1])
  <2>1. i \in 1 .. n + 1 /\ i + 1 \in 1 .. n + 1 /\ i - 1 \in Nat /\ i - 1 + 1 = i
    BY <1>1
  <2>2. /\ Over(p, g[i + 1], Operands(i - 1 + 1)) /\ g[i + 1].flag \in {"open", "any"}
        /\ g[i + 1].pend = p.pend /\ g[i + 1].depth = p.depth
    <3>1. CASE i = n
      BY <1>1, <1>7, <3>1 DEF Stays
    <3>2. CASE i # n
      <4>1. i + 1 \in 1 .. n /\ i + 1 - 1 = i - 1 + 1
        BY <1>1, <3>2
      <4> QED
        BY <1>7, <4>1
    <3> QED
      BY <3>1, <3>2
  <2>3. g[i] \in Point /\ g[i + 1] \in Point
    BY <1>7, <2>1
  <2> QED
    BY <1>2, <1>5, <1>7, <2>1, <2>2, <2>3
<1> QED
  BY <1>2, <1>7, <1>8 DEF Runs

-----------------------------------------------------------------------------
(* The methods of the builder.                                                *)

\* n has all the blocks and locals that m has.
Grows(m, n) ==
  /\ Len(m.blocks) <= Len(n.blocks)
  /\ Len(m.locals) <= Len(n.locals)
  /\ DOMAIN m.sym_to_local \subseteq DOMAIN n.sym_to_local

\* ... and the blocks m has closed are the same.
Keeps(m, n) ==
  /\ Grows(m, n)
  /\ \A b \in Blocks(m) : Writable(m, b) \/ n.blocks[b + 1] = m.blocks[b + 1]

\* n is where m is.
SameFlow(m, n) ==
  /\ n.current = m.current
  /\ n.loop_stack = m.loop_stack
  /\ Len(n.blocks) = Len(m.blocks)
  /\ \A b \in Blocks(m) : Term(n, b) = Term(m, b)

LEMMA BuilderIs ==
  ASSUME NEW m, BuilderOK(m)
  PROVE  /\ Len(m.blocks) \in Nat \ {0} /\ DOMAIN m.blocks = 1 .. Len(m.blocks)
         /\ Len(m.locals) \in Nat \ {0} /\ DOMAIN m.locals = 1 .. Len(m.locals)
         /\ m.current \in Nat /\ m.current + 1 \in 1 .. Len(m.blocks)
         /\ \A b : b \in Blocks(m) <=> b \in Int /\ b + 1 \in 1 .. Len(m.blocks)
         /\ Blocks(m) \subseteq Int
         /\ \A l : l \in Locals(m) <=> l \in Int /\ l + 1 \in 1 .. Len(m.locals)
<1>1. /\ Len(m.blocks) \in Nat /\ DOMAIN m.blocks = 1 .. Len(m.blocks)
      /\ Len(m.locals) \in Nat \ {0} /\ DOMAIN m.locals = 1 .. Len(m.locals)
  <2>1. IsSequence(m.blocks) /\ IsSequence(m.locals) /\ m.locals # <<>>
    BY DEF BuilderOK
  <2> QED
    BY <2>1, SequenceElim
<1>2. m.current \in 0 .. Len(m.blocks) - 1
  BY DEF BuilderOK, Blocks
<1>3. Len(m.blocks) \in Nat \ {0} /\ m.current \in Nat /\ m.current + 1 \in 1 .. Len(m.blocks)
  BY <1>1, <1>2
<1>4. \A b : b \in Blocks(m) <=> b \in Int /\ b + 1 \in 1 .. Len(m.blocks)
  BY <1>1 DEF Blocks
<1>5. \A l : l \in Locals(m) <=> l \in Int /\ l + 1 \in 1 .. Len(m.locals)
  BY <1>1 DEF Locals
<1> QED
  BY <1>1, <1>3, <1>4, <1>5

LEMMA InRangeStays ==
  ASSUME NEW m, NEW n, BuilderOK(m), Grows(m, n), Len(n.blocks) \in Nat, Len(n.locals) \in Nat
  PROVE  /\ Blocks(m) \subseteq Blocks(n) /\ Locals(m) \subseteq Locals(n)
         /\ \A pl : PlaceIn(m, pl) => PlaceIn(n, pl)
         /\ \A o : OperandIn(m, o) => OperandIn(n, o)
         /\ \A x : ValueIn(m, x) => ValueIn(n, x)
         /\ \A b : BlockIn(m, b) => BlockIn(n, b)
         /\ \A t : TaskOK(m, t) => TaskOK(n, t)
<1>1. Blocks(m) \subseteq Blocks(n) /\ Locals(m) \subseteq Locals(n)
  <2>1. Len(m.blocks) \in Nat /\ Len(m.locals) \in Nat
    BY BuilderIs
  <2> QED
    BY <2>1 DEF Grows, Blocks, Locals
<1>2. ASSUME NEW pl, PlaceIn(m, pl)
      PROVE  PlaceIn(n, pl)
  BY <1>1, <1>2 DEF PlaceIn, IsPlaceOf
<1>3. ASSUME NEW o, OperandIn(m, o)
      PROVE  OperandIn(n, o)
  BY <1>2, <1>3 DEF OperandIn
<1>4. ASSUME NEW x, ValueIn(m, x)
      PROVE  ValueIn(n, x)
  BY <1>2, <1>3, <1>4 DEF ValueIn
<1>5. ASSUME NEW b, BlockIn(m, b)
      PROVE  BlockIn(n, b)
  <2>1. ASSUME NEW s, StatementIn(m, s)
        PROVE  StatementIn(n, s)
    BY <1>2, <1>3, <2>1 DEF StatementIn
  <2>2. ASSUME NEW t, TermIn(m, t)
        PROVE  TermIn(n, t)
    <3>1. CASE t \in {Unreachable, Return}
      BY <3>1 DEF TermIn
    <3>2. CASE \E c \in Blocks(m) : t = Goto(c)
      BY <1>1, <3>2 DEF TermIn
    <3>3. CASE \E c : \E b1, b2 \in Blocks(m) : OperandIn(m, c) /\ t = SwitchInt(c, b1, b2)
      BY <1>1, <1>3, <3>3 DEF TermIn
    <3> QED
      BY <2>2, <3>1, <3>2, <3>3 DEF TermIn
  <2> QED
    BY <1>5, <2>1, <2>2 DEF BlockIn
<1>6. ASSUME NEW t, TaskOK(m, t)
      PROVE  TaskOK(n, t)
  <2>1. \A e : PlaceExpr(m, e) => PlaceExpr(n, e)
    BY DEF PlaceExpr, Grows
  <2>2. CASE t.do = "place"
    BY <1>6, <2>1, <2>2 DEF TaskOK
  <2>3. CASE t.do \in {"enter", "jump", "close", "branch", "push_loop"}
    BY <1>1, <1>6, <2>3 DEF TaskOK
  <2>4. CASE t.do \in {"put", "store"}
    BY <1>1, <1>4, <1>6, <2>4 DEF TaskOK
  <2>5. CASE t.do \notin {"place", "enter", "jump", "close", "branch", "push_loop", "put", "store"}
    BY <1>6, <2>5 DEF TaskOK
  <2> QED
    BY <2>2, <2>3, <2>4, <2>5
<1> QED
  BY <1>1, <1>2, <1>3, <1>4, <1>5, <1>6

LEMMA KeepsTransitive ==
  ASSUME NEW m, NEW n, NEW o, BuilderOK(m), BuilderOK(n), BuilderOK(o), Keeps(m, n), Keeps(n, o)
  PROVE  Keeps(m, o)
<1>1. Grows(m, o)
  <2>1. /\ Len(m.blocks) \in Nat /\ Len(n.blocks) \in Nat /\ Len(o.blocks) \in Nat
        /\ Len(m.locals) \in Nat /\ Len(n.locals) \in Nat /\ Len(o.locals) \in Nat
    BY BuilderIs
  <2> QED
    BY <2>1 DEF Keeps, Grows
<1>2. ASSUME NEW b \in Blocks(m), ~ Writable(m, b)
      PROVE  o.blocks[b + 1] = m.blocks[b + 1]
  <2>1. n.blocks[b + 1] = m.blocks[b + 1]
    BY <1>2 DEF Keeps
  <2>2. ~ Writable(n, b)
    BY <1>2, <2>1 DEF Writable, Term
  <2>3. b \in Blocks(n)
    <3>1. Len(m.blocks) \in Nat /\ Len(n.blocks) \in Nat /\ Len(m.blocks) <= Len(n.blocks)
      BY BuilderIs DEF Keeps, Grows
    <3> QED
      BY <3>1 DEF Blocks
  <2> QED
    BY <2>1, <2>2, <2>3 DEF Keeps
<1> QED
  BY <1>1, <1>2 DEF Keeps

LEMMA NewBlocksOK ==
  ASSUME NEW m, BuilderOK(m), NEW k \in Nat, NEW n, n = NewBlocks(m, k)
  PROVE  /\ BuilderOK(n) /\ Keeps(m, n)
         /\ n.current = m.current /\ n.loop_stack = m.loop_stack /\ n.locals = m.locals
         /\ n.sym_to_local = m.sym_to_local
         /\ \A b \in Blocks(m) : b \in Blocks(n) /\ Term(n, b) = Term(m, b)
         /\ \A i \in 1 .. k :
              /\ Fresh(m, i) \in Blocks(n) /\ Fresh(m, i) \notin Blocks(m)
              /\ Term(n, Fresh(m, i)) = Unreachable
         /\ \A b \in Blocks(n) : b \in Blocks(m) \/ \E i \in 1 .. k : b = Fresh(m, i)
<1> DEFINE new == [i \in 1 .. k |-> NewBlock]
           bs == m.blocks \o new
           len == Len(m.blocks)
<1>1. n = [locals |-> m.locals, blocks |-> bs, current |-> m.current,
           sym_to_local |-> m.sym_to_local, loop_stack |-> m.loop_stack]
  <2>1. m = [locals |-> m.locals, blocks |-> m.blocks, current |-> m.current,
             sym_to_local |-> m.sym_to_local, loop_stack |-> m.loop_stack]
    BY DEF BuilderOK
  <2>2. n = [m EXCEPT !.blocks = bs]
    BY DEF NewBlocks
  <2> HIDE DEF bs
  <2> QED
    BY <2>1, <2>2
<1>2. IsSequence(new) /\ Len(new) = k /\ \A i \in 1 .. k : new[i] = NewBlock
  <2>1. \A i \in 1 .. k : new[i] = NewBlock
    OBVIOUS
  <2>2. new = [i \in 1 .. k |-> new[i]]
    OBVIOUS
  <2> QED
    BY <2>1, <2>2, SequenceByIndex
<1>3. IsSequence(m.blocks) /\ len \in Nat \ {0}
  BY BuilderIs DEF BuilderOK
<1>4. /\ IsSequence(bs) /\ Len(bs) = len + k
      /\ \A i \in 1 .. len : bs[i] = m.blocks[i]
      /\ \A i \in 1 .. k : bs[len + i] = NewBlock
  <2>1. /\ IsSequence(m.blocks \o new) /\ Len(m.blocks \o new) = Len(m.blocks) + Len(new)
        /\ \A i \in 1 .. Len(m.blocks) : (m.blocks \o new)[i] = m.blocks[i]
        /\ \A i \in 1 .. Len(new) : (m.blocks \o new)[Len(m.blocks) + i] = new[i]
    BY <1>2, <1>3, SequenceConcat
  <2> HIDE DEF new
  <2> QED
    BY <1>2, <2>1
<1> HIDE DEF new, bs, len
<1>5. Grows(m, n)
  BY <1>1, <1>3, <1>4 DEF Grows, len
<1>6. /\ Blocks(m) = 0 .. len - 1 /\ Blocks(n) = 0 .. len + k - 1
      /\ \A i \in 1 .. k : Fresh(m, i) = len + i - 1
  BY <1>1, <1>4 DEF Blocks, Fresh, len
<1>7. \A b \in Blocks(m) : b \in Blocks(n) /\ n.blocks[b + 1] = m.blocks[b + 1]
  <2>1. \A b \in Blocks(m) : b \in Blocks(n) /\ b + 1 \in 1 .. len
    BY <1>3, <1>6
  <2> QED
    BY <1>1, <1>4, <2>1
<1>8. \A i \in 1 .. k :
        /\ Fresh(m, i) \in Blocks(n) /\ Fresh(m, i) \notin Blocks(m)
        /\ n.blocks[Fresh(m, i) + 1] = NewBlock
  <2>1. \A i \in 1 .. k : len + i - 1 \in 0 .. len + k - 1 /\ len + i - 1 \notin 0 .. len - 1
                          /\ len + i - 1 + 1 = len + i
    BY <1>3
  <2> QED
    BY <1>1, <1>4, <1>6, <2>1
<1>9. \A b \in Blocks(n) : b \in Blocks(m) \/ \E i \in 1 .. k : b = Fresh(m, i)
  <2>1. ASSUME NEW b \in 0 .. len + k - 1, b \notin 0 .. len - 1
        PROVE  \E i \in 1 .. k : b = Fresh(m, i)
    <3>1. b - len + 1 \in 1 .. k /\ b = len + (b - len + 1) - 1
      BY <1>3, <2>1
    <3>2. Fresh(m, b - len + 1) = len + (b - len + 1) - 1
      BY <1>6, <3>1
    <3> QED
      BY <3>1, <3>2
  <2>2. Blocks(m) = 0 .. len - 1 /\ Blocks(n) = 0 .. len + k - 1
    BY <1>6
  <2> QED
    BY <2>1, <2>2
<1>10. BuilderOK(n)
  <2>1. ASSUME NEW i \in 1 .. len + k
        PROVE  BlockIn(n, bs[i])
    <3>1. CASE i \in 1 .. len
      <4>1. BlockIn(m, m.blocks[i])
        BY <3>1 DEF BuilderOK, len
      <4>2. Len(n.blocks) \in Nat /\ Len(n.locals) \in Nat
        BY <1>1, <1>3, <1>4, BuilderIs
      <4> QED
        BY <1>4, <1>5, <3>1, <4>1, <4>2, InRangeStays
    <3>2. CASE i \notin 1 .. len
      <4>1. i - len \in 1 .. k /\ len + (i - len) = i
        BY <1>3, <3>2
      <4>2. bs[i] = NewBlock
        BY <1>4, <4>1
      <4> QED
        BY <4>2, SequenceEmpty DEF BlockIn, NewBlock, TermIn
    <3> QED
      BY <3>1, <3>2
  <2>2. /\ IsSequence(m.locals) /\ m.locals # <<>> /\ m.current \in Blocks(m)
        /\ Range(m.sym_to_local) \subseteq Locals(m)
        /\ m.loop_stack \in Seq(Blocks(m) \X Blocks(m))
    BY DEF BuilderOK
  <2>3. n.loop_stack \in Seq(Blocks(n) \X Blocks(n))
    <3>1. Blocks(m) \X Blocks(m) \subseteq Blocks(n) \X Blocks(n)
      BY <1>7
    <3> QED
      BY <1>1, <2>2, <3>1, SeqMonotonic
  <2>4. Locals(n) = Locals(m)
    BY <1>1 DEF Locals
  <2> QED
    BY <1>1, <1>4, <1>7, <2>1, <2>2, <2>3, <2>4 DEF BuilderOK
<1>11. Keeps(m, n)
  BY <1>5, <1>7 DEF Keeps
<1> QED
  BY <1>1, <1>7, <1>8, <1>9, <1>10, <1>11 DEF Term, NewBlock

LEMMA NewLocalOK ==
  ASSUME NEW m, BuilderOK(m), NEW kind, NEW own, NEW n, n = NewLocal(m, kind, own)
  PROVE  /\ BuilderOK(n) /\ Keeps(m, n) /\ SameFlow(m, n)
         /\ NextLocal(m) \in Locals(n) /\ NextLocal(n) = NextLocal(m) + 1
         /\ n.sym_to_local = m.sym_to_local
         /\ \A k \in Nat : Fresh(n, k) = Fresh(m, k)
<1> DEFINE x == [kind |-> kind, own |-> own]
           ls == Append(m.locals, x)
<1>1. n = [locals |-> ls, blocks |-> m.blocks, current |-> m.current,
           sym_to_local |-> m.sym_to_local, loop_stack |-> m.loop_stack]
  <2>1. m = [locals |-> m.locals, blocks |-> m.blocks, current |-> m.current,
             sym_to_local |-> m.sym_to_local, loop_stack |-> m.loop_stack]
    BY DEF BuilderOK
  <2>2. n = [m EXCEPT !.locals = ls]
    BY DEF NewLocal
  <2> HIDE DEF ls
  <2> QED
    BY <2>1, <2>2
<1>2. IsSequence(ls) /\ Len(ls) = Len(m.locals) + 1
  BY SequenceAppend DEF BuilderOK
<1> HIDE DEF ls
<1>3. Len(m.locals) \in Nat /\ Len(m.blocks) \in Nat
  BY BuilderIs
<1>4. Grows(m, n) /\ ls # <<>>
  BY <1>1, <1>2, <1>3, SequenceElim DEF Grows
<1>5. Len(n.blocks) \in Nat /\ Len(n.locals) \in Nat /\ Blocks(n) = Blocks(m)
  BY <1>1, <1>2, <1>3 DEF Blocks
<1>6. BuilderOK(n)
  <2>1. \A i \in 1 .. Len(m.blocks) : BlockIn(n, m.blocks[i])
    BY <1>4, <1>5, InRangeStays DEF BuilderOK
  <2>2. Range(m.sym_to_local) \subseteq Locals(n)
    BY <1>4, <1>5, InRangeStays DEF BuilderOK
  <2> QED
    BY <1>1, <1>2, <1>4, <1>5, <2>1, <2>2 DEF BuilderOK
<1>7. NextLocal(m) \in Locals(n) /\ NextLocal(n) = NextLocal(m) + 1
  BY <1>1, <1>2, <1>3 DEF NextLocal, Locals
<1>8. Keeps(m, n) /\ SameFlow(m, n)
  BY <1>1, <1>4 DEF Keeps, SameFlow, Term
<1> QED
  BY <1>1, <1>6, <1>7, <1>8 DEF Fresh

\* A change of one block of the builder.
LEMMA ChangeBlock ==
  ASSUME NEW m, BuilderOK(m), Writable(m, m.current), NEW b, BlockIn(m, b),
         NEW n, n = [m EXCEPT !.blocks = [@ EXCEPT ![m.current + 1] = b]]
  PROVE  /\ BuilderOK(n) /\ Keeps(m, n)
         /\ n.current = m.current /\ n.loop_stack = m.loop_stack /\ Len(n.blocks) = Len(m.blocks)
         /\ n.locals = m.locals /\ n.sym_to_local = m.sym_to_local
         /\ Term(n, m.current) = b.term
         /\ \A c \in Blocks(m) : c # m.current => Term(n, c) = Term(m, c)
<1> DEFINE bs == [m.blocks EXCEPT ![m.current + 1] = b]
<1>1. n = [locals |-> m.locals, blocks |-> bs, current |-> m.current,
           sym_to_local |-> m.sym_to_local, loop_stack |-> m.loop_stack]
  <2>1. m = [locals |-> m.locals, blocks |-> m.blocks, current |-> m.current,
             sym_to_local |-> m.sym_to_local, loop_stack |-> m.loop_stack]
    BY DEF BuilderOK
  <2>2. n = [m EXCEPT !.blocks = bs]
    OBVIOUS
  <2> HIDE DEF bs
  <2> QED
    BY <2>1, <2>2
<1>2. /\ Len(m.blocks) \in Nat /\ DOMAIN m.blocks = 1 .. Len(m.blocks)
      /\ m.current \in Nat /\ m.current + 1 \in 1 .. Len(m.blocks)
      /\ \A c \in Blocks(m) : c \in Int /\ c + 1 \in 1 .. Len(m.blocks)
  BY BuilderIs
<1>3. /\ bs[m.current + 1] = b
      /\ \A i \in 1 .. Len(m.blocks) : i # m.current + 1 => bs[i] = m.blocks[i]
  BY <1>2
<1>4. IsSequence(bs) /\ Len(bs) = Len(m.blocks)
  <2>1. bs = [i \in 1 .. Len(m.blocks) |-> bs[i]]
    BY <1>2
  <2> HIDE DEF bs
  <2> QED
    BY <1>2, <2>1, SequenceByIndex
<1> HIDE DEF bs
<1>5. Grows(m, n) /\ Len(n.blocks) \in Nat /\ Len(n.locals) \in Nat
  <2>1. Len(m.locals) \in Nat
    BY BuilderIs
  <2> QED
    BY <1>1, <1>2, <1>4, <2>1 DEF Grows
<1>6. BuilderOK(n)
  <2>1. ASSUME NEW i \in 1 .. Len(m.blocks)
        PROVE  BlockIn(n, bs[i])
    <3>1. BlockIn(m, bs[i])
      BY <1>3 DEF BuilderOK
    <3> QED
      BY <1>5, <3>1, InRangeStays
  <2>2. Blocks(n) = Blocks(m) /\ Locals(n) = Locals(m)
    BY <1>1, <1>4 DEF Blocks, Locals
  <2>3. n = [locals |-> n.locals, blocks |-> n.blocks, current |-> n.current,
             sym_to_local |-> n.sym_to_local, loop_stack |-> n.loop_stack]
    BY <1>1
  <2>4. /\ n.locals = m.locals /\ n.blocks = bs /\ n.current = m.current
        /\ n.sym_to_local = m.sym_to_local /\ n.loop_stack = m.loop_stack
    BY <1>1
  <2> QED
    BY <1>4, <2>1, <2>2, <2>3, <2>4 DEF BuilderOK
<1>7. \A c \in Blocks(m) : c # m.current => n.blocks[c + 1] = m.blocks[c + 1]
  <2>1. \A c \in Blocks(m) : c # m.current => c + 1 # m.current + 1
    BY <1>2
  <2> QED
    BY <1>1, <1>2, <1>3, <2>1
<1>8. Keeps(m, n)
  BY <1>5, <1>7 DEF Keeps
<1>9. Term(n, m.current) = b.term /\ \A c \in Blocks(m) : c # m.current => Term(n, c) = Term(m, c)
  <2>1. n.blocks[m.current + 1] = b
    <3>1. n.blocks = bs
      BY <1>1
    <3>2. bs[m.current + 1] = b
      BY <1>3
    <3> QED
      BY <3>1, <3>2
  <2>2. Term(n, m.current) = b.term
    BY <2>1 DEF Term
  <2>3. \A c \in Blocks(m) : c # m.current => Term(n, c) = Term(m, c)
    BY <1>7 DEF Term
  <2> QED
    BY <2>2, <2>3
<1>10. /\ n.locals = m.locals /\ Len(n.blocks) = Len(m.blocks) /\ n.current = m.current
       /\ n.sym_to_local = m.sym_to_local /\ n.loop_stack = m.loop_stack
  BY <1>1, <1>4
<1> QED
  BY <1>6, <1>8, <1>9, <1>10

LEMMA TerminateOK ==
  ASSUME NEW m, BuilderOK(m), Writable(m, m.current), NEW t, TermIn(m, t),
         NEW n, n = Terminate(m, t)
  PROVE  /\ BuilderOK(n) /\ Keeps(m, n)
         /\ n.current = m.current /\ n.loop_stack = m.loop_stack /\ Blocks(n) = Blocks(m)
         /\ n.locals = m.locals /\ n.sym_to_local = m.sym_to_local
         /\ Term(n, m.current) = t
         /\ \A c \in Blocks(m) : c # m.current => Term(n, c) = Term(m, c)
<1> DEFINE old == m.blocks[m.current + 1]
           b == [stmts |-> old.stmts, term |-> t]
<1>1. BlockIn(m, old)
  BY BuilderIs DEF BuilderOK
<1>2. BlockIn(m, b)
  BY <1>1 DEF BlockIn
<1>3. n = [m EXCEPT !.blocks = [@ EXCEPT ![m.current + 1] = b]]
  <2>1. b = [old EXCEPT !.term = t]
    <3>1. old = [stmts |-> old.stmts, term |-> old.term]
      BY <1>1 DEF BlockIn
    <3> HIDE DEF old
    <3> QED
      BY <3>1
  <2> QED
    BY <2>1 DEF Terminate, SetTerminator
<1> HIDE DEF old
<1>4. b.term = t
  OBVIOUS
<1> HIDE DEF b
<1> QED
  BY <1>2, <1>3, <1>4, ChangeBlock DEF Blocks

LEMMA PushStmtOK ==
  ASSUME NEW m, BuilderOK(m), Writable(m, m.current), NEW s, StatementIn(m, s),
         NEW n, n = PushStmt(m, s)
  PROVE  /\ BuilderOK(n) /\ Keeps(m, n) /\ SameFlow(m, n)
         /\ n.locals = m.locals /\ n.sym_to_local = m.sym_to_local
<1> DEFINE old == m.blocks[m.current + 1]
           b == [stmts |-> Append(old.stmts, s), term |-> old.term]
<1>1. BlockIn(m, old)
  BY BuilderIs DEF BuilderOK
<1>2. BlockIn(m, b)
  <2>1. IsSequence(old.stmts) /\ Len(old.stmts) \in Nat
    BY <1>1, SequenceElim DEF BlockIn
  <2> HIDE DEF old
  <2>2. /\ IsSequence(Append(old.stmts, s)) /\ Len(Append(old.stmts, s)) = Len(old.stmts) + 1
        /\ \A i \in 1 .. Len(old.stmts) : Append(old.stmts, s)[i] = old.stmts[i]
        /\ Append(old.stmts, s)[Len(old.stmts) + 1] = s
    BY <2>1, SequenceAppend, ZenonT(40)
  <2>3. \A i \in 1 .. Len(old.stmts) + 1 : i \in 1 .. Len(old.stmts) \/ i = Len(old.stmts) + 1
    BY <2>1
  <2>4. \A i \in 1 .. Len(old.stmts) + 1 : StatementIn(m, Append(old.stmts, s)[i])
    BY <1>1, <2>2, <2>3 DEF BlockIn
  <2>5. b = [stmts |-> b.stmts, term |-> b.term] /\ b.stmts = Append(old.stmts, s) /\ TermIn(m, b.term)
    BY <1>1 DEF BlockIn
  <2> HIDE DEF b
  <2> QED
    BY <2>2, <2>4, <2>5 DEF BlockIn
<1>3. n = [m EXCEPT !.blocks = [@ EXCEPT ![m.current + 1] = b]]
  <2>1. b = [old EXCEPT !.stmts = Append(old.stmts, s)]
    <3>1. old = [stmts |-> old.stmts, term |-> old.term]
      BY <1>1 DEF BlockIn
    <3> HIDE DEF old
    <3> QED
      BY <3>1
  <2> QED
    BY <2>1 DEF PushStmt
<1>4. b.term = Term(m, m.current)
  BY DEF Term
<1> HIDE DEF b, old
<1> QED
  BY <1>2, <1>3, <1>4, ChangeBlock DEF SameFlow

\* A statement that writes a new temp.
LEMMA NewTempOK ==
  ASSUME NEW m, BuilderOK(m), Writable(m, m.current), NEW own, NEW s,
         StatementIn(FreshTemp(m, own), s), NEW n, n = PushStmt(FreshTemp(m, own), s)
  PROVE  /\ BuilderOK(n) /\ Keeps(m, n) /\ SameFlow(m, n)
         /\ NextLocal(m) \in Locals(n)
<1> DEFINE l == FreshTemp(m, own)
<1>1. BuilderOK(l) /\ Keeps(m, l) /\ SameFlow(m, l) /\ NextLocal(m) \in Locals(l)
  BY NewLocalOK DEF FreshTemp
<1> HIDE DEF l
<1>2. m.current \in Blocks(m) /\ Blocks(l) = Blocks(m)
  BY <1>1 DEF BuilderOK, SameFlow, Blocks
<1>3. Writable(l, l.current)
  BY <1>1, <1>2 DEF SameFlow, Writable
<1>4. BuilderOK(n) /\ Keeps(l, n) /\ SameFlow(l, n) /\ n.locals = l.locals
  BY <1>1, <1>3, PushStmtOK DEF l
<1>5. SameFlow(m, n)
  BY <1>1, <1>2, <1>4 DEF SameFlow
<1>6. NextLocal(m) \in Locals(n)
  BY <1>1, <1>4 DEF Locals
<1> QED
  BY <1>1, <1>4, <1>5, <1>6, KeepsTransitive

\* A declaration.
LEMMA DeclareOK ==
  ASSUME NEW m, BuilderOK(m), Writable(m, m.current), NEW sym, NEW own,
         NEW n, n = PushStmt(DeclareVar(m, sym, own), StorageLive(NextLocal(m)))
  PROVE  /\ BuilderOK(n) /\ Keeps(m, n) /\ SameFlow(m, n)
         /\ NextLocal(m) \in Locals(n)
<1> DEFINE l == NewLocal(m, "Var", own)
           d == DeclareVar(m, sym, own)
           f == Insert(m.sym_to_local, sym, NextLocal(m))
<1>1. /\ BuilderOK(l) /\ Keeps(m, l) /\ SameFlow(m, l) /\ NextLocal(m) \in Locals(l)
      /\ l.sym_to_local = m.sym_to_local
  BY NewLocalOK
<1>2. d = [locals |-> l.locals, blocks |-> l.blocks, current |-> l.current,
           sym_to_local |-> f, loop_stack |-> l.loop_stack]
  <2>1. l = [locals |-> l.locals, blocks |-> l.blocks, current |-> l.current,
             sym_to_local |-> l.sym_to_local, loop_stack |-> l.loop_stack]
    BY <1>1 DEF BuilderOK
  <2>2. d = [l EXCEPT !.sym_to_local = f]
    <3>1. d = [l EXCEPT !.sym_to_local = Insert(l.sym_to_local, sym, NextLocal(m))]
      BY <2>1 DEF DeclareVar
    <3> QED
      BY <1>1, <3>1
  <2> HIDE DEF l, d, f
  <2> QED
    BY <2>1, <2>2
<1>3. DOMAIN m.sym_to_local \subseteq DOMAIN f /\ Range(f) \subseteq Range(m.sym_to_local) \cup {NextLocal(m)}
  BY DEF Range, Insert
<1> HIDE DEF l, d, f
<1>4. Grows(l, d) /\ Blocks(d) = Blocks(l) /\ Locals(d) = Locals(l)
  <2>1. Len(l.blocks) \in Nat /\ Len(l.locals) \in Nat
    BY <1>1, BuilderIs
  <2> QED
    BY <1>1, <1>2, <1>3, <2>1 DEF Grows, Blocks, Locals
<1>5. BuilderOK(d)
  <2>1. Len(d.blocks) \in Nat /\ Len(d.locals) \in Nat
    BY <1>1, <1>2, BuilderIs
  <2>2. \A i \in 1 .. Len(l.blocks) : BlockIn(d, l.blocks[i])
    BY <1>1, <1>4, <2>1, InRangeStays DEF BuilderOK
  <2>3. Range(f) \subseteq Locals(l)
    BY <1>1, <1>3 DEF BuilderOK
  <2>4. d = [locals |-> d.locals, blocks |-> d.blocks, current |-> d.current,
             sym_to_local |-> d.sym_to_local, loop_stack |-> d.loop_stack]
    BY <1>2
  <2>5. /\ d.locals = l.locals /\ d.blocks = l.blocks /\ d.current = l.current
        /\ d.sym_to_local = f /\ d.loop_stack = l.loop_stack
    BY <1>2
  <2> QED
    BY <1>1, <1>4, <2>2, <2>3, <2>4, <2>5 DEF BuilderOK
<1>6. SameFlow(m, d) /\ Keeps(l, d)
  BY <1>1, <1>2, <1>4 DEF SameFlow, Keeps, Term
<1>7. m.current \in Blocks(m) /\ d.current = m.current
  BY <1>6 DEF BuilderOK, SameFlow
<1>8. Writable(d, d.current)
  BY <1>6, <1>7 DEF SameFlow, Writable
<1>9. StatementIn(d, StorageLive(NextLocal(m)))
  <2> DEFINE pl == FromLocal(NextLocal(m))
  <2>1. PlaceIn(d, pl)
    <3>1. pl.local = NextLocal(m) /\ pl.proj = <<>> /\ pl = [local |-> pl.local, proj |-> pl.proj]
      BY DEF FromLocal
    <3>2. IsSequence(<<>>) /\ Range(<<>>) = {}
      BY SequenceEmpty DEF Range
    <3> QED
      BY <1>1, <1>4, <3>1, <3>2 DEF PlaceIn, IsPlaceOf
  <2>2. StorageLive(NextLocal(m)) = [op |-> "live", reads |-> <<>>, dest |-> <<>>, of |-> <<pl>>]
    BY DEF StorageLive
  <2> HIDE DEF pl
  <2>3. \A i \in 1 .. 0 : FALSE
    OBVIOUS
  <2> QED
    BY <2>1, <2>2, <2>3, SequenceEmpty, SequenceOne DEF StatementIn
<1>10. /\ BuilderOK(n) /\ Keeps(d, n) /\ SameFlow(d, n) /\ n.locals = d.locals
  BY <1>5, <1>8, <1>9, PushStmtOK DEF d
<1>11. Keeps(m, n)
  BY <1>1, <1>5, <1>6, <1>10, KeepsTransitive
<1>12. SameFlow(m, n)
  BY <1>6, <1>10 DEF SameFlow, Blocks
<1>13. NextLocal(m) \in Locals(n)
  BY <1>1, <1>4, <1>10 DEF Locals
<1> QED
  BY <1>10, <1>11, <1>12, <1>13

-----------------------------------------------------------------------------
(* The builder moves to another point.                                        *)

LEMMA PlacedSame ==
  ASSUME NEW m, NEW n, BuilderOK(m), SameFlow(m, n), NEW p \in Point, NEW q \in Point,
         Placed(m, p), q.pend = p.pend, q.depth = p.depth,
         Stays(p, q) \/ (p.flag = "join" /\ q.flag = "join" /\ q.at = p.at)
  PROVE  Placed(n, q)
<1>1. Blocks(n) = Blocks(m) /\ m.current \in Blocks(m) /\ n.current = m.current
  BY DEF BuilderOK, SameFlow, Blocks
<1>2. \A b \in Blocks(m) : Term(n, b) = Term(m, b) /\ (Writable(n, b) <=> Writable(m, b))
  BY DEF SameFlow, Writable
<1>3. n.loop_stack = m.loop_stack
  BY DEF SameFlow
<1>4. CASE Stays(p, q)
  BY <1>1, <1>2, <1>3, <1>4 DEF Placed, Stays
<1>5. CASE p.flag = "join" /\ q.flag = "join" /\ q.at = p.at
  BY <1>1, <1>2, <1>3, <1>5 DEF Placed
<1> QED
  BY <1>4, <1>5

\* New blocks are pending.
LEMMA PlacedFresh ==
  ASSUME NEW m, NEW n, BuilderOK(m), NEW k \in Nat,
         n.current = m.current, n.loop_stack = m.loop_stack,
         \A b \in Blocks(m) : b \in Blocks(n) /\ Term(n, b) = Term(m, b),
         \A i \in 1 .. k : /\ Fresh(m, i) \in Blocks(n) /\ Fresh(m, i) \notin Blocks(m)
                           /\ Term(n, Fresh(m, i)) = Unreachable,
         \A b \in Blocks(n) : b \in Blocks(m) \/ \E i \in 1 .. k : b = Fresh(m, i),
         NEW p \in Point, NEW q \in Point, Placed(m, p), p.flag = "open", q.flag = "open",
         q.depth = p.depth, q.pend = p.pend \cup {Fresh(m, i) : i \in 1 .. k}
  PROVE  Placed(n, q) /\ \A i \in 1 .. k : Fresh(m, i) \notin p.pend
<1>1. p.pend \subseteq Blocks(m) /\ m.current \in Blocks(m)
  BY DEF Placed, BuilderOK
<1>2. \A i \in 1 .. k : Fresh(m, i) \notin p.pend /\ Writable(n, Fresh(m, i))
  BY <1>1 DEF Writable
<1>3. \A b \in Blocks(m) : Writable(m, b) => Writable(n, b)
  BY DEF Writable
<1>4. /\ q.pend \subseteq Blocks(n)
      /\ \A b \in q.pend : Writable(n, b)
      /\ n.current \notin q.pend
  BY <1>1, <1>2, <1>3 DEF Placed
<1>5. \A b \in Blocks(n) : Term(n, b) = Unreachable => b \in {n.current} \cup q.pend
  BY DEF Placed
<1>6. Writable(n, n.current)
  BY <1>1, <1>3 DEF Placed
<1>7. Len(n.loop_stack) = q.depth
  BY DEF Placed
<1> QED
  BY <1>2, <1>4, <1>5, <1>6, <1>7 DEF Placed

\* The current block gets its terminator.
LEMMA PlacedClosed ==
  ASSUME NEW m, NEW n, BuilderOK(m), NEW t, t # Unreachable,
         n.current = m.current, n.loop_stack = m.loop_stack, Blocks(n) = Blocks(m),
         Term(n, m.current) = t,
         \A c \in Blocks(m) : c # m.current => Term(n, c) = Term(m, c),
         NEW p \in Point, NEW q \in Point, Placed(m, p), q.pend = p.pend, q.depth = p.depth,
         \/ p.flag \in {"open", "any"} /\ q.flag \in {"closed", "any"}
         \/ p.flag = "join" /\ q.flag = "closed" /\ t = Goto(p.at)
  PROVE  Placed(n, q)
<1>1. p.pend \subseteq Blocks(m) /\ m.current \in Blocks(m)
  BY DEF Placed, BuilderOK
<1>2. \A b \in p.pend : Writable(n, b)
  <2>1. \A b \in p.pend : b # m.current => Writable(n, b)
    BY <1>1 DEF Writable, Placed
  <2>2. ASSUME m.current \in p.pend
        PROVE  Writable(n, m.current)
    <3>1. p.flag = "join" /\ m.current = p.at
      BY <2>2 DEF Placed
    <3> QED
      BY <3>1 DEF Writable
  <2> QED
    BY <2>1, <2>2
<1>3. \A b \in Blocks(n) : Term(n, b) = Unreachable => b \in {n.current} \cup q.pend
  BY DEF Placed
<1>4. Len(n.loop_stack) = q.depth
  BY DEF Placed
<1>5. q.flag \in {"open", "any"} => n.current \notin q.pend
  BY DEF Placed
<1> QED
  BY <1>1, <1>2, <1>3, <1>4, <1>5 DEF Placed

-----------------------------------------------------------------------------
(* The values at hand.                                                        *)

LEMMA KindOfValue ==
  ASSUME NEW m, NEW x
  PROVE  /\ OperandIn(m, x) => KindOf(x) = "operand"
         /\ PlaceIn(m, x) => KindOf(x) = "place"
         /\ ValueIn(m, x) /\ KindOf(x) = "operand" => OperandIn(m, x)
         /\ ValueIn(m, x) /\ KindOf(x) = "place" => PlaceIn(m, x)
<1>1. OperandIn(m, x) => "mode" \in DOMAIN x
  BY DEF OperandIn, Const, Copy, Move
<1>2. PlaceIn(m, x) => "mode" \notin DOMAIN x
  <2>1. ASSUME PlaceIn(m, x)
        PROVE  "mode" \notin DOMAIN x
    <3>1. x = [local |-> x.local, proj |-> x.proj]
      BY <2>1 DEF PlaceIn
    <3>2. DOMAIN x = {"local", "proj"}
      BY <3>1
    <3> QED
      BY <3>2
  <2> QED
    BY <2>1
<1> QED
  BY <1>1, <1>2 DEF KindOf, ValueIn

\* r are values of the kinds out, the last one first.
Puts(n, r, out) ==
  /\ IsSequence(r) /\ Len(r) = Len(out)
  /\ \A i \in 1 .. Len(out) : ValueIn(n, r[i]) /\ KindOf(r[i]) = out[Len(out) + 1 - i]

\* A task takes the values `in` off the top and puts r there.
Replaces(m, n, o, p, q, in, out, r) ==
  /\ ValuesStay(m, n) /\ OpsOK(m, o)
  /\ p \in Point /\ q \in Point /\ in \in Seq(Kind) /\ out \in Seq(Kind)
  /\ Stacked(o, p) /\ Stack(p, q, in, out)
  /\ Puts(n, r, out)

LEMMA OpsReplaced ==
  ASSUME NEW m, NEW n, NEW o, NEW p, NEW q, NEW in, NEW out, NEW r,
         Replaces(m, n, o, p, q, in, out, r)
  PROVE  /\ OpsOK(n, r \o SubSeq(o, Len(in) + 1, Len(o)))
         /\ Stacked(r \o SubSeq(o, Len(in) + 1, Len(o)), q)
<1> USE DEF Replaces
<1> DEFINE a == Len(in)
           b == Len(out)
           k == Len(o)
           rest == SubSeq(o, a + 1, k)
           o2 == r \o rest
<1>1. a \in Nat /\ b \in Nat /\ k \in Nat /\ k = p.height /\ a <= k /\ IsSequence(o)
  BY LenProperties, SequenceElim DEF Stack, Stacked, OpsOK
<1>2. /\ IsSequence(rest) /\ Len(rest) = k - a
      /\ \A i \in 1 .. k - a : rest[i] = o[a + i]
  BY <1>1, SequenceDrop
<1>3. /\ IsSequence(o2) /\ Len(o2) = b + (k - a)
      /\ \A i \in 1 .. b : o2[i] = r[i]
      /\ \A i \in 1 .. k - a : o2[b + i] = rest[i]
  <2>1. o2 = r \o rest
    OBVIOUS
  <2> HIDE DEF rest, o2
  <2>2. /\ IsSequence(r \o rest) /\ Len(r \o rest) = Len(r) + Len(rest)
        /\ \A i \in 1 .. Len(r) : (r \o rest)[i] = r[i]
        /\ \A i \in 1 .. Len(rest) : (r \o rest)[Len(r) + i] = rest[i]
    <3>1. IsSequence(rest) /\ IsSequence(r)
      BY <1>2 DEF Puts
    <3> QED
      BY <3>1, SequenceConcat
  <2>3. Len(r) = b
    BY DEF Puts
  <2> QED
    BY <1>2, <2>1, <2>2, <2>3
<1>4. /\ q.height = k - a + b
      /\ \A i \in 1 .. b : q.kinds[k - a + i] = out[i]
      /\ \A i \in 1 .. k - a : q.kinds[i] = p.kinds[i]
  BY <1>1 DEF Stack
<1>5. \A i \in 1 .. k : ValueIn(m, o[i]) /\ KindOf(o[i]) = p.kinds[k + 1 - i]
  BY DEF Stacked, OpsOK
<1>6. \A i \in 1 .. b : ValueIn(n, r[i]) /\ KindOf(r[i]) = out[b + 1 - i]
  BY DEF Puts
<1> HIDE DEF Replaces, o2, a, b, k, rest
<1>7. ASSUME NEW i \in 1 .. b + (k - a)
      PROVE  ValueIn(n, o2[i]) /\ KindOf(o2[i]) = q.kinds[b + (k - a) + 1 - i]
  <2>1. CASE i <= b
    <3>1. i \in 1 .. b /\ b + 1 - i \in 1 .. b
      BY <1>1, <2>1
    <3>3. k - a + (b + 1 - i) = b + (k - a) + 1 - i
      BY <1>1
    <3>2. q.kinds[k - a + (b + 1 - i)] = out[b + 1 - i]
      BY <1>4, <3>1
    <3> QED
      BY <1>3, <1>6, <3>1, <3>2, <3>3
  <2>2. CASE i > b
    <3> DEFINE j == i - b
    <3>1. j \in 1 .. k - a /\ b + j = i /\ a + j \in 1 .. k
      BY <1>1, <2>2
    <3>2. o2[i] = o[a + j]
      BY <1>2, <1>3, <3>1
    <3>3. k + 1 - (a + j) \in 1 .. k - a
      <4>1. j \in Int /\ 1 <= j /\ j <= k - a
        BY <1>1, <3>1
      <4> HIDE DEF j
      <4> QED
        BY <1>1, <4>1
    <3>6. b + (k - a) + 1 - i = k + 1 - (a + j)
      BY <1>1
    <3>4. KindOf(o[a + j]) = p.kinds[k + 1 - (a + j)] /\ ValueIn(n, o[a + j])
      BY <1>5, <3>1 DEF ValuesStay, Replaces
    <3>5. q.kinds[k + 1 - (a + j)] = p.kinds[k + 1 - (a + j)]
      BY <1>4, <3>3
    <3> HIDE DEF j
    <3> QED
      BY <3>2, <3>4, <3>5, <3>6
  <2>3. i <= b \/ i > b
    BY <1>1
  <2> QED
    BY <2>1, <2>2, <2>3
<1>8. k - a + b = b + (k - a)
  BY <1>1
<1>9. OpsOK(n, o2) /\ Stacked(o2, q)
  BY <1>3, <1>4, <1>7, <1>8 DEF OpsOK, Stacked
<1>10. o2 = r \o SubSeq(o, Len(in) + 1, Len(o))
  BY DEF o2, rest, a, k
<1> QED
  BY <1>9, <1>10

\* What a task takes is at hand.
LEMMA OpsOnTop ==
  ASSUME NEW m, NEW o, OpsOK(m, o), NEW p \in Point, NEW q, Stacked(o, p),
         NEW in \in Seq(Kind), NEW out, Stack(p, q, in, out)
  PROVE  /\ IsSequence(o) /\ Len(o) \in Nat /\ Len(in) \in Nat /\ Len(in) <= Len(o)
         /\ \A i \in 1 .. Len(in) :
              /\ ValueIn(m, o[i]) /\ KindOf(o[i]) = in[Len(in) + 1 - i]
              /\ KindOf(o[i]) = "operand" => OperandIn(m, o[i])
              /\ KindOf(o[i]) = "place" => PlaceIn(m, o[i])
<1>1. /\ IsSequence(o) /\ Len(o) \in Nat /\ Len(in) \in Nat /\ Len(in) <= Len(o)
      /\ Len(o) = p.height
  BY LenProperties, SequenceElim DEF Stack, Stacked, OpsOK
<1>2. ASSUME NEW i \in 1 .. Len(in)
      PROVE  ValueIn(m, o[i]) /\ KindOf(o[i]) = in[Len(in) + 1 - i]
  <2>1. i \in 1 .. Len(o) /\ Len(in) + 1 - i \in 1 .. Len(in)
        /\ p.height - Len(in) + (Len(in) + 1 - i) = Len(o) + 1 - i
    BY <1>1
  <2>2. p.kinds[p.height - Len(in) + (Len(in) + 1 - i)] = in[Len(in) + 1 - i]
    BY <2>1 DEF Stack
  <2> QED
    BY <2>1, <2>2 DEF OpsOK, Stacked
<1> QED
  BY <1>1, <1>2, KindOfValue

LEMMA TailIsSub ==
  ASSUME NEW o, IsSequence(o), 1 <= Len(o)
  PROVE  /\ Tail(o) = <<>> \o SubSeq(o, 1 + 1, Len(o))
         /\ \A r : IsSequence(r) => r \o Tail(o) = r \o SubSeq(o, 1 + 1, Len(o))
         /\ Head(o) = o[1]
<1>1. Len(o) \in Nat /\ o # <<>>
  BY SequenceElim
<1>2. /\ IsSequence(Tail(o)) /\ Len(Tail(o)) = Len(o) - 1
      /\ \A i \in 1 .. Len(o) - 1 : Tail(o)[i] = o[i + 1]
      /\ Head(o) = o[1]
  BY <1>1, SequenceTail
<1>3. /\ IsSequence(SubSeq(o, 2, Len(o))) /\ Len(SubSeq(o, 2, Len(o))) = Len(o) - 1
      /\ \A i \in 1 .. Len(o) - 1 : SubSeq(o, 2, Len(o))[i] = o[i + 1]
  <2>1. 2 \in 1 .. Len(o) + 1 /\ Len(o) \in 2 - 1 .. Len(o) /\ Len(o) - 2 + 1 = Len(o) - 1
    BY <1>1
  <2>2. /\ IsSequence(SubSeq(o, 2, Len(o))) /\ Len(SubSeq(o, 2, Len(o))) = Len(o) - 2 + 1
        /\ \A i \in 1 .. Len(o) - 2 + 1 : SubSeq(o, 2, Len(o))[i] = o[2 + i - 1]
    BY <2>1, SequenceSub
  <2>3. \A i \in 1 .. Len(o) - 1 : 2 + i - 1 = i + 1
    BY <1>1
  <2> QED
    BY <2>1, <2>2, <2>3
<1>4. Tail(o) = SubSeq(o, 2, Len(o))
  BY <1>2, <1>3, SequencesEqual
<1>5. <<>> \o Tail(o) = Tail(o)
  BY <1>2, ConcatEmptySeq DEF IsSequence
<1> QED
  BY <1>2, <1>4, <1>5

LEMMA PutsNothing ==
  ASSUME NEW n
  PROVE  Puts(n, <<>>, <<>>)
<1>1. \A i \in 1 .. 0 : FALSE
  OBVIOUS
<1> QED
  BY <1>1, SequenceEmpty DEF Puts

LEMMA PutsOne ==
  ASSUME NEW n, NEW x, NEW k \in Kind, ValueIn(n, x), KindOf(x) = k
  PROVE  Puts(n, <<x>>, <<k>>)
<1>1. IsSequence(<<x>>) /\ Len(<<x>>) = 1 /\ Len(<<k>>) = 1 /\ <<x>>[1] = x /\ <<k>>[1] = k
  BY SequenceOne
<1>2. \A i \in 1 .. 1 : i = 1 /\ 1 + 1 - i = 1
  OBVIOUS
<1>3. \A i \in 1 .. 1 : <<x>>[i] = x /\ <<k>>[1 + 1 - i] = k
  BY <1>1, <1>2
<1> QED
  BY <1>1, <1>3 DEF Puts

LEMMA PutsTwo ==
  ASSUME NEW n, NEW x, NEW y, NEW j \in Kind, NEW k \in Kind,
         ValueIn(n, x), ValueIn(n, y), KindOf(x) = k, KindOf(y) = j
  PROVE  Puts(n, <<x, y>>, <<j, k>>)
<1>1. /\ IsSequence(<<x, y>>) /\ Len(<<x, y>>) = 2 /\ Len(<<j, k>>) = 2
      /\ <<x, y>>[1] = x /\ <<x, y>>[2] = y /\ <<j, k>>[1] = j /\ <<j, k>>[2] = k
  BY SequenceTwo
<1>2. \A i \in 1 .. 2 : (i = 1 /\ 2 + 1 - i = 2) \/ (i = 2 /\ 2 + 1 - i = 1)
  OBVIOUS
<1>3. \A i \in 1 .. 2 : ValueIn(n, <<x, y>>[i]) /\ KindOf(<<x, y>>[i]) = <<j, k>>[2 + 1 - i]
  BY <1>1, <1>2
<1> QED
  BY <1>1, <1>3 DEF Puts

LEMMA TopOne ==
  ASSUME NEW m, NEW o, OpsOK(m, o), NEW p \in Point, NEW q, Stacked(o, p),
         NEW k \in Kind, NEW out, Stack(p, q, <<k>>, out)
  PROVE  /\ IsSequence(o) /\ 1 <= Len(o) /\ Head(o) = o[1]
         /\ ValueIn(m, o[1]) /\ KindOf(o[1]) = k
         /\ k = "operand" => OperandIn(m, o[1])
         /\ k = "place" => PlaceIn(m, o[1])
<1> DEFINE in == <<k>>
<1>1. in \in Seq(Kind) /\ Len(in) = 1 /\ in[1] = k
  OBVIOUS
<1>2. Stack(p, q, in, out)
  OBVIOUS
<1> HIDE DEF in
<1>3. /\ IsSequence(o) /\ Len(o) \in Nat /\ 1 <= Len(o)
      /\ \A i \in 1 .. 1 : ValueIn(m, o[i]) /\ KindOf(o[i]) = in[1 + 1 - i]
  <2>1. /\ IsSequence(o) /\ Len(o) \in Nat /\ Len(in) <= Len(o)
        /\ \A i \in 1 .. Len(in) : ValueIn(m, o[i]) /\ KindOf(o[i]) = in[Len(in) + 1 - i]
    BY <1>1, <1>2, OpsOnTop
  <2> QED
    BY <1>1, <2>1
<1>4. 1 \in 1 .. 1 /\ 1 + 1 - 1 = 1
  OBVIOUS
<1> QED
  BY <1>1, <1>3, <1>4, KindOfValue, TailIsSub

LEMMA TopTwo ==
  ASSUME NEW m, NEW o, OpsOK(m, o), NEW p \in Point, NEW q, Stacked(o, p),
         NEW j \in Kind, NEW k \in Kind, NEW out, Stack(p, q, <<j, k>>, out)
  PROVE  /\ IsSequence(o) /\ 2 <= Len(o)
         /\ ValueIn(m, o[1]) /\ KindOf(o[1]) = k
         /\ k = "operand" => OperandIn(m, o[1])
         /\ k = "place" => PlaceIn(m, o[1])
         /\ ValueIn(m, o[2]) /\ KindOf(o[2]) = j
         /\ j = "operand" => OperandIn(m, o[2])
         /\ j = "place" => PlaceIn(m, o[2])
<1> DEFINE in == <<j, k>>
<1>1. in \in Seq(Kind) /\ Len(in) = 2 /\ in[1] = j /\ in[2] = k
  OBVIOUS
<1>2. Stack(p, q, in, out)
  OBVIOUS
<1> HIDE DEF in
<1>3. /\ IsSequence(o) /\ Len(o) \in Nat /\ 2 <= Len(o)
      /\ \A i \in 1 .. 2 : ValueIn(m, o[i]) /\ KindOf(o[i]) = in[2 + 1 - i]
  <2>1. /\ IsSequence(o) /\ Len(o) \in Nat /\ Len(in) <= Len(o)
        /\ \A i \in 1 .. Len(in) : ValueIn(m, o[i]) /\ KindOf(o[i]) = in[Len(in) + 1 - i]
    BY <1>1, <1>2, OpsOnTop
  <2> QED
    BY <1>1, <2>1
<1>4. 1 \in 1 .. 2 /\ 2 \in 1 .. 2 /\ 2 + 1 - 1 = 2 /\ 2 + 1 - 2 = 1
  OBVIOUS
<1> QED
  BY <1>1, <1>3, <1>4, KindOfValue

\* One or two values are replaced by r.
LEMMA OneReplaced ==
  ASSUME NEW m, NEW n, ValuesStay(m, n),
         NEW o, OpsOK(m, o), NEW p \in Point, NEW q \in Point, Stacked(o, p),
         NEW k \in Kind, NEW out \in Seq(Kind), Stack(p, q, <<k>>, out), NEW r, Puts(n, r, out)
  PROVE  /\ OpsOK(n, r \o Tail(o)) /\ Stacked(r \o Tail(o), q)
         /\ r = <<>> => OpsOK(n, Tail(o)) /\ Stacked(Tail(o), q)
<1> DEFINE in == <<k>>
           o2 == r \o Tail(o)
<1>1. in \in Seq(Kind) /\ Len(in) = 1 /\ Stack(p, q, in, out)
  OBVIOUS
<1>2. IsSequence(o) /\ 1 <= Len(o)
  BY TopOne
<1>3. IsSequence(r)
  BY DEF Puts
<1>4. o2 = r \o SubSeq(o, Len(in) + 1, Len(o))
  BY <1>1, <1>2, <1>3, TailIsSub
<1>5. r = <<>> => o2 = Tail(o)
  BY <1>2, <1>3, TailIsSub
<1> HIDE DEF in, o2
<1>6. Replaces(m, n, o, p, q, in, out, r)
  BY <1>1 DEF Replaces
<1>7. OpsOK(n, o2) /\ Stacked(o2, q)
  BY <1>4, <1>6, OpsReplaced
<1> QED
  BY <1>5, <1>7 DEF o2

LEMMA TwoReplaced ==
  ASSUME NEW m, NEW n, ValuesStay(m, n),
         NEW o, OpsOK(m, o), NEW p \in Point, NEW q \in Point, Stacked(o, p),
         NEW j \in Kind, NEW k \in Kind, NEW out \in Seq(Kind), Stack(p, q, <<j, k>>, out),
         NEW r, Puts(n, r, out)
  PROVE  /\ OpsOK(n, r \o SubSeq(o, 2 + 1, Len(o))) /\ Stacked(r \o SubSeq(o, 2 + 1, Len(o)), q)
<1> DEFINE in == <<j, k>>
           o2 == r \o SubSeq(o, 2 + 1, Len(o))
<1>1. in \in Seq(Kind) /\ Len(in) = 2 /\ Stack(p, q, in, out)
  OBVIOUS
<1>2. o2 = r \o SubSeq(o, Len(in) + 1, Len(o))
  BY <1>1
<1> HIDE DEF in, o2
<1>3. Replaces(m, n, o, p, q, in, out, r)
  BY <1>1 DEF Replaces
<1>4. OpsOK(n, o2) /\ Stacked(o2, q)
  BY <1>2, <1>3, OpsReplaced
<1> QED
  BY <1>4 DEF o2

-----------------------------------------------------------------------------
(* One step.                                                                  *)

LEMMA Now ==
  ASSUME Inv, Running
  PROVE  /\ BuilderOK(me) /\ OpsOK(me, ops) /\ TaskOK(me, Task) /\ pc = "run"
         /\ \E p, q \in Point : /\ Stacked(ops, p) /\ Placed(me, p) /\ Effect(Task, p, q)
                                /\ Leads(Tail(todo), q)
<1>1. pc = "run" /\ IsSequence(todo) /\ todo # <<>>
  BY DEF Inv, Running, TasksOK
<1>2. TaskOK(me, Task)
  <2>1. Len(todo) \in Nat \ {0} /\ Task = todo[1]
    BY <1>1, SequenceTail DEF Task
  <2>2. \A i \in 1 .. Len(todo) : TaskOK(me, todo[i])
    BY DEF Inv, TasksOK
  <2>3. 1 \in 1 .. Len(todo)
    BY <2>1
  <2> QED
    BY <2>1, <2>2, <2>3
<1>3. PICK p \in Point : Stacked(ops, p) /\ Placed(me, p) /\ Leads(todo, p)
  BY <1>1 DEF Inv
<1>4. \E q \in Point : Effect(Task, p, q) /\ Leads(Tail(todo), q)
  BY <1>1, <1>3, LeadsHead DEF Task
<1> QED
  BY <1>1, <1>2, <1>3, <1>4 DEF Inv

\* An action that replaces the first task by ts.
LEMMA Continue ==
  ASSUME Inv, Running, pc' = pc, BuilderOK(me'), Keeps(me, me'), OpsOK(me', ops'),
         NEW ts, TasksOK(me', ts), Then(ts),
         NEW p \in Point, NEW q \in Point, Stacked(ops', p), Placed(me', p), Runs(ts, p, q),
         Leads(Tail(todo), q)
  PROVE  Inv'
<1>1. /\ IsSequence(todo) /\ todo # <<>> /\ IsSequence(ts) /\ pc = "run"
      /\ BuilderOK(me) /\ \A i \in 1 .. Len(todo) : TaskOK(me, todo[i])
  BY DEF Inv, Running, TasksOK
<1>2. /\ IsSequence(Tail(todo)) /\ Len(Tail(todo)) = Len(todo) - 1 /\ Len(todo) \in Nat \ {0}
      /\ \A i \in 1 .. Len(todo) - 1 : Tail(todo)[i] = todo[i + 1]
  BY <1>1, SequenceTail
<1>3. \A t : TaskOK(me, t) => TaskOK(me', t)
  <2>1. Len(me'.blocks) \in Nat /\ Len(me'.locals) \in Nat
    BY BuilderIs
  <2> QED
    BY <1>1, <2>1, InRangeStays DEF Keeps
<1>4. /\ IsSequence(todo') /\ Len(todo') = Len(ts) + Len(Tail(todo))
      /\ \A i \in 1 .. Len(ts) : todo'[i] = ts[i]
      /\ \A i \in 1 .. Len(Tail(todo)) : todo'[Len(ts) + i] = Tail(todo)[i]
  <2>1. todo' = ts \o Tail(todo)
    BY DEF Then
  <2>2. /\ IsSequence(ts \o Tail(todo)) /\ Len(ts \o Tail(todo)) = Len(ts) + Len(Tail(todo))
        /\ \A i \in 1 .. Len(ts) : (ts \o Tail(todo))[i] = ts[i]
        /\ \A i \in 1 .. Len(Tail(todo)) : (ts \o Tail(todo))[Len(ts) + i] = Tail(todo)[i]
    <3>1. IsSequence(ts) /\ IsSequence(Tail(todo))
      BY <1>1, <1>2
    <3> QED
      BY <3>1, SequenceConcat
  <2> QED
    BY <2>1, <2>2
<1>5. Len(ts) \in Nat
  BY <1>1, SequenceElim
<1>6. ASSUME NEW i \in 1 .. Len(todo')
      PROVE  TaskOK(me', todo'[i])
  <2>1. CASE i <= Len(ts)
    <3>1. i \in 1 .. Len(ts)
      BY <1>5, <2>1
    <3> QED
      BY <1>4, <3>1 DEF TasksOK
  <2>2. CASE i > Len(ts)
    <3> DEFINE j == i - Len(ts)
    <3>1. j \in 1 .. Len(Tail(todo)) /\ Len(ts) + j = i /\ j + 1 \in 1 .. Len(todo)
          /\ j \in 1 .. Len(todo) - 1
      BY <1>2, <1>4, <1>5, <2>2
    <3> HIDE DEF j
    <3>2. todo'[i] = todo[j + 1]
      BY <1>2, <1>4, <3>1
    <3> QED
      BY <1>1, <1>3, <3>1, <3>2
  <2>3. i <= Len(ts) \/ i > Len(ts)
    BY <1>5
  <2> QED
    BY <2>1, <2>2, <2>3
<1>7. TasksOK(me', todo')
  BY <1>4, <1>6 DEF TasksOK
<1>8. Leads(todo', p)
  BY <1>1, <1>2, LeadsConcat DEF Then
<1> QED
  BY <1>1, <1>7, <1>8 DEF Inv, EveryBlockClosed

\* An action that does the first task.
LEMMA ContinueAfter ==
  ASSUME Inv, Running, pc' = pc, BuilderOK(me'), Keeps(me, me'), OpsOK(me', ops'), Then(<<>>),
         NEW q \in Point, Stacked(ops', q), Placed(me', q), Leads(Tail(todo), q)
  PROVE  Inv'
<1>1. TasksOK(me', <<>>)
  <2>1. \A i \in 1 .. 0 : FALSE
    OBVIOUS
  <2> QED
    BY <2>1, SequenceEmpty DEF TasksOK
<1>2. Runs(<<>>, q, q)
  BY RunsNothing
<1> QED
  BY <1>1, <1>2, Continue

-----------------------------------------------------------------------------
(* Control flow.                                                              *)

LEMMA LiveIs ==
  ASSUME NEW m, BuilderOK(m)
  PROVE  /\ IsCurrentLive(m) <=> Term(m, m.current) = Unreachable
         /\ TermIn(m, Term(m, m.current))
         /\ \A b \in Blocks(m) : Term(m, b).t = "Unreachable" => Term(m, b) = Unreachable
<1>1. \A b \in Blocks(m) : TermIn(m, Term(m, b))
  <2>1. \A b \in Blocks(m) : b + 1 \in 1 .. Len(m.blocks)
    BY BuilderIs
  <2> QED
    BY <2>1 DEF BuilderOK, BlockIn, Term
<1>2. ASSUME NEW t, TermIn(m, t)
      PROVE  t.t \notin {"Return", "Goto", "SwitchInt"} <=> t = Unreachable
  <2>1. CASE t \in {Unreachable, Return}
    BY <2>1 DEF Unreachable, Return
  <2>2. CASE \E b \in Blocks(m) : t = Goto(b)
    BY <2>2 DEF Goto, Unreachable
  <2>3. CASE \E c : \E b1, b2 \in Blocks(m) : OperandIn(m, c) /\ t = SwitchInt(c, b1, b2)
    BY <2>3 DEF SwitchInt, Unreachable
  <2> QED
    BY <1>2, <2>1, <2>2, <2>3 DEF TermIn
<1>3. m.current \in Blocks(m)
  BY DEF BuilderOK
<1>4. IsCurrentLive(m) <=> Term(m, m.current).t \notin {"Return", "Goto", "SwitchInt"}
  BY DEF IsCurrentLive, Term
<1>5. \A b \in Blocks(m) : Term(m, b).t = "Unreachable" => Term(m, b) = Unreachable
  BY <1>1, <1>2
<1> QED
  BY <1>1, <1>2, <1>3, <1>4, <1>5

LEMMA StackedNothing ==
  ASSUME NEW o, NEW p \in Point, NEW q \in Point, Stacked(o, p), Over(p, q, <<>>)
  PROVE  Stacked(o, q)
<1>1. p.height \in Nat /\ Len(<<>>) = 0 /\ <<>> \in Seq(Kind)
  BY SequenceEmpty DEF Point
<1>2. q.height = p.height + 0 /\ \A i \in 1 .. p.height : q.kinds[i] = p.kinds[i]
  BY <1>1, OverIs
<1>3. q.height = p.height
  BY <1>1, <1>2
<1>4. \A i \in 1 .. Len(o) : Len(o) + 1 - i \in 1 .. p.height
  BY <1>1 DEF Stacked
<1> QED
  BY <1>2, <1>3, <1>4 DEF Stacked

LEMMA KeepsSame ==
  ASSUME NEW m, BuilderOK(m)
  PROVE  Keeps(m, m) /\ SameFlow(m, m)
<1>1. Len(m.blocks) \in Nat /\ Len(m.locals) \in Nat
  BY BuilderIs
<1> QED
  BY <1>1 DEF Keeps, Grows, SameFlow

LEMMA StepEnterBlock ==
  ASSUME Inv, EnterBlock
  PROVE  Inv' /\ Keeps(me, me')
<1>1. Running /\ Task.do = "enter" /\ me' = SwitchTo(me, Task.block) /\ Then(<<>>)
      /\ ops' = ops /\ pc' = pc
  BY DEF EnterBlock, Doing
<1>2. BuilderOK(me) /\ OpsOK(me, ops) /\ Task.block \in Blocks(me)
  BY <1>1, Now DEF TaskOK
<1>3. PICK p, q \in Point : Stacked(ops, p) /\ Placed(me, p) /\ Effect(Task, p, q) /\ Leads(Tail(todo), q)
  BY <1>1, Now
<1>4. /\ Over(p, q, <<>>) /\ q.depth = p.depth
      /\ p.flag = "closed" /\ p.pend = q.pend \cup {Task.block}
      /\ \/ q.flag \in {"open", "any"} /\ Task.block \notin q.pend
         \/ q.flag = "join" /\ q.at = Task.block /\ Task.block \in q.pend
  <2>1. Takes(Task) = <<>> /\ Leaves(Task) = <<>> /\ Loops(Task) = 0
    BY <1>1 DEF Takes, Leaves, Loops
  <2>2. p.depth + 0 = p.depth
    BY DEF Point
  <2> QED
    BY <1>1, <1>3, <2>1, <2>2 DEF Effect, Flow, Over
<1>5. me' = [locals |-> me.locals, blocks |-> me.blocks, current |-> Task.block,
             sym_to_local |-> me.sym_to_local, loop_stack |-> me.loop_stack]
  BY <1>1, <1>2 DEF SwitchTo, BuilderOK
<1>6. /\ me'.locals = me.locals /\ me'.blocks = me.blocks /\ me'.current = Task.block
      /\ me'.sym_to_local = me.sym_to_local /\ me'.loop_stack = me.loop_stack
      /\ Blocks(me') = Blocks(me) /\ Locals(me') = Locals(me)
  BY <1>5 DEF Blocks, Locals
<1>7. Keeps(me, me')
  BY <1>2, <1>6, KeepsSame DEF Keeps, Grows
<1>8. Len(me'.blocks) \in Nat /\ Len(me'.locals) \in Nat
  BY <1>2, <1>6, BuilderIs
<1>9. BuilderOK(me')
  <2>1. \A i \in 1 .. Len(me.blocks) : BlockIn(me', me.blocks[i])
    BY <1>2, <1>7, <1>8, InRangeStays DEF BuilderOK, Keeps
  <2>2. me' = [locals |-> me'.locals, blocks |-> me'.blocks, current |-> me'.current,
               sym_to_local |-> me'.sym_to_local, loop_stack |-> me'.loop_stack]
    BY <1>5, <1>6
  <2> QED
    BY <1>2, <1>6, <2>1, <2>2 DEF BuilderOK
<1>10. OpsOK(me', ops')
  BY <1>1, <1>2, <1>7, <1>8, InRangeStays DEF OpsOK, Keeps
<1>11. Placed(me', q)
  <2>1. \A b : Term(me', b) = Term(me, b) /\ (Writable(me', b) <=> Writable(me, b))
    BY <1>6 DEF Term, Writable
  <2> QED
    BY <1>3, <1>4, <1>6, <2>1 DEF Placed
<1>12. Stacked(ops', q)
  BY <1>1, <1>3, <1>4, StackedNothing
<1> QED
  BY <1>1, <1>3, <1>7, <1>9, <1>10, <1>11, <1>12, ContinueAfter

LEMMA OpsStay ==
  ASSUME NEW m, NEW n, BuilderOK(m), BuilderOK(n), Keeps(m, n)
  PROVE  /\ \A o : OpsOK(m, o) => OpsOK(n, o)
         /\ ValuesStay(m, n)
<1>1. Len(n.blocks) \in Nat /\ Len(n.locals) \in Nat
  BY BuilderIs
<1> QED
  BY <1>1, InRangeStays DEF OpsOK, Keeps, ValuesStay

LEMMA StepSetJump ==
  ASSUME Inv, SetJump
  PROVE  Inv' /\ Keeps(me, me')
<1>1. Running /\ Task.do = "jump" /\ me' = Terminate(me, Task.term) /\ Then(<<>>)
      /\ ops' = ops /\ pc' = pc
  BY DEF SetJump, Doing
<1>2. /\ BuilderOK(me) /\ OpsOK(me, ops)
      /\ Task.term = Return \/ \E b \in Blocks(me) : Task.term = Goto(b)
  BY <1>1, Now DEF TaskOK
<1>3. PICK p, q \in Point : Stacked(ops, p) /\ Placed(me, p) /\ Effect(Task, p, q) /\ Leads(Tail(todo), q)
  BY <1>1, Now
<1>4. /\ Over(p, q, <<>>) /\ q.depth = p.depth /\ q.pend = p.pend
      /\ \/ p.flag = "open" /\ q.flag \in {"closed", "any"}
         \/ p.flag = "join" /\ q.flag = "closed" /\ Task.term = Goto(p.at)
  <2>1. Takes(Task) = <<>> /\ Leaves(Task) = <<>> /\ Loops(Task) = 0
    BY <1>1 DEF Takes, Leaves, Loops
  <2>2. p.depth + 0 = p.depth
    BY DEF Point
  <2> QED
    BY <1>1, <1>3, <2>1, <2>2 DEF Effect, Flow, Over
<1>5. Writable(me, me.current)
  BY <1>3, <1>4 DEF Placed
<1>6. TermIn(me, Task.term) /\ Task.term # Unreachable
  <2>1. Return # Unreachable /\ \A b : Goto(b) # Unreachable
    BY DEF Return, Goto, Unreachable
  <2> QED
    BY <1>2, <2>1 DEF TermIn
<1>7. /\ BuilderOK(me') /\ Keeps(me, me')
      /\ me'.current = me.current /\ me'.loop_stack = me.loop_stack /\ Blocks(me') = Blocks(me)
      /\ Term(me', me.current) = Task.term
      /\ \A c \in Blocks(me) : c # me.current => Term(me', c) = Term(me, c)
  BY <1>1, <1>2, <1>5, <1>6, TerminateOK
<1>8. Placed(me', q)
  BY <1>2, <1>3, <1>4, <1>6, <1>7, PlacedClosed
<1>9. Stacked(ops', q) /\ OpsOK(me', ops')
  BY <1>1, <1>2, <1>3, <1>4, <1>7, StackedNothing, OpsStay
<1> QED
  BY <1>1, <1>3, <1>7, <1>8, <1>9, ContinueAfter

LEMMA StepCloseArm ==
  ASSUME Inv, CloseArm
  PROVE  Inv' /\ Keeps(me, me')
<1>1. Running /\ Task.do = "close" /\ Then(<<>>) /\ ops' = ops /\ pc' = pc
      /\ me' = IF IsCurrentLive(me) THEN Terminate(me, Goto(Task.to)) ELSE me
  BY DEF CloseArm, Doing
<1>2. BuilderOK(me) /\ OpsOK(me, ops) /\ Task.to \in Blocks(me)
  BY <1>1, Now DEF TaskOK
<1>3. PICK p, q \in Point : Stacked(ops, p) /\ Placed(me, p) /\ Effect(Task, p, q) /\ Leads(Tail(todo), q)
  BY <1>1, Now
<1>4. /\ Over(p, q, <<>>) /\ q.depth = p.depth /\ q.pend = p.pend
      /\ p.flag \in {"open", "any"} /\ q.flag = "closed"
  <2>1. Takes(Task) = <<>> /\ Leaves(Task) = <<>> /\ Loops(Task) = 0
    BY <1>1 DEF Takes, Leaves, Loops
  <2>2. p.depth + 0 = p.depth
    BY DEF Point
  <2> QED
    BY <1>1, <1>3, <2>1, <2>2 DEF Effect, Flow, Over
<1>5. CASE IsCurrentLive(me)
  <2>1. Writable(me, me.current)
    BY <1>2, <1>5, LiveIs DEF Writable
  <2>2. TermIn(me, Goto(Task.to)) /\ Goto(Task.to) # Unreachable
    BY <1>2 DEF TermIn, Goto, Unreachable
  <2>3. /\ BuilderOK(me') /\ Keeps(me, me')
        /\ me'.current = me.current /\ me'.loop_stack = me.loop_stack /\ Blocks(me') = Blocks(me)
        /\ Term(me', me.current) = Goto(Task.to)
        /\ \A c \in Blocks(me) : c # me.current => Term(me', c) = Term(me, c)
    BY <1>1, <1>2, <1>5, <2>1, <2>2, TerminateOK
  <2>4. Placed(me', q)
    BY <1>2, <1>3, <1>4, <2>2, <2>3, PlacedClosed
  <2>5. Stacked(ops', q) /\ OpsOK(me', ops')
    BY <1>1, <1>2, <1>3, <1>4, <2>3, StackedNothing, OpsStay
  <2> QED
    BY <1>1, <1>3, <2>3, <2>4, <2>5, ContinueAfter
<1>6. CASE ~ IsCurrentLive(me)
  <2>1. me' = me
    BY <1>1, <1>6
  <2>2. Term(me, me.current) # Unreachable
    BY <1>2, <1>6, LiveIs
  <2>3. Placed(me, q)
    BY <1>3, <1>4, <2>2 DEF Placed
  <2>4. Stacked(ops, q)
    BY <1>3, <1>4, StackedNothing
  <2>5. BuilderOK(me') /\ Keeps(me, me') /\ OpsOK(me', ops') /\ Stacked(ops', q) /\ Placed(me', q)
    BY <1>1, <1>2, <2>1, <2>3, <2>4, KeepsSame
  <2> QED
    BY <1>1, <1>3, <2>5, ContinueAfter
<1> QED
  BY <1>5, <1>6

LEMMA StepBranchOn ==
  ASSUME Inv, BranchOn
  PROVE  Inv' /\ Keeps(me, me')
<1>1. Running /\ Task.do = "branch" /\ Then(<<>>) /\ ops' = Tail(ops) /\ pc' = pc
      /\ me' = Terminate(me, SwitchInt(Head(ops), Task.to[1], Task.to[2]))
  BY DEF BranchOn, Doing
<1>2. BuilderOK(me) /\ OpsOK(me, ops) /\ Task.to \in Blocks(me) \X Blocks(me)
  BY <1>1, Now DEF TaskOK
<1>3. PICK p, q \in Point : Stacked(ops, p) /\ Placed(me, p) /\ Effect(Task, p, q) /\ Leads(Tail(todo), q)
  BY <1>1, Now
<1>4. /\ Stack(p, q, <<"operand">>, <<>>) /\ q.depth = p.depth /\ q.pend = p.pend
      /\ p.flag = "open" /\ q.flag \in {"closed", "any"}
  <2>1. Takes(Task) = <<"operand">> /\ Leaves(Task) = <<>> /\ Loops(Task) = 0
    BY <1>1 DEF Takes, Leaves, Loops
  <2>2. p.depth + 0 = p.depth
    BY DEF Point
  <2> QED
    BY <1>1, <1>3, <2>1, <2>2 DEF Effect, Flow
<1>5. Writable(me, me.current)
  BY <1>3, <1>4 DEF Placed
<1>6. OperandIn(me, Head(ops))
  <2>1. "operand" \in Kind
    BY DEF Kind
  <2> QED
    BY <1>2, <1>3, <1>4, <2>1, TopOne
<1> DEFINE t == SwitchInt(Head(ops), Task.to[1], Task.to[2])
<1>7. TermIn(me, t) /\ t # Unreachable
  BY <1>2, <1>6 DEF TermIn, SwitchInt, Unreachable
<1> HIDE DEF t
<1>8. /\ BuilderOK(me') /\ Keeps(me, me')
      /\ me'.current = me.current /\ me'.loop_stack = me.loop_stack /\ Blocks(me') = Blocks(me)
      /\ Term(me', me.current) = t
      /\ \A c \in Blocks(me) : c # me.current => Term(me', c) = Term(me, c)
  BY <1>1, <1>2, <1>5, <1>7, TerminateOK DEF t
<1>9. Placed(me', q)
  BY <1>2, <1>3, <1>4, <1>7, <1>8, PlacedClosed
<1>10. Stacked(ops', q) /\ OpsOK(me', ops')
  <2>1. "operand" \in Kind /\ <<>> \in Seq(Kind)
    BY DEF Kind
  <2> QED
    BY <1>1, <1>2, <1>3, <1>4, <1>8, <2>1, PutsNothing, OneReplaced, OpsStay
<1> QED
  BY <1>1, <1>3, <1>8, <1>9, <1>10, ContinueAfter

LEMMA StepLoops ==
  ASSUME Inv, EnterLoop \/ LeaveLoop
  PROVE  Inv' /\ Keeps(me, me')
<1> DEFINE s == me'.loop_stack
<1>1. /\ Running /\ Then(<<>>) /\ ops' = ops /\ pc' = pc
      /\ \/ Task.do = "push_loop" /\ me' = [me EXCEPT !.loop_stack = Append(@, Task.targets)]
         \/ Task.do = "pop_loop" /\ me' = [me EXCEPT !.loop_stack = Front(@)]
  BY DEF EnterLoop, LeaveLoop, Doing
<1>2. BuilderOK(me) /\ OpsOK(me, ops) /\ TaskOK(me, Task)
  BY <1>1, Now
<1>3. PICK p, q \in Point : Stacked(ops, p) /\ Placed(me, p) /\ Effect(Task, p, q) /\ Leads(Tail(todo), q)
  BY <1>1, Now
<1>4. /\ Over(p, q, <<>>) /\ q.pend = p.pend /\ p.flag = "closed" /\ q.flag = "closed"
      /\ \/ Task.do = "push_loop" /\ q.depth = p.depth + 1
         \/ Task.do = "pop_loop" /\ q.depth = p.depth + -1
  <2>1. Takes(Task) = <<>> /\ Leaves(Task) = <<>>
    BY <1>1 DEF Takes, Leaves
  <2> QED
    BY <1>1, <1>3, <2>1 DEF Effect, Flow, Over, Loops
<1>5. /\ me'.locals = me.locals /\ me'.blocks = me.blocks /\ me'.current = me.current
      /\ me'.sym_to_local = me.sym_to_local
      /\ Blocks(me') = Blocks(me) /\ Locals(me') = Locals(me)
      /\ s = Append(me.loop_stack, Task.targets) \/ s = Front(me.loop_stack)
      /\ Task.do = "push_loop" => s = Append(me.loop_stack, Task.targets)
      /\ Task.do = "pop_loop" => s = Front(me.loop_stack)
      /\ me' = [locals |-> me'.locals, blocks |-> me'.blocks, current |-> me'.current,
                sym_to_local |-> me'.sym_to_local, loop_stack |-> me'.loop_stack]
  BY <1>1, <1>2 DEF BuilderOK, Blocks, Locals
<1>6. s \in Seq(Blocks(me) \X Blocks(me)) /\ Len(s) = q.depth
  <2> DEFINE T == Blocks(me) \X Blocks(me)
             old == me.loop_stack
  <2> SUFFICES s \in Seq(T) /\ Len(s) = q.depth
    OBVIOUS
  <2>1. old \in Seq(T) /\ Len(old) = p.depth /\ p.depth \in Nat /\ q.depth \in Nat
    BY <1>2, <1>3 DEF BuilderOK, Placed, Point
  <2>2. CASE Task.do = "push_loop"
    <3>1. Task.targets \in T /\ s = Append(old, Task.targets)
      BY <1>2, <1>5, <2>2 DEF TaskOK
    <3> HIDE DEF T, old
    <3> QED
      BY <1>4, <2>1, <2>2, <3>1, AppendProperties
  <2>3. CASE Task.do = "pop_loop"
    <3>1. s = SubSeq(old, 1, Len(old) - 1)
      BY <1>5, <2>3 DEF Front
    <3>2. q.depth = p.depth - 1
      BY <1>4, <2>1, <2>3
    <3> HIDE DEF T, old
    <3>3. \A i \in 1 .. Len(old) - 1 : old[i] \in T
      BY <2>1, ElementOfSeq
    <3>4. /\ SubSeq(old, 1, Len(old) - 1) \in Seq(T)
          /\ Len(SubSeq(old, 1, Len(old) - 1)) = Len(old) - 1
      BY <2>1, <3>2, <3>3, SubSeqProperties
    <3> QED
      BY <2>1, <3>1, <3>2, <3>4
  <2> QED
    BY <1>1, <2>2, <2>3
<1>7. Keeps(me, me')
  BY <1>2, <1>5, KeepsSame DEF Keeps, Grows
<1>8. Len(me'.blocks) \in Nat /\ Len(me'.locals) \in Nat
  BY <1>2, <1>5, BuilderIs
<1>9. BuilderOK(me')
  <2>1. \A i \in 1 .. Len(me.blocks) : BlockIn(me', me.blocks[i])
    BY <1>2, <1>7, <1>8, InRangeStays DEF BuilderOK, Keeps
  <2> QED
    BY <1>2, <1>5, <1>6, <2>1 DEF BuilderOK
<1>10. Placed(me', q)
  <2>1. \A b : Term(me', b) = Term(me, b) /\ (Writable(me', b) <=> Writable(me, b))
    BY <1>5 DEF Term, Writable
  <2> QED
    BY <1>3, <1>4, <1>5, <1>6, <2>1 DEF Placed
<1>11. Stacked(ops', q) /\ OpsOK(me', ops')
  BY <1>1, <1>2, <1>3, <1>4, <1>7, <1>9, StackedNothing, OpsStay
<1> QED
  BY <1>1, <1>3, <1>7, <1>9, <1>10, <1>11, ContinueAfter

\* The end of build().
LEMMA StepFinish ==
  ASSUME Inv, Finish
  PROVE  Inv' /\ Keeps(me, me')
<1>1. /\ pc = "run" /\ todo = <<>> /\ pc' = "done" /\ todo' = todo /\ ops' = ops
      /\ me' = IF IsCurrentLive(me) THEN Terminate(me, Return) ELSE me
  BY DEF Finish
<1>2. BuilderOK(me) /\ OpsOK(me, ops) /\ TasksOK(me, todo)
  BY DEF Inv
<1>3. PICK p \in Point : Stacked(ops, p) /\ Placed(me, p) /\ IsEnd(p)
  BY <1>1, LeadsNothing DEF Inv
<1>4. me.loop_stack = <<>> /\ ops = <<>>
  <2>1. Len(me.loop_stack) = 0 /\ Len(ops) = 0
    BY <1>3 DEF Stacked, Placed, IsEnd
  <2>2. IsSequence(ops) /\ me.loop_stack \in Seq(Blocks(me) \X Blocks(me))
    BY <1>2 DEF OpsOK, BuilderOK
  <2> QED
    BY <2>1, <2>2, SequenceElim, EmptySeq
<1>5. /\ BuilderOK(me') /\ Keeps(me, me') /\ me'.loop_stack = me.loop_stack
      /\ Blocks(me') = Blocks(me)
      /\ \A b \in Blocks(me) : Term(me', b) # Unreachable
  <2>1. \A b \in Blocks(me) : Term(me, b) = Unreachable => b = me.current
    BY <1>3 DEF Placed, IsEnd
  <2>2. CASE IsCurrentLive(me)
    <3>1. Writable(me, me.current) /\ TermIn(me, Return) /\ Return # Unreachable
      BY <1>2, <2>2, LiveIs DEF Writable, TermIn, Return, Unreachable
    <3>2. /\ BuilderOK(me') /\ Keeps(me, me')
          /\ me'.current = me.current /\ me'.loop_stack = me.loop_stack /\ Blocks(me') = Blocks(me)
          /\ Term(me', me.current) = Return
          /\ \A c \in Blocks(me) : c # me.current => Term(me', c) = Term(me, c)
      BY <1>1, <1>2, <2>2, <3>1, TerminateOK
    <3> QED
      BY <2>1, <3>1, <3>2
  <2>3. CASE ~ IsCurrentLive(me)
    <3>1. me' = me /\ Term(me, me.current) # Unreachable
      BY <1>1, <1>2, <2>3, LiveIs
    <3> QED
      BY <1>2, <2>1, <3>1, KeepsSame
  <2> QED
    BY <2>2, <2>3
<1>6. EveryBlockClosed'
  <2>1. ASSUME NEW i \in DOMAIN me'.blocks
        PROVE  me'.blocks[i].term.t # "Unreachable"
    <3>1. i - 1 \in Blocks(me') /\ i - 1 + 1 = i
      BY <1>5, BuilderIs
    <3>2. Term(me', i - 1) # Unreachable
      BY <1>5, <3>1
    <3> QED
      BY <1>5, <3>1, <3>2, LiveIs DEF Term
  <2> QED
    BY <1>1, <1>4, <1>5, <2>1 DEF EveryBlockClosed
<1>7. OpsOK(me', ops') /\ TasksOK(me', todo')
  <2>1. Len(todo) = 0 /\ \A i \in 1 .. 0 : FALSE
    BY <1>1, SequenceEmpty
  <2> QED
    BY <1>1, <1>2, <1>5, <2>1, OpsStay DEF TasksOK
<1> QED
  BY <1>1, <1>5, <1>6, <1>7 DEF Inv

LEMMA StepPanic ==
  ASSUME Inv, PanicOnPlace
  PROVE  Inv' /\ Keeps(me, me')
<1>1. pc' = "panic" /\ me' = me /\ todo' = todo /\ ops' = ops
  BY DEF PanicOnPlace
<1>2. Keeps(me, me')
  BY <1>1, KeepsSame DEF Inv
<1> QED
  BY <1>1, <1>2 DEF Inv, EveryBlockClosed

-----------------------------------------------------------------------------
(* Operands and places.                                                       *)

LEMMA Values ==
  ASSUME NEW m
  PROVE  /\ \A l \in Locals(m) : PlaceIn(m, FromLocal(l))
         /\ \A pl : PlaceIn(m, pl) => /\ OperandIn(m, Copy(pl)) /\ OperandIn(m, Move(pl))
                                      /\ \A own : OperandIn(m, ReadPlace(pl, own))
         /\ \A c : OperandIn(m, Const(c))
         /\ OperandIn(m, ErrorConst) /\ \A k : OperandIn(m, IntLit(k))
         /\ \A x : OperandIn(m, x) => ValueIn(m, x) /\ KindOf(x) = "operand"
         /\ \A x : PlaceIn(m, x) => ValueIn(m, x) /\ KindOf(x) = "place"
<1>1. ASSUME NEW l \in Locals(m)
      PROVE  PlaceIn(m, FromLocal(l))
  <2> DEFINE pl == FromLocal(l)
  <2>1. pl.local = l /\ pl.proj = <<>> /\ pl = [local |-> pl.local, proj |-> pl.proj]
    BY DEF FromLocal
  <2>2. IsSequence(<<>>) /\ Range(<<>>) = {}
    BY SequenceEmpty DEF Range
  <2> HIDE DEF pl
  <2>3. PlaceIn(m, pl)
    BY <2>1, <2>2 DEF PlaceIn, IsPlaceOf
  <2> QED
    BY <2>3 DEF pl
<1>2. ASSUME NEW pl, PlaceIn(m, pl)
      PROVE  OperandIn(m, Copy(pl)) /\ OperandIn(m, Move(pl))
  BY <1>2 DEF OperandIn, Copy, Move
<1>3. ASSUME NEW pl, PlaceIn(m, pl), NEW own
      PROVE  OperandIn(m, ReadPlace(pl, own))
  BY <1>2, <1>3 DEF ReadPlace
<1>4. ASSUME NEW c
      PROVE  OperandIn(m, Const(c))
  BY DEF OperandIn, Const
<1>5. OperandIn(m, ErrorConst) /\ \A k : OperandIn(m, IntLit(k))
  BY <1>4 DEF ErrorConst, IntLit
<1>6. \A x : OperandIn(m, x) => ValueIn(m, x) /\ KindOf(x) = "operand"
  BY KindOfValue DEF ValueIn
<1>7. \A x : PlaceIn(m, x) => ValueIn(m, x) /\ KindOf(x) = "place"
  BY KindOfValue DEF ValueIn
<1> QED
  BY <1>1, <1>2, <1>3, <1>4, <1>5, <1>6, <1>7

OperandsIn(m, os) == IsSequence(os) /\ \A i \in 1 .. Len(os) : OperandIn(m, os[i])

LEMMA Statements ==
  ASSUME NEW m
  PROVE  /\ \A dest, op, reads :
              PlaceIn(m, dest) /\ OperandsIn(m, reads) => StatementIn(m, Assign(dest, op, reads))
         /\ \A dest, pl : PlaceIn(m, dest) /\ PlaceIn(m, pl) => StatementIn(m, AddressOf(dest, pl))
         /\ \A dest, reads :
              PlaceIn(m, dest) /\ OperandsIn(m, reads) => StatementIn(m, CallStmt(<<dest>>, reads))
         /\ \A reads : OperandsIn(m, reads) => StatementIn(m, CallStmt(<<>>, reads))
         /\ \A o : OperandIn(m, o) => OperandsIn(m, <<o>>)
         /\ \A o1, o2 : OperandIn(m, o1) /\ OperandIn(m, o2) => OperandsIn(m, <<o1, o2>>)
<1>1. \A x : /\ IsSequence(<<x>>) /\ Len(<<x>>) = 1 /\ \A i \in 1 .. 1 : <<x>>[i] = x
  <2>1. \A i \in 1 .. 1 : i = 1
    OBVIOUS
  <2> QED
    BY <2>1, SequenceOne
<1>2. IsSequence(<<>>) /\ Len(<<>>) = 0 /\ \A i \in 1 .. 0 : FALSE
  BY SequenceEmpty
<1>3. ASSUME NEW x, NEW y
      PROVE  /\ IsSequence(<<x, y>>) /\ Len(<<x, y>>) = 2
             /\ \A i \in 1 .. 2 : <<x, y>>[i] = x \/ <<x, y>>[i] = y
  <2>1. \A i \in 1 .. 2 : i = 1 \/ i = 2
    OBVIOUS
  <2> QED
    BY <2>1, SequenceTwo
<1>4. ASSUME NEW dest, NEW op, NEW reads, PlaceIn(m, dest), OperandsIn(m, reads)
      PROVE  StatementIn(m, Assign(dest, op, reads))
  BY <1>1, <1>2, <1>4 DEF StatementIn, Assign, OperandsIn
<1>5. ASSUME NEW dest, NEW pl, PlaceIn(m, dest), PlaceIn(m, pl)
      PROVE  StatementIn(m, AddressOf(dest, pl))
  BY <1>1, <1>2, <1>5 DEF StatementIn, AddressOf
<1>6. ASSUME NEW dest, NEW reads, PlaceIn(m, dest), OperandsIn(m, reads)
      PROVE  StatementIn(m, CallStmt(<<dest>>, reads))
  BY <1>1, <1>2, <1>6 DEF StatementIn, CallStmt, OperandsIn
<1>7. ASSUME NEW reads, OperandsIn(m, reads)
      PROVE  StatementIn(m, CallStmt(<<>>, reads))
  BY <1>2, <1>7 DEF StatementIn, CallStmt, OperandsIn
<1>8. \A o : OperandIn(m, o) => OperandsIn(m, <<o>>)
  BY <1>1 DEF OperandsIn
<1>9. \A o1, o2 : OperandIn(m, o1) /\ OperandIn(m, o2) => OperandsIn(m, <<o1, o2>>)
  BY <1>3 DEF OperandsIn
<1> QED
  BY <1>4, <1>5, <1>6, <1>7, <1>8, <1>9

\* The first task takes the builder from p to q.
Between(p, q) ==
  /\ p \in Point /\ q \in Point
  /\ Stacked(ops, p) /\ Placed(me, p) /\ Effect(Task, p, q) /\ Leads(Tail(todo), q)

LEMMA NowBetween ==
  ASSUME Inv, Running
  PROVE  /\ BuilderOK(me) /\ OpsOK(me, ops) /\ TaskOK(me, Task) /\ pc = "run"
         /\ \E p, q : Between(p, q)
BY Now DEF Between

\* The tasks that stay in their block.
LEMMA StaysInBlock ==
  ASSUME Inv, Running, NEW p, NEW q, Between(p, q),
         Task.do \in {"put", "discard", "keep_last", "store", "read", "peek", "materialize", "deref",
                      "index", "emit", "address", "call", "save", "combine", "update"}
  PROVE  /\ p \in Point /\ q \in Point /\ Stacked(ops, p) /\ Leads(Tail(todo), q)
         /\ Stack(p, q, Takes(Task), Leaves(Task))
         /\ Writable(me, me.current)
         /\ \A n : SameFlow(me, n) => Placed(n, q)
<1>1. /\ p \in Point /\ q \in Point /\ Stacked(ops, p) /\ Leads(Tail(todo), q) /\ Placed(me, p)
      /\ Stack(p, q, Takes(Task), Leaves(Task)) /\ Flow(Task, p, q)
      /\ q.depth = p.depth + Loops(Task)
  BY DEF Between, Effect
<1>2. Stays(p, q) \/ (p.flag = "join" /\ q.flag = "join" /\ q.at = p.at)
  BY <1>1 DEF Flow
<1>3. q.pend = p.pend
  BY <1>1 DEF Flow
<1>4. q.depth = p.depth
  <2>1. Loops(Task) = 0 /\ p.depth \in Nat
    BY <1>1 DEF Loops, Point
  <2> QED
    BY <1>1, <2>1
<1>5. Writable(me, me.current)
  BY <1>1, <1>2 DEF Placed, Stays
<1>6. BuilderOK(me)
  BY NowBetween
<1>7. ASSUME NEW n, SameFlow(me, n)
      PROVE  Placed(n, q)
  BY <1>1, <1>2, <1>3, <1>4, <1>6, <1>7, PlacedSame
<1> QED
  BY <1>1, <1>5, <1>7

\* ... and only put a value.
LEMMA StepPutOperand ==
  ASSUME Inv, PutOperand
  PROVE  Inv' /\ Keeps(me, me')
<1>1. /\ Running /\ Task.do = "put" /\ Then(<<>>) /\ ops' = <<Task.x>> \o ops
      /\ me' = me /\ pc' = pc
  BY DEF PutOperand, Doing
<1>2. BuilderOK(me) /\ OpsOK(me, ops) /\ ValueIn(me, Task.x)
  BY <1>1, NowBetween DEF TaskOK
<1>3. PICK p, q : Between(p, q)
  BY <1>1, NowBetween
<1>4. /\ p \in Point /\ q \in Point /\ Stacked(ops, p) /\ Leads(Tail(todo), q)
      /\ Stack(p, q, <<>>, <<KindOf(Task.x)>>) /\ \A n : SameFlow(me, n) => Placed(n, q)
  BY <1>1, <1>3, StaysInBlock DEF Takes, Leaves
<1>5. Keeps(me, me') /\ SameFlow(me, me') /\ BuilderOK(me')
  BY <1>1, <1>2, KeepsSame
<1>6. OpsOK(me', ops') /\ Stacked(ops', q)
  <2> DEFINE out == <<KindOf(Task.x)>>
             r == <<Task.x>>
  <2>1. KindOf(Task.x) \in Kind
    BY DEF KindOf, Kind
  <2>2. out \in Seq(Kind) /\ <<>> \in Seq(Kind) /\ Puts(me', r, out) /\ Stack(p, q, <<>>, out)
    <3>1. Puts(me', r, out)
      BY <1>1, <1>2, <2>1, PutsOne
    <3> QED
      BY <1>4, <2>1, <3>1
  <2> HIDE DEF out, r
  <2>3. Replaces(me, me', ops, p, q, <<>>, out, r)
    BY <1>2, <1>4, <1>5, <2>2, OpsStay DEF Replaces
  <2>4. SubSeq(ops, Len(<<>>) + 1, Len(ops)) = ops
    <3>1. IsSequence(ops) /\ Len(ops) \in Nat
      BY <1>2, SequenceElim DEF OpsOK
    <3>2. /\ IsSequence(SubSeq(ops, 0 + 1, Len(ops))) /\ Len(SubSeq(ops, 0 + 1, Len(ops))) = Len(ops) - 0
          /\ \A i \in 1 .. Len(ops) - 0 : SubSeq(ops, 0 + 1, Len(ops))[i] = ops[0 + i]
      BY <3>1, SequenceDrop
    <3>3. Len(SubSeq(ops, 0 + 1, Len(ops))) = Len(ops)
          /\ \A i \in 1 .. Len(ops) : SubSeq(ops, 0 + 1, Len(ops))[i] = ops[i]
      BY <3>1, <3>2
    <3> QED
      BY <3>1, <3>2, <3>3, SequencesEqual, SequenceEmpty
  <2>5. ops' = r \o SubSeq(ops, Len(<<>>) + 1, Len(ops))
    BY <1>1, <2>4 DEF r
  <2> QED
    BY <2>3, <2>5, OpsReplaced
<1> QED
  BY <1>1, <1>4, <1>5, <1>6, ContinueAfter

LEMMA OperandsTaken ==
  ASSUME NEW m, NEW n, ValuesStay(m, n), OpsOK(m, ops), NEW p \in Point, NEW q \in Point,
         Stacked(ops, p), NEW k \in Nat, Stack(p, q, Operands(k), <<"operand">>),
         NEW x, OperandIn(n, x)
  PROVE  /\ OpsOK(n, <<x>> \o Drop(k)) /\ Stacked(<<x>> \o Drop(k), q)
         /\ OperandsIn(m, LastOps(k))
         /\ k <= Len(ops) /\ IsSequence(ops)
<1> DEFINE in == Operands(k)
           out == <<"operand">>
           r == <<x>>
<1>1. in \in Seq(Kind) /\ Len(in) = k /\ out \in Seq(Kind) /\ \A i \in 1 .. k : in[i] = "operand"
  <2>1. in \in [1 .. k -> Kind] /\ \A i \in 1 .. k : in[i] = "operand"
    BY DEF Operands, Kind
  <2>2. in \in Seq(Kind)
    BY <2>1, SeqDef
  <2>3. Len(in) = k
    BY <2>1, <2>2, LenProperties
  <2> QED
    BY <2>1, <2>2, <2>3 DEF Kind
<1>2. Puts(n, r, out)
  BY Values, PutsOne DEF Kind
<1>3. Stack(p, q, in, out)
  OBVIOUS
<1> HIDE DEF in, out, r
<1>4. Replaces(m, n, ops, p, q, in, out, r)
  BY <1>1, <1>2, <1>3 DEF Replaces
<1>5. OpsOK(n, r \o SubSeq(ops, Len(in) + 1, Len(ops))) /\ Stacked(r \o SubSeq(ops, Len(in) + 1, Len(ops)), q)
  BY <1>4, OpsReplaced
<1>6. OpsOK(n, <<x>> \o Drop(k)) /\ Stacked(<<x>> \o Drop(k), q)
  BY <1>1, <1>5 DEF Drop, r
<1>7. /\ IsSequence(ops) /\ Len(ops) \in Nat /\ Len(in) <= Len(ops)
      /\ \A i \in 1 .. Len(in) :
           /\ KindOf(ops[i]) = in[Len(in) + 1 - i]
           /\ KindOf(ops[i]) = "operand" => OperandIn(m, ops[i])
  BY <1>1, <1>3, OpsOnTop, ZenonT(40)
<1>8. \A i \in 1 .. k : OperandIn(m, ops[i])
  <2>1. \A i \in 1 .. k : k + 1 - i \in 1 .. k
    OBVIOUS
  <2> QED
    BY <1>1, <1>7, <2>1
<1>9. OperandsIn(m, LastOps(k))
  <2> DEFINE top == SubSeq(ops, 1, k)
  <2>1. 1 \in 1 .. Len(ops) + 1 /\ k \in 1 - 1 .. Len(ops) /\ k - 1 + 1 = k
    BY <1>1, <1>7
  <2>2. /\ IsSequence(top) /\ Len(top) = k - 1 + 1
        /\ \A i \in 1 .. k - 1 + 1 : top[i] = ops[1 + i - 1]
    BY <1>7, <2>1, SequenceSub
  <2>3. \A i \in 1 .. k : 1 + i - 1 = i /\ k + 1 - i \in 1 .. k
    OBVIOUS
  <2>4. IsSequence(top) /\ Len(top) = k /\ \A i \in 1 .. k : OperandIn(m, top[i])
    BY <1>8, <2>1, <2>2, <2>3
  <2> HIDE DEF top
  <2>5. /\ IsSequence(Reverse(top)) /\ Len(Reverse(top)) = Len(top)
        /\ \A i \in 1 .. Len(top) : Reverse(top)[i] = top[Len(top) + 1 - i]
    BY <2>4, SequenceReverse
  <2>6. OperandsIn(m, Reverse(top))
    BY <2>3, <2>4, <2>5 DEF OperandsIn
  <2> QED
    BY <2>6 DEF LastOps, top
<1> QED
  BY <1>1, <1>6, <1>7, <1>9

LEMMA StepDropOperands ==
  ASSUME Inv, DropOperands
  PROVE  Inv' /\ Keeps(me, me')
<1>1. /\ Running /\ Then(<<>>) /\ me' = me /\ pc' = pc
      /\ \/ Task.do = "discard" /\ ops' = Tail(ops)
         \/ Task.do = "keep_last" /\ ops' = <<Head(ops)>> \o Drop(Task.n)
  BY DEF DropOperands, Doing
<1>2. BuilderOK(me) /\ OpsOK(me, ops) /\ TaskOK(me, Task)
  BY <1>1, NowBetween
<1>3. PICK p, q : Between(p, q)
  BY <1>1, NowBetween
<1>4. /\ p \in Point /\ q \in Point /\ Stacked(ops, p) /\ Leads(Tail(todo), q)
      /\ Stack(p, q, Takes(Task), Leaves(Task)) /\ \A n : SameFlow(me, n) => Placed(n, q)
  BY <1>1, <1>3, StaysInBlock
<1>5. Keeps(me, me') /\ SameFlow(me, me') /\ BuilderOK(me') /\ ValuesStay(me, me')
  BY <1>1, <1>2, KeepsSame DEF ValuesStay
<1>6. CASE Task.do = "discard"
  <2>1. Stack(p, q, <<"operand">>, <<>>) /\ "operand" \in Kind /\ <<>> \in Seq(Kind)
    BY <1>4, <1>6 DEF Takes, Leaves, Kind
  <2>2. ops' = Tail(ops)
    BY <1>1, <1>6
  <2>3. OpsOK(me', ops') /\ Stacked(ops', q)
    BY <1>2, <1>4, <1>5, <2>1, <2>2, PutsNothing, OneReplaced
  <2> QED
    BY <1>1, <1>4, <1>5, <2>3, ContinueAfter
<1>7. CASE Task.do = "keep_last"
  <2>1. Stack(p, q, Operands(Task.n), <<"operand">>) /\ Task.n \in Nat \ {0}
    BY <1>2, <1>4, <1>7 DEF Takes, Leaves, TaskOK
  <2>2. ops' = <<Head(ops)>> \o Drop(Task.n)
    BY <1>1, <1>7
  <2>3. OperandsIn(me, LastOps(Task.n)) /\ Task.n <= Len(ops) /\ IsSequence(ops)
    BY <1>2, <1>4, <2>1, Values, OperandsTaken DEF ValuesStay
  <2>4. OperandIn(me, Head(ops))
    <3> DEFINE k == Task.n
               top == SubSeq(ops, 1, k)
    <3>1. Len(ops) \in Nat /\ ops # <<>> /\ Head(ops) = ops[1]
      BY <2>1, <2>3, SequenceElim, TailIsSub
    <3>2. 1 \in 1 .. Len(ops) + 1 /\ k \in 1 - 1 .. Len(ops) /\ k - 1 + 1 = k /\ k \in 1 .. k
      BY <2>1, <2>3, <3>1
    <3>3. /\ IsSequence(top) /\ Len(top) = k - 1 + 1
          /\ \A i \in 1 .. k - 1 + 1 : top[i] = ops[1 + i - 1]
      BY <2>3, <3>2, SequenceSub
    <3>4. IsSequence(top) /\ Len(top) = k /\ top[1] = ops[1]
      <4>1. 1 \in 1 .. k - 1 + 1 /\ 1 + 1 - 1 = 1
        BY <2>1
      <4> QED
        BY <3>2, <3>3, <4>1
    <3>5. LastOps(k) = Reverse(top)
      BY DEF LastOps
    <3> HIDE DEF top, k
    <3>6. Len(Reverse(top)) = k /\ Reverse(top)[k] = top[k + 1 - k]
      BY <3>2, <3>4, SequenceReverse
    <3>7. k + 1 - k = 1
      BY <2>1 DEF k
    <3> QED
      BY <2>3, <3>1, <3>2, <3>4, <3>5, <3>6, <3>7 DEF OperandsIn, k
  <2>5. OpsOK(me', ops') /\ Stacked(ops', q)
    BY <1>1, <1>2, <1>4, <1>5, <2>1, <2>2, <2>4, OperandsTaken
  <2> QED
    BY <1>1, <1>4, <1>5, <2>5, ContinueAfter
<1> QED
  BY <1>1, <1>6, <1>7

LEMMA StepStoreOperand ==
  ASSUME Inv, StoreOperand
  PROVE  Inv' /\ Keeps(me, me')
<1>1. /\ Running /\ Then(<<>>) /\ pc' = pc /\ Task.do = "store" /\ ops' = Tail(ops)
      /\ me' = PushStmt(me, Assign(FromLocal(Task.local), "use", <<Head(ops)>>))
  BY DEF StoreOperand, Doing
<1>2. BuilderOK(me) /\ OpsOK(me, ops) /\ Task.local \in Locals(me)
  BY <1>1, NowBetween DEF TaskOK
<1>3. PICK p, q : Between(p, q)
  BY <1>1, NowBetween
<1>4. /\ p \in Point /\ q \in Point /\ Stacked(ops, p) /\ Leads(Tail(todo), q)
      /\ Stack(p, q, <<"operand">>, <<>>) /\ Writable(me, me.current)
      /\ \A n : SameFlow(me, n) => Placed(n, q)
  BY <1>1, <1>3, StaysInBlock DEF Takes, Leaves
<1>5. "operand" \in Kind /\ <<>> \in Seq(Kind)
  BY DEF Kind
<1>6. OperandIn(me, Head(ops))
  BY <1>2, <1>4, <1>5, TopOne
<1>7. BuilderOK(me') /\ Keeps(me, me') /\ SameFlow(me, me')
  <2>1. StatementIn(me, Assign(FromLocal(Task.local), "use", <<Head(ops)>>))
    BY <1>2, <1>6, Values, Statements
  <2> QED
    BY <1>1, <1>2, <1>4, <2>1, PushStmtOK
<1>8. OpsOK(me', ops') /\ Stacked(ops', q)
  BY <1>1, <1>2, <1>4, <1>5, <1>7, PutsNothing, OneReplaced, OpsStay
<1> QED
  BY <1>1, <1>4, <1>7, <1>8, ContinueAfter

LEMMA StepReadIt ==
  ASSUME Inv, ReadIt
  PROVE  Inv' /\ Keeps(me, me')
<1> DEFINE x == ReadPlace(ops[1], Task.own)
<1>1. /\ Running /\ Then(<<>>) /\ me' = me /\ pc' = pc
      /\ \/ Task.do = "read" /\ ops' = <<x>> \o Tail(ops)
         \/ Task.do = "peek" /\ ops' = <<x>> \o ops
  BY DEF ReadIt, Doing
<1>2. BuilderOK(me) /\ OpsOK(me, ops)
  BY <1>1, NowBetween
<1>3. PICK p, q : Between(p, q)
  BY <1>1, NowBetween
<1>4. /\ p \in Point /\ q \in Point /\ Stacked(ops, p) /\ Leads(Tail(todo), q)
      /\ Stack(p, q, <<"place">>, Leaves(Task)) /\ \A n : SameFlow(me, n) => Placed(n, q)
  BY <1>1, <1>3, StaysInBlock DEF Takes
<1>5. Keeps(me, me') /\ SameFlow(me, me') /\ BuilderOK(me') /\ ValuesStay(me, me')
  BY <1>1, <1>2, KeepsSame DEF ValuesStay
<1>6. /\ "place" \in Kind /\ "operand" \in Kind
      /\ <<"operand">> \in Seq(Kind) /\ <<"place", "operand">> \in Seq(Kind)
  BY DEF Kind
<1>7. IsSequence(ops) /\ 1 <= Len(ops) /\ PlaceIn(me, ops[1])
  BY <1>2, <1>4, <1>6, TopOne
<1>8. /\ OperandIn(me, x) /\ ValueIn(me, x) /\ KindOf(x) = "operand"
      /\ ValueIn(me, ops[1]) /\ KindOf(ops[1]) = "place"
  BY <1>7, Values
<1> HIDE DEF x
<1>9. OpsOK(me', ops') /\ Stacked(ops', q)
  <2>1. CASE Task.do = "read"
    <3>1. Stack(p, q, <<"place">>, <<"operand">>) /\ ops' = <<x>> \o Tail(ops)
      BY <1>1, <1>4, <2>1 DEF Leaves
    <3>2. Puts(me', <<x>>, <<"operand">>)
      BY <1>1, <1>6, <1>8, PutsOne
    <3> QED
      BY <1>2, <1>4, <1>5, <1>6, <3>1, <3>2, OneReplaced
  <2>2. CASE Task.do = "peek"
    <3>1. Stack(p, q, <<"place">>, <<"place", "operand">>) /\ ops' = <<x>> \o ops
      BY <1>1, <1>4, <2>2 DEF Leaves
    <3>2. Puts(me', <<x, ops[1]>>, <<"place", "operand">>)
      BY <1>1, <1>6, <1>8, PutsTwo
    <3>3. <<x>> \o ops = <<x, ops[1]>> \o Tail(ops)
      BY <1>7, ConsTail
    <3> QED
      BY <1>2, <1>4, <1>5, <1>6, <3>1, <3>2, <3>3, OneReplaced
  <2> QED
    BY <1>1, <2>1, <2>2
<1> QED
  BY <1>1, <1>4, <1>5, <1>9, ContinueAfter

\* n is m after a statement that writes a new temp.
Emitted(m, n) ==
  /\ BuilderOK(n) /\ Keeps(m, n) /\ SameFlow(m, n) /\ ValuesStay(m, n)
  /\ PlaceIn(n, FromLocal(NextLocal(m)))

LEMMA EmittedOK ==
  ASSUME NEW m, BuilderOK(m), Writable(m, m.current), NEW own
  PROVE  /\ \A op, reads : OperandsIn(m, reads) => Emitted(m, EmitRvalue(m, op, reads, own))
         /\ \A pl : PlaceIn(m, pl) =>
              Emitted(m, PushStmt(FreshTemp(m, own), AddressOf(FromLocal(NextLocal(m)), pl)))
         /\ \A reads : OperandsIn(m, reads) =>
              Emitted(m, PushStmt(FreshTemp(m, own), CallStmt(<<FromLocal(NextLocal(m))>>, reads)))
<1> DEFINE f == FreshTemp(m, own)
           dest == FromLocal(NextLocal(m))
<1>1. BuilderOK(f) /\ Keeps(m, f) /\ NextLocal(m) \in Locals(f)
  BY NewLocalOK DEF FreshTemp
<1>2. /\ PlaceIn(f, dest)
      /\ \A pl : PlaceIn(m, pl) => PlaceIn(f, pl)
      /\ \A reads : OperandsIn(m, reads) => OperandsIn(f, reads)
  <2>1. PlaceIn(f, dest)
    BY <1>1, Values
  <2>2. /\ \A pl : PlaceIn(m, pl) => PlaceIn(f, pl)
        /\ \A o : OperandIn(m, o) => OperandIn(f, o)
    <3>1. Len(f.blocks) \in Nat /\ Len(f.locals) \in Nat
      BY <1>1, BuilderIs
    <3> QED
      BY <1>1, <3>1, InRangeStays DEF Keeps
  <2> QED
    BY <2>1, <2>2 DEF OperandsIn
<1> HIDE DEF f, dest
<1>3. ASSUME NEW s, StatementIn(f, s)
      PROVE  Emitted(m, PushStmt(f, s))
  <2>1. /\ BuilderOK(PushStmt(f, s)) /\ Keeps(m, PushStmt(f, s)) /\ SameFlow(m, PushStmt(f, s))
        /\ NextLocal(m) \in Locals(PushStmt(f, s))
    BY <1>3, NewTempOK DEF f
  <2>2. PlaceIn(PushStmt(f, s), FromLocal(NextLocal(m)))
    BY <2>1, Values
  <2> QED
    BY <2>1, <2>2, OpsStay DEF Emitted
<1>4. ASSUME NEW op, NEW reads, OperandsIn(m, reads)
      PROVE  Emitted(m, EmitRvalue(m, op, reads, own))
  <2>1. StatementIn(f, Assign(dest, op, reads))
    BY <1>2, <1>4, Statements
  <2> QED
    BY <1>3, <2>1 DEF EmitRvalue, f, dest
<1>5. ASSUME NEW pl, PlaceIn(m, pl)
      PROVE  Emitted(m, PushStmt(f, AddressOf(dest, pl)))
  BY <1>2, <1>3, <1>5, Statements
<1>6. ASSUME NEW reads, OperandsIn(m, reads)
      PROVE  Emitted(m, PushStmt(f, CallStmt(<<dest>>, reads)))
  BY <1>2, <1>3, <1>6, Statements
<1> QED
  BY <1>4, <1>5, <1>6 DEF f, dest

LEMMA StepMaterialize ==
  ASSUME Inv, MaterializeOperand
  PROVE  Inv' /\ Keeps(me, me')
<1> DEFINE local == ops[1].mode # "Const" /\ ops[1].place.proj = <<>>
           pl == IF local THEN ops[1].place ELSE FromLocal(NextLocal(me))
<1>1. /\ Running /\ Then(<<>>) /\ pc' = pc /\ Task.do = "materialize" /\ ops' = <<pl>> \o Tail(ops)
      /\ me' = IF local THEN me ELSE EmitRvalue(me, "use", <<ops[1]>>, Task.own)
  BY DEF MaterializeOperand, Doing
<1>2. BuilderOK(me) /\ OpsOK(me, ops)
  BY <1>1, NowBetween
<1>3. PICK p, q : Between(p, q)
  BY <1>1, NowBetween
<1>4. /\ p \in Point /\ q \in Point /\ Stacked(ops, p) /\ Leads(Tail(todo), q)
      /\ Stack(p, q, <<"operand">>, <<"place">>) /\ Writable(me, me.current)
      /\ \A n : SameFlow(me, n) => Placed(n, q)
  BY <1>1, <1>3, StaysInBlock DEF Takes, Leaves
<1>5. "operand" \in Kind /\ "place" \in Kind /\ <<"place">> \in Seq(Kind)
  BY DEF Kind
<1>6. OperandIn(me, ops[1])
  BY <1>2, <1>4, <1>5, TopOne
<1>7. BuilderOK(me') /\ Keeps(me, me') /\ SameFlow(me, me') /\ ValuesStay(me, me') /\ PlaceIn(me', pl)
  <2>1. CASE local
    <3>1. PlaceIn(me, ops[1].place)
      <4>1. ops[1] # Const(ops[1].const)
        BY <2>1 DEF Const
      <4> QED
        BY <1>6, <4>1 DEF OperandIn
    <3> QED
      BY <1>1, <1>2, <2>1, <3>1, KeepsSame DEF ValuesStay
  <2>2. CASE ~ local
    <3>1. me' = EmitRvalue(me, "use", <<ops[1]>>, Task.own) /\ pl = FromLocal(NextLocal(me))
      BY <1>1, <2>2
    <3>2. OperandsIn(me, <<ops[1]>>)
      BY <1>6, Statements
    <3> QED
      BY <1>2, <1>4, <3>1, <3>2, EmittedOK DEF Emitted
  <2> QED
    BY <2>1, <2>2
<1> HIDE DEF pl, local
<1>8. Puts(me', <<pl>>, <<"place">>)
  BY <1>5, <1>7, Values, PutsOne
<1>9. OpsOK(me', ops') /\ Stacked(ops', q)
  BY <1>1, <1>2, <1>4, <1>5, <1>7, <1>8, OneReplaced
<1> QED
  BY <1>1, <1>4, <1>7, <1>9, ContinueAfter

LEMMA Projects ==
  ASSUME NEW m, BuilderOK(m), NEW pl, PlaceIn(m, pl)
  PROVE  /\ PlaceIn(m, Project(pl, Deref))
         /\ \A l \in Locals(m) : PlaceIn(m, Project(pl, l))
<1> SUFFICES ASSUME NEW x \in Locals(m) \cup {Deref}
             PROVE  PlaceIn(m, Project(pl, x))
  OBVIOUS
<1> DEFINE s == Append(pl.proj, x)
<1>1. /\ pl = [local |-> pl.local, proj |-> pl.proj] /\ IsSequence(pl.proj)
      /\ pl.local \in Locals(m) /\ Range(pl.proj) \subseteq Locals(m) \cup {Deref}
  BY DEF PlaceIn, IsPlaceOf
<1>2. Project(pl, x) = [local |-> pl.local, proj |-> s]
  <2>1. Project(pl, x) = [pl EXCEPT !.proj = s]
    BY DEF Project
  <2> HIDE DEF s
  <2> QED
    BY <1>1, <2>1
<1>3. IsSequence(s) /\ s \in Seq(Locals(m) \cup {Deref})
  <2>1. IsSequence(s)
    BY <1>1, SequenceAppend
  <2>2. pl.proj \in Seq(Locals(m) \cup {Deref})
    <3>1. \A i \in 1 .. Len(pl.proj) : pl.proj[i] \in Locals(m) \cup {Deref}
      BY <1>1, SequenceElim
    <3> QED
      BY <1>1, <3>1, SequenceOver
  <2> QED
    BY <2>1, <2>2, AppendProperties
<1> HIDE DEF s
<1>4. Range(s) \subseteq Locals(m) \cup {Deref}
  <2>1. \A i \in 1 .. Len(s) : s[i] \in Locals(m) \cup {Deref}
    BY <1>3, ElementOfSeq
  <2> QED
    BY <1>3, <2>1, SequenceElim
<1> QED
  BY <1>1, <1>2, <1>3, <1>4 DEF PlaceIn, IsPlaceOf

LEMMA StepProject ==
  ASSUME Inv, ProjectPlace
  PROVE  Inv' /\ Keeps(me, me')
<1>1. /\ Running /\ Then(<<>>) /\ pc' = pc /\ me' = me
      /\ \/ Task.do = "deref" /\ ops' = <<Project(ops[1], Deref)>> \o Tail(ops)
         \/ /\ Task.do = "index"
            /\ ops' = <<Project(Project(ops[2], Deref), ops[1].local)>> \o Drop(2)
  BY DEF ProjectPlace, Doing
<1>2. BuilderOK(me) /\ OpsOK(me, ops)
  BY <1>1, NowBetween
<1>3. PICK p, q : Between(p, q)
  BY <1>1, NowBetween
<1>4. /\ p \in Point /\ q \in Point /\ Stacked(ops, p) /\ Leads(Tail(todo), q)
      /\ Stack(p, q, Takes(Task), Leaves(Task)) /\ \A n : SameFlow(me, n) => Placed(n, q)
  BY <1>1, <1>3, StaysInBlock
<1>5. "place" \in Kind /\ <<"place">> \in Seq(Kind)
  BY DEF Kind
<1>6. Keeps(me, me') /\ SameFlow(me, me') /\ BuilderOK(me') /\ ValuesStay(me, me')
  BY <1>1, <1>2, KeepsSame DEF ValuesStay
<1>7. \A pl : PlaceIn(me, pl) => Puts(me', <<pl>>, <<"place">>)
  BY <1>1, <1>5, Values, PutsOne
<1>8. OpsOK(me', ops') /\ Stacked(ops', q)
  <2>1. CASE Task.do = "deref"
    <3>1. Stack(p, q, <<"place">>, <<"place">>) /\ ops' = <<Project(ops[1], Deref)>> \o Tail(ops)
      BY <1>1, <1>4, <2>1 DEF Takes, Leaves
    <3>2. PlaceIn(me, ops[1])
      BY <1>2, <1>4, <1>5, <3>1, TopOne
    <3>3. Puts(me', <<Project(ops[1], Deref)>>, <<"place">>)
      BY <1>2, <1>7, <3>2, Projects
    <3> QED
      BY <1>2, <1>4, <1>5, <1>6, <3>1, <3>3, OneReplaced
  <2>2. CASE Task.do = "index"
    <3> DEFINE x == Project(Project(ops[2], Deref), ops[1].local)
    <3>1. Stack(p, q, <<"place", "place">>, <<"place">>) /\ ops' = <<x>> \o Drop(2)
      BY <1>1, <1>4, <2>2 DEF Takes, Leaves
    <3>2. PlaceIn(me, ops[1]) /\ PlaceIn(me, ops[2])
      BY <1>2, <1>4, <1>5, <3>1, TopTwo
    <3>3. ops[1].local \in Locals(me)
      BY <3>2 DEF PlaceIn, IsPlaceOf
    <3>4. PlaceIn(me, x)
      BY <1>2, <3>2, <3>3, Projects
    <3> HIDE DEF x
    <3>5. Puts(me', <<x>>, <<"place">>)
      BY <1>7, <3>4
    <3>6. /\ OpsOK(me', <<x>> \o SubSeq(ops, 2 + 1, Len(ops)))
          /\ Stacked(<<x>> \o SubSeq(ops, 2 + 1, Len(ops)), q)
      BY <1>2, <1>4, <1>5, <1>6, <3>1, <3>5, TwoReplaced
    <3> QED
      BY <3>1, <3>6 DEF Drop
  <2> QED
    BY <1>1, <2>1, <2>2
<1> QED
  BY <1>1, <1>4, <1>6, <1>8, ContinueAfter

LEMMA StepEmit ==
  ASSUME Inv, EmitIt
  PROVE  Inv' /\ Keeps(me, me')
<1> DEFINE dest == FromLocal(NextLocal(me))
           x == ReadPlace(dest, Task.own)
<1>1. /\ Running /\ Then(<<>>) /\ pc' = pc
      /\ \/ /\ Task.do = "emit" /\ me' = EmitRvalue(me, Task.op, LastOps(Task.n), Task.own)
            /\ ops' = <<x>> \o Drop(Task.n)
         \/ /\ Task.do = "address" /\ ops' = <<x>> \o Tail(ops)
            /\ me' = PushStmt(FreshTemp(me, Task.own), AddressOf(dest, ops[1]))
  BY DEF EmitIt, Doing
<1>2. BuilderOK(me) /\ OpsOK(me, ops) /\ TaskOK(me, Task)
  BY <1>1, NowBetween
<1>3. PICK p, q : Between(p, q)
  BY <1>1, NowBetween
<1>4. /\ p \in Point /\ q \in Point /\ Stacked(ops, p) /\ Leads(Tail(todo), q)
      /\ Stack(p, q, Takes(Task), Leaves(Task)) /\ Writable(me, me.current)
      /\ \A n : SameFlow(me, n) => Placed(n, q)
  BY <1>1, <1>3, StaysInBlock
<1>5. "place" \in Kind /\ "operand" \in Kind /\ <<"operand">> \in Seq(Kind)
  BY DEF Kind
<1>6. \A n : Emitted(me, n) => OperandIn(n, x)
  BY Values DEF Emitted
<1>7. CASE Task.do = "emit"
  <2> HIDE DEF x
  <2>1. /\ Stack(p, q, Operands(Task.n), <<"operand">>) /\ Task.n \in Nat
        /\ me' = EmitRvalue(me, Task.op, LastOps(Task.n), Task.own) /\ ops' = <<x>> \o Drop(Task.n)
    BY <1>1, <1>2, <1>4, <1>7 DEF Takes, Leaves, TaskOK
  <2>2. OperandsIn(me, LastOps(Task.n))
    BY <1>2, <1>4, <2>1, Values, OperandsTaken DEF ValuesStay
  <2>3. Emitted(me, me')
    BY <1>2, <1>4, <2>1, <2>2, EmittedOK
  <2>4. OpsOK(me', ops') /\ Stacked(ops', q)
    BY <1>2, <1>4, <1>6, <2>1, <2>3, OperandsTaken DEF Emitted
  <2> QED
    BY <1>1, <1>4, <2>3, <2>4, ContinueAfter DEF Emitted
<1>8. CASE Task.do = "address"
  <2>1. /\ Stack(p, q, <<"place">>, <<"operand">>) /\ ops' = <<x>> \o Tail(ops)
        /\ me' = PushStmt(FreshTemp(me, Task.own), AddressOf(dest, ops[1]))
    BY <1>1, <1>4, <1>8 DEF Takes, Leaves
  <2>2. PlaceIn(me, ops[1])
    BY <1>2, <1>4, <1>5, <2>1, TopOne
  <2>3. Emitted(me, me')
    BY <1>2, <1>4, <2>1, <2>2, EmittedOK
  <2> HIDE DEF x
  <2>4. Puts(me', <<x>>, <<"operand">>)
    BY <1>5, <1>6, <2>3, Values, PutsOne
  <2>5. OpsOK(me', ops') /\ Stacked(ops', q)
    BY <1>2, <1>4, <1>5, <2>1, <2>3, <2>4, OneReplaced DEF Emitted
  <2> QED
    BY <1>1, <1>4, <2>3, <2>5, ContinueAfter DEF Emitted
<1> QED
  BY <1>1, <1>7, <1>8

LEMMA StepCall ==
  ASSUME Inv, EmitTheCall
  PROVE  Inv' /\ Keeps(me, me')
<1> DEFINE dest == FromLocal(NextLocal(me))
           reads == LastOps(Task.n)
           x == IF Task.void THEN ErrorConst ELSE Copy(dest)
<1>1. /\ Running /\ Then(<<>>) /\ pc' = pc /\ Task.do = "call" /\ ops' = <<x>> \o Drop(Task.n)
      /\ me' = IF Task.void THEN PushStmt(me, CallStmt(<<>>, reads))
               ELSE PushStmt(FreshTemp(me, Task.own), CallStmt(<<dest>>, reads))
  BY DEF EmitTheCall, Doing
<1>2. BuilderOK(me) /\ OpsOK(me, ops) /\ Task.n \in Nat
  BY <1>1, NowBetween DEF TaskOK
<1>3. PICK p, q : Between(p, q)
  BY <1>1, NowBetween
<1>4. /\ p \in Point /\ q \in Point /\ Stacked(ops, p) /\ Leads(Tail(todo), q)
      /\ Stack(p, q, Operands(Task.n), <<"operand">>) /\ Writable(me, me.current)
      /\ \A n : SameFlow(me, n) => Placed(n, q)
  BY <1>1, <1>3, StaysInBlock DEF Takes, Leaves
<1>5. OperandsIn(me, reads)
  BY <1>2, <1>4, Values, OperandsTaken DEF ValuesStay
<1>6. /\ BuilderOK(me') /\ Keeps(me, me') /\ SameFlow(me, me') /\ ValuesStay(me, me')
      /\ OperandIn(me', x)
  <2> HIDE DEF reads
  <2>1. CASE Task.void
    <3>1. StatementIn(me, CallStmt(<<>>, reads)) /\ me' = PushStmt(me, CallStmt(<<>>, reads))
      BY <1>1, <1>5, <2>1, Statements
    <3>2. BuilderOK(me') /\ Keeps(me, me') /\ SameFlow(me, me')
      BY <1>2, <1>4, <3>1, PushStmtOK
    <3> QED
      BY <1>2, <2>1, <3>2, OpsStay, Values
  <2>2. CASE ~ Task.void
    <3>1. Emitted(me, me')
      BY <1>1, <1>2, <1>4, <1>5, <2>2, EmittedOK
    <3> QED
      BY <2>2, <3>1, Values DEF Emitted
  <2> QED
    BY <2>1, <2>2
<1> HIDE DEF x, dest, reads
<1>7. OpsOK(me', ops') /\ Stacked(ops', q)
  BY <1>1, <1>2, <1>4, <1>6, OperandsTaken
<1> QED
  BY <1>1, <1>4, <1>6, <1>7, ContinueAfter

LEMMA StepSave ==
  ASSUME Inv, SaveOld
  PROVE  Inv' /\ Keeps(me, me')
<1> DEFINE x == Copy(FromLocal(NextLocal(me)))
<1>1. /\ Running /\ Then(<<>>) /\ pc' = pc /\ Task.do = "save" /\ ops' = <<ops[2], x>> \o Drop(2)
      /\ me' = EmitRvalue(me, "use", <<ops[1]>>, Task.own)
  BY DEF SaveOld, Doing
<1>2. BuilderOK(me) /\ OpsOK(me, ops)
  BY <1>1, NowBetween
<1>3. PICK p, q : Between(p, q)
  BY <1>1, NowBetween
<1>4. /\ p \in Point /\ q \in Point /\ Stacked(ops, p) /\ Leads(Tail(todo), q)
      /\ Stack(p, q, <<"place", "operand">>, <<"operand", "place">>) /\ Writable(me, me.current)
      /\ \A n : SameFlow(me, n) => Placed(n, q)
  BY <1>1, <1>3, StaysInBlock DEF Takes, Leaves
<1>5. "place" \in Kind /\ "operand" \in Kind /\ <<"operand", "place">> \in Seq(Kind)
  BY DEF Kind
<1>6. OperandIn(me, ops[1]) /\ PlaceIn(me, ops[2])
  BY <1>2, <1>4, <1>5, TopTwo
<1>7. Emitted(me, me')
  BY <1>1, <1>2, <1>4, <1>6, Statements, EmittedOK
<1>8. OperandIn(me', x) /\ ValueIn(me', ops[2]) /\ KindOf(ops[2]) = "place"
  BY <1>6, <1>7, Values DEF Emitted, ValuesStay
<1> HIDE DEF x
<1>9. Puts(me', <<ops[2], x>>, <<"operand", "place">>)
  BY <1>5, <1>8, Values, PutsTwo
<1>10. OpsOK(me', ops') /\ Stacked(ops', q)
  <2>1. /\ OpsOK(me', <<ops[2], x>> \o SubSeq(ops, 2 + 1, Len(ops)))
        /\ Stacked(<<ops[2], x>> \o SubSeq(ops, 2 + 1, Len(ops)), q)
    BY <1>2, <1>4, <1>5, <1>7, <1>9, TwoReplaced DEF Emitted
  <2> QED
    BY <1>1, <2>1 DEF Drop
<1> QED
  BY <1>1, <1>4, <1>7, <1>10, ContinueAfter DEF Emitted

\* Only the value on top is replaced.
LEMMA StackOnTop ==
  ASSUME NEW p \in Point, NEW q \in Point, NEW j \in Kind, NEW k \in Kind, NEW l \in Kind,
         Stack(p, q, <<j, k>>, <<j, l>>)
  PROVE  Stack(p, q, <<k>>, <<l>>)
<1> DEFINE h == p.height
<1>1. h \in Nat
  BY DEF Point
<1>2. /\ Len(<<j, k>>) = 2 /\ Len(<<j, l>>) = 2 /\ Len(<<k>>) = 1 /\ Len(<<l>>) = 1
      /\ <<j, k>>[1] = j /\ <<j, k>>[2] = k /\ <<j, l>>[1] = j /\ <<j, l>>[2] = l
      /\ <<k>>[1] = k /\ <<l>>[1] = l
  BY SequenceOne, SequenceTwo
<1>3. /\ 2 <= h /\ q.height = h - 2 + 2
      /\ \A i \in 1 .. 2 : p.kinds[h - 2 + i] = <<j, k>>[i]
      /\ \A i \in 1 .. 2 : q.kinds[h - 2 + i] = <<j, l>>[i]
      /\ \A i \in 1 .. h - 2 : q.kinds[i] = p.kinds[i]
  BY <1>2 DEF Stack
<1>4. /\ p.kinds[h - 1] = j /\ p.kinds[h] = k /\ q.kinds[h - 1] = j /\ q.kinds[h] = l
  <2>1. 1 \in 1 .. 2 /\ 2 \in 1 .. 2 /\ h - 2 + 1 = h - 1 /\ h - 2 + 2 = h
    BY <1>1
  <2>2. /\ p.kinds[h - 2 + 1] = j /\ p.kinds[h - 2 + 2] = k
        /\ q.kinds[h - 2 + 1] = j /\ q.kinds[h - 2 + 2] = l
    BY <1>2, <1>3, <2>1
  <2> QED
    BY <2>1, <2>2
<1> HIDE DEF h
<1>5. 1 <= h /\ q.height = h - 1 + 1
  BY <1>1, <1>3
<1>6. \A i \in 1 .. 1 : i = 1 /\ h - 1 + i = h
  BY <1>1
<1>7. \A i \in 1 .. h - 1 : q.kinds[i] = p.kinds[i]
  <2>1. \A i \in 1 .. h - 1 : i \in 1 .. h - 2 \/ i = h - 1
    BY <1>1
  <2> QED
    BY <1>3, <1>4, <2>1
<1> QED
  BY <1>2, <1>4, <1>5, <1>6, <1>7 DEF Stack, h

LEMMA StepCombine ==
  ASSUME Inv, CombineWithOld
  PROVE  Inv' /\ Keeps(me, me')
<1> DEFINE x == ReadPlace(FromLocal(NextLocal(me)), Task.own)
           reads == <<ReadPlace(ops[2], Task.own), ops[1]>>
<1>1. /\ Running /\ Then(<<>>) /\ pc' = pc /\ Task.do = "combine" /\ ops' = <<x>> \o Tail(ops)
      /\ me' = EmitRvalue(me, Task.op, reads, Task.own)
  BY DEF CombineWithOld, Doing
<1>2. BuilderOK(me) /\ OpsOK(me, ops)
  BY <1>1, NowBetween
<1>3. PICK p, q : Between(p, q)
  BY <1>1, NowBetween
<1>4. /\ p \in Point /\ q \in Point /\ Stacked(ops, p) /\ Leads(Tail(todo), q)
      /\ Stack(p, q, <<"place", "operand">>, <<"place", "operand">>) /\ Writable(me, me.current)
      /\ \A n : SameFlow(me, n) => Placed(n, q)
  BY <1>1, <1>3, StaysInBlock DEF Takes, Leaves
<1>5. "place" \in Kind /\ "operand" \in Kind /\ <<"operand">> \in Seq(Kind)
  BY DEF Kind
<1>6. OperandIn(me, ops[1]) /\ PlaceIn(me, ops[2])
  BY <1>2, <1>4, <1>5, TopTwo
<1>7. Emitted(me, me')
  <2>1. OperandIn(me, ReadPlace(ops[2], Task.own))
    BY <1>6, Values
  <2>2. OperandsIn(me, reads)
    BY <1>6, <2>1, Statements
  <2> QED
    BY <1>1, <1>2, <1>4, <2>2, EmittedOK
<1>8. OperandIn(me', x)
  BY <1>7, Values DEF Emitted
<1> HIDE DEF x, reads
<1>9. Puts(me', <<x>>, <<"operand">>)
  BY <1>5, <1>8, Values, PutsOne
<1>10. Stack(p, q, <<"operand">>, <<"operand">>)
  BY <1>4, <1>5, StackOnTop
<1>11. OpsOK(me', ops') /\ Stacked(ops', q)
  BY <1>1, <1>2, <1>4, <1>5, <1>7, <1>9, <1>10, OneReplaced DEF Emitted
<1> QED
  BY <1>1, <1>4, <1>7, <1>11, ContinueAfter DEF Emitted

LEMMA StepUpdate ==
  ASSUME Inv, UpdatePlace
  PROVE  Inv' /\ Keeps(me, me')
<1> DEFINE r == CASE Task.result = "value" -> <<ops[1]>>
                  [] Task.result = "place" -> <<Copy(ops[2])>>
                  [] Task.result = "none" -> <<>>
           out == IF Task.result = "none" THEN <<>> ELSE <<"operand">>
<1>1. /\ Running /\ Then(<<>>) /\ pc' = pc /\ Task.do = "update" /\ ops' = r \o Drop(2)
      /\ me' = PushStmt(me, Assign(ops[2], "use", <<ops[1]>>))
  BY DEF UpdatePlace, Doing
<1>2. BuilderOK(me) /\ OpsOK(me, ops) /\ Task.result \in {"value", "place", "none"}
  BY <1>1, NowBetween DEF TaskOK
<1>3. PICK p, q : Between(p, q)
  BY <1>1, NowBetween
<1>4. /\ p \in Point /\ q \in Point /\ Stacked(ops, p) /\ Leads(Tail(todo), q)
      /\ Stack(p, q, <<"place", "operand">>, out) /\ Writable(me, me.current)
      /\ \A n : SameFlow(me, n) => Placed(n, q)
  BY <1>1, <1>3, StaysInBlock DEF Takes, Leaves
<1>5. "place" \in Kind /\ "operand" \in Kind /\ <<"operand">> \in Seq(Kind) /\ <<>> \in Seq(Kind)
  BY DEF Kind
<1>6. out \in Seq(Kind)
  BY <1>5
<1>7. OperandIn(me, ops[1]) /\ PlaceIn(me, ops[2])
  <2> HIDE DEF out
  <2> QED
    BY <1>2, <1>4, <1>5, TopTwo
<1>8. BuilderOK(me') /\ Keeps(me, me') /\ SameFlow(me, me')
  <2>1. StatementIn(me, Assign(ops[2], "use", <<ops[1]>>))
    BY <1>7, Statements
  <2> QED
    BY <1>1, <1>2, <1>4, <2>1, PushStmtOK
<1>9. ValuesStay(me, me')
  BY <1>2, <1>8, OpsStay
<1>10. Puts(me', r, out)
  <2>1. \A o : OperandIn(me, o) => Puts(me', <<o>>, <<"operand">>)
    BY <1>5, <1>9, Values, PutsOne DEF ValuesStay
  <2>2. OperandIn(me, Copy(ops[2]))
    BY <1>7, Values
  <2>3. CASE Task.result = "value"
    BY <1>7, <2>1, <2>3
  <2>4. CASE Task.result = "place"
    BY <2>1, <2>2, <2>4
  <2>5. CASE Task.result = "none"
    BY <2>5, PutsNothing
  <2> QED
    BY <1>2, <2>3, <2>4, <2>5
<1> HIDE DEF r, out
<1>11. OpsOK(me', ops') /\ Stacked(ops', q)
  <2>1. /\ OpsOK(me', r \o SubSeq(ops, 2 + 1, Len(ops)))
        /\ Stacked(r \o SubSeq(ops, 2 + 1, Len(ops)), q)
    BY <1>2, <1>4, <1>5, <1>6, <1>9, <1>10, TwoReplaced
  <2> QED
    BY <1>1, <2>1 DEF Drop
<1> QED
  BY <1>1, <1>4, <1>8, <1>11, ContinueAfter

-----------------------------------------------------------------------------
(* Tasks and their effects.                                                   *)

\* a holds x over the values of p.
Is(p, a, x, flag, depth, pend) ==
  /\ a \in Point /\ x \in Seq(Kind) /\ Over(p, a, x)
  /\ a.flag = flag /\ a.depth = depth /\ a.pend = pend

\* a is in that join block.
IsAt(a, block) == a.at = block

\* A point with x over the values of p.
At(p, x, flag, at, depth, pend) == [On(p, x, flag, pend) EXCEPT !.at = at, !.depth = depth]

LEMMA AtIs ==
  ASSUME NEW p \in Point, NEW x \in Seq(Kind), NEW flag \in Flag, NEW at, at \in Int,
         NEW depth, depth \in Nat, NEW pend \in SUBSET Int
  PROVE  /\ Is(p, At(p, x, flag, at, depth, pend), x, flag, depth, pend)
         /\ IsAt(At(p, x, flag, at, depth, pend), at)
<1> DEFINE a == On(p, x, flag, pend)
           b == At(p, x, flag, at, depth, pend)
<1>1. a \in Point /\ a.flag = flag /\ a.pend = pend /\ Over(p, a, x)
  BY OnIsPoint
<1>2. b = [a EXCEPT !.at = at, !.depth = depth]
  BY DEF At
<1> HIDE DEF a, b
<1>3. /\ b \in Point /\ b.kinds = a.kinds /\ b.height = a.height /\ b.flag = a.flag
      /\ b.pend = a.pend /\ b.at = at /\ b.depth = depth
  BY <1>1, <1>2 DEF Point
<1>4. Over(p, b, x)
  BY <1>1, <1>3, OverIs
<1> QED
  BY <1>1, <1>3, <1>4 DEF Is, IsAt, b

LEMMA TaskIsOK ==
  ASSUME NEW m
  PROVE  /\ \A ss \in Seq(HirStmt) : TaskOK(m, Block(ss))
         /\ \A s \in HirStmt : TaskOK(m, Stmt(s)) /\ (s.k = "for" => TaskOK(m, ForRest(s)))
         /\ \A d : IsDecl(d) => TaskOK(m, Decl(d))
         /\ \A e \in HirExpr : TaskOK(m, Expr(e)) /\ (PlaceExpr(m, e) => TaskOK(m, Place(e)))
         /\ \A b \in Blocks(m) : /\ TaskOK(m, Enter(b)) /\ TaskOK(m, Jump(Goto(b)))
                                 /\ TaskOK(m, Close(b))
         /\ TaskOK(m, Jump(Return))
         /\ \A b, c \in Blocks(m) : TaskOK(m, Branch(b, c)) /\ TaskOK(m, PushLoop(b, c))
         /\ TaskOK(m, PopLoop) /\ TaskOK(m, Discard)
         /\ \A x : ValueIn(m, x) => TaskOK(m, Put(x))
         /\ \A l \in Locals(m) : TaskOK(m, Store(l))
         /\ \A n \in Nat : (n # 0 => TaskOK(m, KeepLast(n)))
                           /\ \A x, y : TaskOK(m, Emit(x, n, y)) /\ TaskOK(m, EmitCall(n, x, y))
         /\ \A y : /\ TaskOK(m, Read(y)) /\ TaskOK(m, Peek(y)) /\ TaskOK(m, Materialize(y))
                   /\ TaskOK(m, EmitAddress(y)) /\ TaskOK(m, Save(y))
                   /\ \A x : TaskOK(m, Combine(x, y))
         /\ TaskOK(m, DerefIt) /\ TaskOK(m, IndexIt)
         /\ \A r \in {"value", "place", "none"} : TaskOK(m, Update(r))
<1>1. \A ss \in Seq(HirStmt) : TaskOK(m, Block(ss))
  BY DEF TaskOK, Block
<1>2. \A s \in HirStmt : TaskOK(m, Stmt(s)) /\ (s.k = "for" => TaskOK(m, ForRest(s)))
  BY DEF TaskOK, Stmt, ForRest
<1>3. \A d : IsDecl(d) => TaskOK(m, Decl(d))
  BY DEF TaskOK, Decl
<1>4. \A e \in HirExpr : TaskOK(m, Expr(e)) /\ (PlaceExpr(m, e) => TaskOK(m, Place(e)))
  BY DEF TaskOK, Expr, Place
<1>5. /\ \A b \in Blocks(m) : /\ TaskOK(m, Enter(b)) /\ TaskOK(m, Jump(Goto(b)))
                              /\ TaskOK(m, Close(b))
      /\ TaskOK(m, Jump(Return))
  BY DEF TaskOK, Enter, Jump, Close
<1>6. \A b, c \in Blocks(m) : TaskOK(m, Branch(b, c)) /\ TaskOK(m, PushLoop(b, c))
  BY DEF TaskOK, Branch, PushLoop
<1>7. TaskOK(m, PopLoop) /\ TaskOK(m, Discard) /\ TaskOK(m, DerefIt) /\ TaskOK(m, IndexIt)
  BY DEF TaskOK, PopLoop, Discard, DerefIt, IndexIt
<1>8. /\ \A x : ValueIn(m, x) => TaskOK(m, Put(x))
      /\ \A l \in Locals(m) : TaskOK(m, Store(l))
  BY DEF TaskOK, Put, Store
<1>9. \A n \in Nat : /\ n # 0 => TaskOK(m, KeepLast(n))
                     /\ \A x, y : TaskOK(m, Emit(x, n, y)) /\ TaskOK(m, EmitCall(n, x, y))
  BY DEF TaskOK, KeepLast, Emit, EmitCall
<1>10. \A y : /\ TaskOK(m, Read(y)) /\ TaskOK(m, Peek(y)) /\ TaskOK(m, Materialize(y))
              /\ TaskOK(m, EmitAddress(y)) /\ TaskOK(m, Save(y))
              /\ \A x : TaskOK(m, Combine(x, y))
  BY DEF TaskOK, Read, Peek, Materialize, EmitAddress, Save, Combine
<1>11. \A r \in {"value", "place", "none"} : TaskOK(m, Update(r))
  BY DEF TaskOK, Update
<1> QED
  BY <1>1, <1>2, <1>3, <1>4, <1>5, <1>6, <1>7, <1>8, <1>9, <1>10, <1>11

LEMMA TasksConcat ==
  ASSUME NEW m, NEW s, NEW t, TasksOK(m, s), TasksOK(m, t)
  PROVE  TasksOK(m, s \o t)
<1>1. IsSequence(s) /\ IsSequence(t)
  BY DEF TasksOK
<1>2. Len(s) \in Nat /\ Len(t) \in Nat
  BY <1>1, SequenceElim
<1>3. /\ IsSequence(s \o t) /\ Len(s \o t) = Len(s) + Len(t)
      /\ \A i \in 1 .. Len(s) : (s \o t)[i] = s[i]
      /\ \A i \in 1 .. Len(t) : (s \o t)[Len(s) + i] = t[i]
  BY <1>1, SequenceConcat
<1>4. ASSUME NEW i \in 1 .. Len(s) + Len(t)
      PROVE  TaskOK(m, (s \o t)[i])
  <2>1. CASE i <= Len(s)
    <3>1. i \in 1 .. Len(s)
      BY <1>2, <2>1
    <3> QED
      BY <1>3, <3>1 DEF TasksOK
  <2>2. CASE i > Len(s)
    <3>1. i - Len(s) \in 1 .. Len(t) /\ Len(s) + (i - Len(s)) = i
      BY <1>2, <2>2
    <3>2. (s \o t)[i] = t[i - Len(s)]
      BY <1>3, <3>1
    <3> QED
      BY <3>1, <3>2 DEF TasksOK
  <2> QED
    BY <1>2, <2>1, <2>2
<1> QED
  BY <1>3, <1>4 DEF TasksOK

LEMMA TasksNothing ==
  ASSUME NEW m
  PROVE  TasksOK(m, <<>>)
<1>1. \A i \in 1 .. 0 : FALSE
  OBVIOUS
<1> QED
  BY <1>1, SequenceEmpty DEF TasksOK

LEMMA TasksOne ==
  ASSUME NEW m, NEW t1, TaskOK(m, t1)
  PROVE  TasksOK(m, <<t1>>)
<1> DEFINE ts == <<t1>>
<1> SUFFICES TasksOK(m, ts)
  OBVIOUS
<1>1. ts \in Seq({t1}) /\ Len(ts) = 1
  OBVIOUS
<1>2. ASSUME NEW i \in 1 .. 1
      PROVE  TaskOK(m, ts[i])
  <2>1. i = 1
    OBVIOUS
  <2> QED
    BY <2>1
<1> HIDE DEF ts
<1> QED
  BY <1>1, <1>2, SequenceIntro DEF TasksOK

LEMMA TasksTwo ==
  ASSUME NEW m, NEW t1, NEW t2, TaskOK(m, t1), TaskOK(m, t2)
  PROVE  TasksOK(m, <<t1, t2>>)
<1> DEFINE ts == <<t1, t2>>
<1> SUFFICES TasksOK(m, ts)
  OBVIOUS
<1>1. ts \in Seq({t1, t2}) /\ Len(ts) = 2
  OBVIOUS
<1>2. ASSUME NEW i \in 1 .. 2
      PROVE  TaskOK(m, ts[i])
  <2>1. i = 1 \/ i = 2
    OBVIOUS
  <2> QED
    BY <2>1
<1> HIDE DEF ts
<1> QED
  BY <1>1, <1>2, SequenceIntro DEF TasksOK

LEMMA TasksThree ==
  ASSUME NEW m, NEW t1, NEW t2, NEW t3, TaskOK(m, t1), TaskOK(m, t2), TaskOK(m, t3)
  PROVE  TasksOK(m, <<t1, t2, t3>>)
<1> DEFINE ts == <<t1, t2, t3>>
<1> SUFFICES TasksOK(m, ts)
  OBVIOUS
<1>1. ts \in Seq({t1, t2, t3}) /\ Len(ts) = 3
  OBVIOUS
<1>2. ASSUME NEW i \in 1 .. 3
      PROVE  TaskOK(m, ts[i])
  <2>1. i = 1 \/ i = 2 \/ i = 3
    OBVIOUS
  <2> QED
    BY <2>1
<1> HIDE DEF ts
<1> QED
  BY <1>1, <1>2, SequenceIntro DEF TasksOK

LEMMA TasksFive ==
  ASSUME NEW m, NEW t1, NEW t2, NEW t3, NEW t4, NEW t5, TaskOK(m, t1), TaskOK(m, t2), TaskOK(m, t3),
         TaskOK(m, t4), TaskOK(m, t5)
  PROVE  TasksOK(m, <<t1, t2, t3, t4, t5>>)
<1> DEFINE ts == <<t1, t2, t3, t4, t5>>
<1> SUFFICES TasksOK(m, ts)
  OBVIOUS
<1>1. ts \in Seq({t1, t2, t3, t4, t5}) /\ Len(ts) = 5
  OBVIOUS
<1>2. ASSUME NEW i \in 1 .. 5
      PROVE  TaskOK(m, ts[i])
  <2>1. i = 1 \/ i = 2 \/ i = 3 \/ i = 4 \/ i = 5
    OBVIOUS
  <2> QED
    BY <2>1
<1> HIDE DEF ts
<1> QED
  BY <1>1, <1>2, SequenceIntro DEF TasksOK

LEMMA TasksSix ==
  ASSUME NEW m, NEW t1, NEW t2, NEW t3, NEW t4, NEW t5, NEW t6, TaskOK(m, t1), TaskOK(m, t2),
         TaskOK(m, t3), TaskOK(m, t4), TaskOK(m, t5), TaskOK(m, t6)
  PROVE  TasksOK(m, <<t1, t2, t3, t4, t5, t6>>)
<1> DEFINE ts == <<t1, t2, t3, t4, t5, t6>>
<1> SUFFICES TasksOK(m, ts)
  OBVIOUS
<1>1. ts \in Seq({t1, t2, t3, t4, t5, t6}) /\ Len(ts) = 6
  OBVIOUS
<1>2. ASSUME NEW i \in 1 .. 6
      PROVE  TaskOK(m, ts[i])
  <2>1. i = 1 \/ i = 2 \/ i = 3 \/ i = 4 \/ i = 5 \/ i = 6
    OBVIOUS
  <2> QED
    BY <2>1
<1> HIDE DEF ts
<1> QED
  BY <1>1, <1>2, SequenceIntro DEF TasksOK

LEMMA TasksSeven ==
  ASSUME NEW m, NEW t1, NEW t2, NEW t3, NEW t4, NEW t5, NEW t6, NEW t7, TaskOK(m, t1),
         TaskOK(m, t2), TaskOK(m, t3), TaskOK(m, t4), TaskOK(m, t5), TaskOK(m, t6), TaskOK(m, t7)
  PROVE  TasksOK(m, <<t1, t2, t3, t4, t5, t6, t7>>)
<1> DEFINE ts == <<t1, t2, t3, t4, t5, t6, t7>>
<1> SUFFICES TasksOK(m, ts)
  OBVIOUS
<1>1. ts \in Seq({t1, t2, t3, t4, t5, t6, t7}) /\ Len(ts) = 7
  OBVIOUS
<1>2. ASSUME NEW i \in 1 .. 7
      PROVE  TaskOK(m, ts[i])
  <2>1. i = 1 \/ i = 2 \/ i = 3 \/ i = 4 \/ i = 5 \/ i = 6 \/ i = 7
    OBVIOUS
  <2> QED
    BY <2>1
<1> HIDE DEF ts
<1> QED
  BY <1>1, <1>2, SequenceIntro DEF TasksOK

LEMMA TasksTen ==
  ASSUME NEW m, NEW t1, NEW t2, NEW t3, NEW t4, NEW t5, NEW t6, NEW t7, NEW t8, NEW t9, NEW t10,
         TaskOK(m, t1), TaskOK(m, t2), TaskOK(m, t3), TaskOK(m, t4), TaskOK(m, t5), TaskOK(m, t6),
         TaskOK(m, t7), TaskOK(m, t8), TaskOK(m, t9), TaskOK(m, t10)
  PROVE  TasksOK(m, <<t1, t2, t3, t4, t5, t6, t7, t8, t9, t10>>)
<1> DEFINE ts == <<t1, t2, t3, t4, t5, t6, t7, t8, t9, t10>>
<1> SUFFICES TasksOK(m, ts)
  OBVIOUS
<1>1. ts \in Seq({t1, t2, t3, t4, t5, t6, t7, t8, t9, t10}) /\ Len(ts) = 10
  OBVIOUS
<1>2. ASSUME NEW i \in 1 .. 10
      PROVE  TaskOK(m, ts[i])
  <2>1. i = 1 \/ i = 2 \/ i = 3 \/ i = 4 \/ i = 5 \/ i = 6 \/ i = 7 \/ i = 8 \/ i = 9 \/ i = 10
    OBVIOUS
  <2> QED
    BY <2>1
<1> HIDE DEF ts
<1> QED
  BY <1>1, <1>2, SequenceIntro DEF TasksOK

LEMMA TasksTwelve ==
  ASSUME NEW m, NEW t1, NEW t2, NEW t3, NEW t4, NEW t5, NEW t6, NEW t7, NEW t8, NEW t9, NEW t10,
         NEW t11, NEW t12, TaskOK(m, t1), TaskOK(m, t2), TaskOK(m, t3), TaskOK(m, t4),
         TaskOK(m, t5), TaskOK(m, t6), TaskOK(m, t7), TaskOK(m, t8), TaskOK(m, t9), TaskOK(m, t10),
         TaskOK(m, t11), TaskOK(m, t12)
  PROVE  TasksOK(m, <<t1, t2, t3, t4, t5, t6, t7, t8, t9, t10, t11, t12>>)
<1> DEFINE ts == <<t1, t2, t3, t4, t5, t6, t7, t8, t9, t10, t11, t12>>
<1> SUFFICES TasksOK(m, ts)
  OBVIOUS
<1>1. ts \in Seq({t1, t2, t3, t4, t5, t6, t7, t8, t9, t10, t11, t12}) /\ Len(ts) = 12
  OBVIOUS
<1>2. ASSUME NEW i \in 1 .. 12
      PROVE  TaskOK(m, ts[i])
  <2>1. i = 1 \/ i = 2 \/ i = 3 \/ i = 4 \/ i = 5 \/ i = 6 \/ i = 7 \/ i = 8 \/ i = 9 \/ i = 10 \/ i = 11 \/ i = 12
    OBVIOUS
  <2> QED
    BY <2>1
<1> HIDE DEF ts
<1> QED
  BY <1>1, <1>2, SequenceIntro DEF TasksOK

Straight ==
  {"decl", "expr", "place", "put", "discard", "keep_last", "store", "read", "peek", "materialize",
   "deref", "index", "emit", "address", "call", "save", "combine", "update"}

\* A task that stays in its block, over z.
LEMMA StraightEffect ==
  ASSUME NEW p \in Point, NEW t, t.do \in Straight, NEW a, NEW b, NEW z \in Seq(Kind),
         NEW in \in Seq(Kind), NEW out \in Seq(Kind), in = Takes(t), out = Leaves(t),
         NEW f \in {"open", "any"}, NEW depth \in Nat, NEW pend,
         Is(p, a, z \o in, "open", depth, pend), Is(p, b, z \o out, f, depth, pend)
  PROVE  Effect(t, a, b)
<1>1. /\ a \in Point /\ b \in Point /\ Over(p, a, z \o in) /\ Over(p, b, z \o out)
      /\ a.flag = "open" /\ b.flag \in {"open", "any"} /\ b.depth = depth /\ a.depth = depth
      /\ b.pend = a.pend
  BY DEF Is
<1>2. Stack(a, b, Takes(t), Leaves(t))
  BY <1>1, StackFrame
<1>3. Loops(t) = 0
  BY DEF Loops, Straight
<1>4. b.depth = a.depth + Loops(t)
  BY <1>1, <1>3
<1>5. Flow(t, a, b)
  BY <1>1 DEF Flow, Stays, Straight
<1> QED
  BY <1>2, <1>4, <1>5 DEF Effect

\* What the tasks take and leave.
LEMMA TaskKinds ==
  /\ \A d : Takes(Decl(d)) = <<>> /\ Leaves(Decl(d)) = <<>> /\ Decl(d).do = "decl"
  /\ \A e : Takes(Expr(e)) = <<>> /\ Leaves(Expr(e)) = <<"operand">> /\ Expr(e).do = "expr"
  /\ \A e : Takes(Place(e)) = <<>> /\ Leaves(Place(e)) = <<"place">> /\ Place(e).do = "place"
  /\ \A x : Takes(Put(x)) = <<>> /\ Leaves(Put(x)) = <<KindOf(x)>> /\ Put(x).do = "put"
  /\ Takes(Discard) = <<"operand">> /\ Leaves(Discard) = <<>> /\ Discard.do = "discard"
  /\ \A n : /\ Takes(KeepLast(n)) = Operands(n) /\ Leaves(KeepLast(n)) = <<"operand">>
            /\ KeepLast(n).do = "keep_last"
  /\ \A l : Takes(Store(l)) = <<"operand">> /\ Leaves(Store(l)) = <<>> /\ Store(l).do = "store"
  /\ \A o : Takes(Read(o)) = <<"place">> /\ Leaves(Read(o)) = <<"operand">> /\ Read(o).do = "read"
  /\ \A o : /\ Takes(Peek(o)) = <<"place">> /\ Leaves(Peek(o)) = <<"place", "operand">>
            /\ Peek(o).do = "peek"
  /\ \A o : /\ Takes(Materialize(o)) = <<"operand">> /\ Leaves(Materialize(o)) = <<"place">>
            /\ Materialize(o).do = "materialize"
  /\ Takes(DerefIt) = <<"place">> /\ Leaves(DerefIt) = <<"place">> /\ DerefIt.do = "deref"
  /\ Takes(IndexIt) = <<"place", "place">> /\ Leaves(IndexIt) = <<"place">> /\ IndexIt.do = "index"
  /\ \A op, n, o : /\ Takes(Emit(op, n, o)) = Operands(n) /\ Leaves(Emit(op, n, o)) = <<"operand">>
                   /\ Emit(op, n, o).do = "emit"
  /\ \A o : /\ Takes(EmitAddress(o)) = <<"place">> /\ Leaves(EmitAddress(o)) = <<"operand">>
            /\ EmitAddress(o).do = "address"
  /\ \A n, v, o : /\ Takes(EmitCall(n, v, o)) = Operands(n)
                  /\ Leaves(EmitCall(n, v, o)) = <<"operand">> /\ EmitCall(n, v, o).do = "call"
  /\ \A o : /\ Takes(Save(o)) = <<"place", "operand">> /\ Leaves(Save(o)) = <<"operand", "place">>
            /\ Save(o).do = "save"
  /\ \A op, o : /\ Takes(Combine(op, o)) = <<"place", "operand">>
                /\ Leaves(Combine(op, o)) = <<"place", "operand">> /\ Combine(op, o).do = "combine"
  /\ \A r : /\ Takes(Update(r)) = <<"place", "operand">> /\ Update(r).do = "update"
            /\ Leaves(Update(r)) = IF r = "none" THEN <<>> ELSE <<"operand">>
<1>1. /\ \A d : Takes(Decl(d)) = <<>> /\ Leaves(Decl(d)) = <<>> /\ Decl(d).do = "decl"
      /\ \A e : Takes(Expr(e)) = <<>> /\ Leaves(Expr(e)) = <<"operand">> /\ Expr(e).do = "expr"
      /\ \A e : Takes(Place(e)) = <<>> /\ Leaves(Place(e)) = <<"place">> /\ Place(e).do = "place"
  BY DEF Decl, Expr, Place, Takes, Leaves
<1>2. /\ \A x : Takes(Put(x)) = <<>> /\ Leaves(Put(x)) = <<KindOf(x)>> /\ Put(x).do = "put"
      /\ Takes(Discard) = <<"operand">> /\ Leaves(Discard) = <<>> /\ Discard.do = "discard"
      /\ \A l : Takes(Store(l)) = <<"operand">> /\ Leaves(Store(l)) = <<>> /\ Store(l).do = "store"
  BY DEF Put, Discard, Store, Takes, Leaves
<1>3. /\ \A n : /\ Takes(KeepLast(n)) = Operands(n) /\ Leaves(KeepLast(n)) = <<"operand">>
                /\ KeepLast(n).do = "keep_last"
      /\ \A op, n, o : /\ Takes(Emit(op, n, o)) = Operands(n)
                       /\ Leaves(Emit(op, n, o)) = <<"operand">> /\ Emit(op, n, o).do = "emit"
      /\ \A n, v, o : /\ Takes(EmitCall(n, v, o)) = Operands(n)
                      /\ Leaves(EmitCall(n, v, o)) = <<"operand">> /\ EmitCall(n, v, o).do = "call"
  BY DEF KeepLast, Emit, EmitCall, Takes, Leaves
<1>4. /\ \A o : Takes(Read(o)) = <<"place">> /\ Leaves(Read(o)) = <<"operand">> /\ Read(o).do = "read"
      /\ \A o : /\ Takes(Peek(o)) = <<"place">> /\ Leaves(Peek(o)) = <<"place", "operand">>
                /\ Peek(o).do = "peek"
      /\ \A o : /\ Takes(Materialize(o)) = <<"operand">> /\ Leaves(Materialize(o)) = <<"place">>
                /\ Materialize(o).do = "materialize"
      /\ \A o : /\ Takes(EmitAddress(o)) = <<"place">> /\ Leaves(EmitAddress(o)) = <<"operand">>
                /\ EmitAddress(o).do = "address"
  BY DEF Read, Peek, Materialize, EmitAddress, Takes, Leaves
<1>5. /\ Takes(DerefIt) = <<"place">> /\ Leaves(DerefIt) = <<"place">> /\ DerefIt.do = "deref"
      /\ Takes(IndexIt) = <<"place", "place">> /\ Leaves(IndexIt) = <<"place">>
      /\ IndexIt.do = "index"
  BY DEF DerefIt, IndexIt, Takes, Leaves
<1>6. /\ \A o : /\ Takes(Save(o)) = <<"place", "operand">>
                /\ Leaves(Save(o)) = <<"operand", "place">> /\ Save(o).do = "save"
      /\ \A op, o : /\ Takes(Combine(op, o)) = <<"place", "operand">>
                    /\ Leaves(Combine(op, o)) = <<"place", "operand">>
                    /\ Combine(op, o).do = "combine"
      /\ \A r : /\ Takes(Update(r)) = <<"place", "operand">> /\ Update(r).do = "update"
                /\ Leaves(Update(r)) = IF r = "none" THEN <<>> ELSE <<"operand">>
  BY DEF Save, Combine, Update, Takes, Leaves
<1> QED
  BY <1>1, <1>2, <1>3, <1>4, <1>5, <1>6

\* ... over nothing, and over other values.
LEMMA StraightHere ==
  ASSUME NEW p \in Point, NEW t, t.do \in Straight, NEW a, NEW b,
         NEW in \in Seq(Kind), NEW out \in Seq(Kind), in = Takes(t), out = Leaves(t),
         NEW f \in {"open", "any"}, NEW depth \in Nat, NEW pend,
         Is(p, a, in, "open", depth, pend), Is(p, b, out, f, depth, pend)
  PROVE  Effect(t, a, b)
<1>1. <<>> \in Seq(Kind) /\ <<>> \o in = in /\ <<>> \o out = out
  BY EmptySeq, ConcatEmptySeq
<1> QED
  BY <1>1, StraightEffect

LEMMA StraightOver ==
  ASSUME NEW p \in Point, NEW t, t.do \in Straight, NEW a, NEW b, NEW z \in Seq(Kind),
         NEW in \in Seq(Kind), NEW out \in Seq(Kind), in = Takes(t), out = Leaves(t),
         NEW f \in {"open", "any"}, NEW depth \in Nat, NEW pend, NEW x, NEW y,
         x = z \o in, y = z \o out, Is(p, a, x, "open", depth, pend), Is(p, b, y, f, depth, pend)
  PROVE  Effect(t, a, b)
BY StraightEffect

-----------------------------------------------------------------------------
(* A task is replaced by others.                                              *)

\* ... without touching the builder.
LEMMA Expand ==
  ASSUME Inv, Running, me' = me, ops' = ops, pc' = pc, NEW ts, Then(ts), TasksOK(me, ts),
         NEW p, NEW q, Between(p, q), Runs(ts, p, q)
  PROVE  Inv' /\ Keeps(me, me')
<1>1. BuilderOK(me) /\ OpsOK(me, ops)
  BY NowBetween
<1>2. p \in Point /\ q \in Point /\ Stacked(ops, p) /\ Placed(me, p) /\ Leads(Tail(todo), q)
  BY DEF Between
<1>3. Keeps(me, me')
  BY <1>1, KeepsSame
<1> QED
  BY <1>1, <1>2, <1>3, Continue

LEMMA IsItself ==
  ASSUME NEW p \in Point
  PROVE  Is(p, p, <<>>, p.flag, p.depth, p.pend) /\ p.depth \in Nat /\ p.pend \subseteq Int
BY OverNothing, EmptySeq DEF Is, Point

\* What the first task has to do.
LEMMA StraightTask ==
  ASSUME Inv, Running, NEW p, NEW q, Between(p, q), Task.do \in {"expr", "place", "decl"}
  PROVE  /\ TaskOK(me, Task)
         /\ p \in Point /\ q \in Point /\ p.depth \in Nat /\ p.flag = "open"
         /\ Is(p, p, <<>>, "open", p.depth, p.pend)
         /\ q.flag \in {"open", "any"} /\ Is(p, q, Leaves(Task), q.flag, p.depth, p.pend)
<1>1. /\ TaskOK(me, Task) /\ p \in Point /\ q \in Point /\ Placed(me, p)
      /\ Stack(p, q, Takes(Task), Leaves(Task)) /\ Flow(Task, p, q)
      /\ q.depth = p.depth + Loops(Task)
  BY NowBetween DEF Between, Effect
<1>2. /\ Takes(Task) = <<>> /\ Leaves(Task) \in {<<>>, <<"operand">>, <<"place">>}
      /\ Loops(Task) = 0
  BY DEF Takes, Leaves, Loops
<1>3. Leaves(Task) \in Seq(Kind)
  <2>1. <<>> \in Seq(Kind) /\ <<"operand">> \in Seq(Kind) /\ <<"place">> \in Seq(Kind)
    BY DEF Kind
  <2> QED
    BY <1>2, <2>1
<1>4. Stays(p, q) /\ q.pend = p.pend
  BY <1>1 DEF Flow
<1>5. q.depth = p.depth
  <2>1. p.depth \in Nat
    BY <1>1, IsItself
  <2> QED
    BY <1>1, <1>2, <2>1
<1>6. Is(p, q, Leaves(Task), q.flag, p.depth, p.pend)
  BY <1>1, <1>2, <1>3, <1>4, <1>5 DEF Is, Over
<1> QED
  BY <1>1, <1>4, <1>6, IsItself DEF Stays

LEMMA StatementTask ==
  ASSUME Inv, Running, NEW p, NEW q, Between(p, q), Task.do \in {"block", "stmt", "for"}
  PROVE  /\ TaskOK(me, Task)
         /\ p \in Point /\ q \in Point /\ p.depth \in Nat
         /\ Is(p, p, <<>>, p.flag, p.depth, p.pend) /\ Is(p, q, <<>>, q.flag, p.depth, p.pend)
         /\ p.flag = "open" \/ (p.flag = "any" /\ Task.do = "block")
         /\ q.flag = "any" \/ (q.flag = "open" /\ Task.do = "stmt" /\ IsForInit(Task.s))
<1>1. /\ TaskOK(me, Task) /\ p \in Point /\ q \in Point /\ Placed(me, p)
      /\ Stack(p, q, Takes(Task), Leaves(Task)) /\ Flow(Task, p, q)
      /\ q.depth = p.depth + Loops(Task)
  BY NowBetween DEF Between, Effect
<1>2. Takes(Task) = <<>> /\ Leaves(Task) = <<>> /\ Loops(Task) = 0
  BY DEF Takes, Leaves, Loops
<1>3. q.pend = p.pend
  BY <1>1 DEF Flow
<1>4. /\ p.flag = "open" \/ (p.flag = "any" /\ Task.do = "block")
      /\ q.flag = "any" \/ (q.flag = "open" /\ Task.do = "stmt" /\ IsForInit(Task.s))
  BY <1>1 DEF Flow
<1>5. q.depth = p.depth
  <2>1. p.depth \in Nat
    BY <1>1, IsItself
  <2> QED
    BY <1>1, <1>2, <2>1
<1>6. Is(p, q, <<>>, q.flag, p.depth, p.pend)
  BY <1>1, <1>2, <1>3, <1>5, EmptySeq DEF Is, Over
<1> QED
  BY <1>1, <1>4, <1>6, IsItself

\* Points that hold some values over those of p, in an open block.
LEMMA OpenPoint ==
  ASSUME NEW p \in Point, NEW x \in Seq(Kind)
  PROVE  \E a : Is(p, a, x, "open", p.depth, p.pend)
<1>1. p.at \in Int /\ p.depth \in Nat /\ p.pend \in SUBSET Int /\ "open" \in Flag
  BY DEF Point, Flag
<1> QED
  BY <1>1, AtIs

\* Expressions and operands for a task.
LEMMA RunsOperands ==
  ASSUME NEW p \in Point, NEW es \in Seq(HirExpr), es # <<>>, NEW q, NEW f \in {"open", "any"},
         Is(p, p, <<>>, "open", p.depth, p.pend), Is(p, q, <<"operand">>, f, p.depth, p.pend),
         NEW t, t.do \in Straight, Takes(t) = Operands(Len(es)), Leaves(t) = <<"operand">>,
         NEW m, TaskOK(m, t)
  PROVE  TasksOK(m, Exprs(es) \o <<t>>) /\ Runs(Exprs(es) \o <<t>>, p, q)
<1>1. /\ Operands(Len(es)) \in Seq(Kind) /\ <<"operand">> \in Seq(Kind) /\ p.depth \in Nat
      /\ Len(es) \in Nat /\ DOMAIN es = 1 .. Len(es)
  <2>1. Len(es) \in Nat /\ DOMAIN es = 1 .. Len(es)
    BY LenProperties
  <2>2. Operands(Len(es)) \in [1 .. Len(es) -> Kind]
    BY DEF Operands, Kind
  <2>3. <<"operand">> \in Seq(Kind)
    BY DEF Kind
  <2> QED
    BY <2>1, <2>2, <2>3, SeqDef, IsItself
<1>2. PICK a : Is(p, a, Operands(Len(es)), "open", p.depth, p.pend)
  BY <1>1, OpenPoint
<1>3. IsSequence(Exprs(es)) /\ Runs(Exprs(es), p, a)
  BY <1>2, RunsExprs DEF Is, Stays
<1>4. Effect(t, a, q)
  BY <1>1, <1>2, StraightHere
<1>5. Runs(<<t>>, a, q)
  BY <1>2, <1>4, RunsOne DEF Is
<1>6. TasksOK(m, Exprs(es))
  <2>1. Exprs(es) = [i \in 1 .. Len(es) |-> Expr(es[i])]
    BY <1>1 DEF Exprs
  <2>2. \A i \in 1 .. Len(es) : TaskOK(m, Expr(es[i]))
    BY TaskIsOK, ElementOfSeq
  <2>3. Len(Exprs(es)) = Len(es)
    BY <1>1, <1>3, <2>1, SequenceByIndex
  <2> QED
    BY <1>3, <2>1, <2>2, <2>3 DEF TasksOK
<1> QED
  BY <1>3, <1>5, <1>6, RunsConcat, SequenceOne, TasksOne, TasksConcat

\* The expression to lower.
LEMMA ExprTask ==
  ASSUME Inv, Running, Task.do = "expr", NEW p, NEW q, Between(p, q)
  PROVE  /\ Task.e \in HirExpr /\ IsExpr(Task.e)
         /\ p \in Point /\ q \in Point /\ p.depth \in Nat /\ p.flag = "open"
         /\ Is(p, p, <<>>, "open", p.depth, p.pend)
         /\ q.flag \in {"open", "any"} /\ Is(p, q, <<"operand">>, q.flag, p.depth, p.pend)
<1>1. Leaves(Task) = <<"operand">> /\ (TaskOK(me, Task) => Task.e \in HirExpr)
  BY DEF Leaves, TaskOK
<1>2. /\ TaskOK(me, Task)
      /\ p \in Point /\ q \in Point /\ p.depth \in Nat /\ p.flag = "open"
      /\ Is(p, p, <<>>, "open", p.depth, p.pend)
      /\ q.flag \in {"open", "any"} /\ Is(p, q, Leaves(Task), q.flag, p.depth, p.pend)
  BY StraightTask
<1> QED
  BY <1>1, <1>2, HirAssumption

LEMMA IsPlaceExpr ==
  ASSUME NEW e
  PROVE  IsPlace(e) <=> PlaceExpr(me, e)
BY DEF IsPlace, PlaceExpr

\* The kinds of values.
LEMMA Kinds ==
  /\ "operand" \in Kind /\ "place" \in Kind
  /\ <<>> \in Seq(Kind) /\ <<"operand">> \in Seq(Kind) /\ <<"place">> \in Seq(Kind)
  /\ <<"place", "operand">> \in Seq(Kind) /\ <<"operand", "place">> \in Seq(Kind)
  /\ <<"place", "place">> \in Seq(Kind)
BY DEF Kind

LEMMA StepPlaceRead ==
  ASSUME Inv, LowerPlaceRead
  PROVE  Inv' /\ Keeps(me, me')
<1>1. /\ Running /\ Task.do = "expr" /\ PlaceExpr(me, Task.e) /\ me' = me /\ ops' = ops /\ pc' = pc
      /\ Then(<<Place(Task.e), Read(Task.e.own)>>)
  BY IsPlaceExpr DEF LowerPlaceRead, Doing
<1>2. PICK p, q : Between(p, q)
  BY <1>1, NowBetween
<1>3. /\ Task.e \in HirExpr /\ p \in Point /\ q \in Point /\ p.depth \in Nat
      /\ Is(p, p, <<>>, "open", p.depth, p.pend)
      /\ q.flag \in {"open", "any"} /\ Is(p, q, <<"operand">>, q.flag, p.depth, p.pend)
  BY <1>1, <1>2, ExprTask
<1>4. PICK a : Is(p, a, <<"place">>, "open", p.depth, p.pend)
  BY <1>3, Kinds, OpenPoint
<1>5. Place(Task.e).do \in Straight /\ Read(Task.e.own).do \in Straight
  BY TaskKinds DEF Straight
<1>6. Effect(Place(Task.e), p, a)
  BY <1>3, <1>4, <1>5, Kinds, TaskKinds, StraightHere
<1>7. Effect(Read(Task.e.own), a, q)
  BY <1>3, <1>4, <1>5, Kinds, TaskKinds, StraightHere
<1>8. Runs(<<Place(Task.e), Read(Task.e.own)>>, p, q)
  BY <1>3, <1>4, <1>6, <1>7, RunsTwo DEF Is
<1>9. TasksOK(me, <<Place(Task.e), Read(Task.e.own)>>)
  BY <1>1, <1>3, TaskIsOK, TasksTwo
<1> QED
  BY <1>1, <1>2, <1>8, <1>9, Expand

LEMMA StepConst ==
  ASSUME Inv, LowerConst
  PROVE  Inv' /\ Keeps(me, me')
<1> DEFINE x == IF Task.e.k = "const" THEN Const(Task.e.what) ELSE SymbolUse(Task.e.what)
<1>1. /\ Running /\ Task.do = "expr" /\ me' = me /\ ops' = ops /\ pc' = pc /\ Then(<<Put(x)>>)
  BY DEF LowerConst, Expression, Doing
<1>2. OperandIn(me, x)
  BY Values DEF SymbolUse
<1> HIDE DEF x
<1>3. ValueIn(me, x) /\ KindOf(x) = "operand"
  BY <1>2, Values
<1>4. PICK p, q : Between(p, q)
  BY <1>1, NowBetween
<1>5. /\ p \in Point /\ q \in Point /\ p.depth \in Nat
      /\ Is(p, p, <<>>, "open", p.depth, p.pend)
      /\ q.flag \in {"open", "any"} /\ Is(p, q, <<"operand">>, q.flag, p.depth, p.pend)
  BY <1>1, <1>4, ExprTask
<1>6. Effect(Put(x), p, q)
  <2>1. Put(x).do \in Straight /\ Takes(Put(x)) = <<>> /\ Leaves(Put(x)) = <<"operand">>
    BY <1>3, TaskKinds DEF Straight
  <2> QED
    BY <1>5, <2>1, Kinds, StraightHere
<1>7. Runs(<<Put(x)>>, p, q) /\ TasksOK(me, <<Put(x)>>)
  BY <1>3, <1>5, <1>6, RunsOne, TaskIsOK, TasksOne
<1> QED
  BY <1>1, <1>4, <1>7, Expand

\* The operands of an expression.
LEMMA ArgsAre ==
  ASSUME NEW e, IsExpr(e)
  PROVE  /\ e.args \in Seq(HirExpr) /\ Len(e.args) \in Nat
         /\ \A i \in 1 .. Len(e.args) : e.args[i] \in HirExpr
         /\ e.k \in {"call", "comma"} => e.args # <<>>
         /\ e.k \in DOMAIN Arity => Len(e.args) = Arity[e.k]
         /\ e.k \in {"deref", "plus", "addr_of", "unary", "cast", "pre", "post"} => Len(e.args) = 1
         /\ e.k \in {"index", "binary", "logical", "assign"} => Len(e.args) = 2
         /\ e.k = "ternary" => Len(e.args) = 3
<1>1. /\ e.args \in Seq(HirExpr)
      /\ \/ e.k \in DOMAIN Arity /\ Len(e.args) = Arity[e.k]
         \/ e.k \in {"call", "comma"} /\ e.args # <<>>
  BY DEF IsExpr
<1>2. Len(e.args) \in Nat /\ \A i \in 1 .. Len(e.args) : e.args[i] \in HirExpr
  BY <1>1, LenProperties, ElementOfSeq
<1>3. /\ "call" \notin DOMAIN Arity /\ "comma" \notin DOMAIN Arity
      /\ \A k \in {"deref", "plus", "addr_of", "unary", "cast", "pre", "post"} :
           k \in DOMAIN Arity /\ Arity[k] = 1
      /\ \A k \in {"index", "binary", "logical", "assign"} : k \in DOMAIN Arity /\ Arity[k] = 2
      /\ "ternary" \in DOMAIN Arity /\ Arity["ternary"] = 3
  BY DEF Arity
<1> QED
  BY <1>1, <1>2, <1>3

\* Binary, unary and cast; call; comma and plus.
LEMMA StepOperation ==
  ASSUME Inv, LowerBinary \/ LowerUnary \/ LowerCast \/ LowerCall \/ LowerComma
  PROVE  Inv' /\ Keeps(me, me')
<1> DEFINE e == Task.e
           n == Len(e.args)
<1>1. /\ Running /\ Task.do = "expr" /\ me' = me /\ ops' = ops /\ pc' = pc
      /\ e.k \in {"binary", "unary", "cast", "call", "comma", "plus"}
      /\ \E t \in {Emit(e.what, n, e.own), EmitCall(n, e.what = "void", e.own), KeepLast(n)} :
           Then(Exprs(e.args) \o <<t>>)
  <2>1. CASE LowerBinary \/ LowerUnary \/ LowerCast
    BY <2>1 DEF LowerBinary, LowerUnary, LowerCast, Operation, Expression, Doing
  <2>2. CASE LowerCall
    BY <2>2 DEF LowerCall, Expression, Doing
  <2>3. CASE LowerComma
    BY <2>3 DEF LowerComma, Expression, Doing
  <2> QED
    BY <2>1, <2>2, <2>3
<1>2. PICK t \in {Emit(e.what, n, e.own), EmitCall(n, e.what = "void", e.own), KeepLast(n)} :
        Then(Exprs(e.args) \o <<t>>)
  BY <1>1
<1>3. PICK p, q : Between(p, q)
  BY <1>1, NowBetween
<1>4. /\ IsExpr(e) /\ p \in Point /\ q \in Point /\ p.depth \in Nat
      /\ Is(p, p, <<>>, "open", p.depth, p.pend)
      /\ q.flag \in {"open", "any"} /\ Is(p, q, <<"operand">>, q.flag, p.depth, p.pend)
  BY <1>1, <1>3, ExprTask
<1>5. e.args \in Seq(HirExpr) /\ n \in Nat \ {0} /\ e.args # <<>>
  <2>1. e.args \in Seq(HirExpr) /\ n \in Nat /\ (n = 0 <=> e.args = <<>>)
    BY <1>4, ArgsAre, EmptySeq
  <2> HIDE DEF e
  <2>2. CASE e.k \in {"call", "comma"}
    BY <1>4, <2>1, <2>2, ArgsAre
  <2>3. CASE e.k \in {"plus", "unary", "cast"}
    <3>1. n = 1
      BY <1>4, <2>3, ArgsAre
    <3> QED
      BY <2>1, <3>1
  <2>4. CASE e.k = "binary"
    <3>1. n = 2
      BY <1>4, <2>4, ArgsAre
    <3> QED
      BY <2>1, <3>1
  <2> QED
    BY <1>1, <2>1, <2>2, <2>3, <2>4
<1>6. /\ t.do \in Straight /\ Takes(t) = Operands(n) /\ Leaves(t) = <<"operand">>
  BY <1>2, TaskKinds DEF Straight
<1>7. TaskOK(me, t)
  <2> HIDE DEF n
  <2>1. /\ TaskOK(me, KeepLast(n))
        /\ \A x, y : TaskOK(me, Emit(x, n, y)) /\ TaskOK(me, EmitCall(n, x, y))
    BY <1>5, TaskIsOK
  <2> QED
    BY <1>2, <2>1
<1> HIDE DEF e
<1>8. TasksOK(me, Exprs(e.args) \o <<t>>) /\ Runs(Exprs(e.args) \o <<t>>, p, q)
  BY <1>4, <1>5, <1>6, <1>7, RunsOperands
<1> QED
  BY <1>1, <1>2, <1>3, <1>8, Expand

LEMMA MoreKinds ==
  /\ Operands(2) = <<"operand", "operand">> /\ <<"operand", "operand">> \in Seq(Kind)
  /\ <<"place">> \o <<>> = <<"place">> /\ <<"operand">> \o <<>> = <<"operand">>
  /\ <<"place">> \o <<"operand">> = <<"place", "operand">>
  /\ <<"place">> \o <<"place">> = <<"place", "place">>
  /\ <<"place", "operand">> \o <<>> = <<"place", "operand">>
  /\ <<"place", "operand">> \o <<"operand">> = <<"place", "operand", "operand">>
  /\ <<"place">> \o <<"operand", "operand">> = <<"place", "operand", "operand">>
  /\ <<"place", "operand", "operand">> \in Seq(Kind)
<1>1. Operands(2) = <<"operand", "operand">>
  <2>1. \A i \in 1 .. 2 : i = 1 \/ i = 2
    OBVIOUS
  <2> QED
    BY <2>1 DEF Operands
<1>2. /\ <<"operand", "operand">> \in Seq(Kind) /\ <<"place", "operand", "operand">> \in Seq(Kind)
  BY DEF Kind
<1>3. /\ <<"place">> \o <<>> = <<"place">> /\ <<"operand">> \o <<>> = <<"operand">>
      /\ <<"place", "operand">> \o <<>> = <<"place", "operand">>
  BY Kinds, ConcatEmptySeq
<1>4. /\ <<"place">> \o <<"operand">> = <<"place", "operand">>
      /\ <<"place">> \o <<"place">> = <<"place", "place">>
  BY ConcatOnes
<1>5. /\ <<"place", "operand">> \o <<"operand">> = <<"place", "operand", "operand">>
      /\ <<"place">> \o <<"operand", "operand">> = <<"place", "operand", "operand">>
  BY ConcatThree
<1> QED
  BY <1>1, <1>2, <1>3, <1>4, <1>5

LEMMA StepPrefix ==
  ASSUME Inv, LowerPrefix
  PROVE  Inv' /\ Keeps(me, me')
<1> DEFINE e == Task.e
           t1 == Place(e.args[1])
           t2 == Peek(e.own)
           t3 == Put(IntLit(1))
           t4 == Emit(e.what, 2, e.own)
           t5 == Update("value")
<1>1. /\ Running /\ Task.do = "expr" /\ e.k = "pre" /\ PlaceExpr(me, e.args[1])
      /\ me' = me /\ ops' = ops /\ pc' = pc /\ Then(<<t1, t2, t3, t4, t5>>)
  BY IsPlaceExpr DEF LowerPrefix, Expression, Doing
<1>2. PICK p, q : Between(p, q)
  BY <1>1, NowBetween
<1>3. /\ IsExpr(e) /\ p \in Point /\ q \in Point /\ p.depth \in Nat
      /\ Is(p, p, <<>>, "open", p.depth, p.pend)
      /\ q.flag \in {"open", "any"} /\ Is(p, q, <<"operand">>, q.flag, p.depth, p.pend)
  BY <1>1, <1>2, ExprTask
<1>4. PICK a1 : Is(p, a1, <<"place">>, "open", p.depth, p.pend)
  BY <1>3, Kinds, OpenPoint
<1>5. PICK a2 : Is(p, a2, <<"place", "operand">>, "open", p.depth, p.pend)
  BY <1>3, Kinds, OpenPoint
<1>6. PICK a3 : Is(p, a3, <<"place", "operand", "operand">>, "open", p.depth, p.pend)
  BY <1>3, MoreKinds, OpenPoint
<1>7. KindOf(IntLit(1)) = "operand" /\ ValueIn(me, IntLit(1))
  BY Values
<1>8. /\ t1.do \in Straight /\ t2.do \in Straight /\ t3.do \in Straight /\ t4.do \in Straight
      /\ t5.do \in Straight
  BY TaskKinds DEF Straight
<1>9. TasksOK(me, <<t1, t2, t3, t4, t5>>)
  <2>1. TaskOK(me, t1)
    <3>1. 1 \in 1 .. Len(e.args)
      BY <1>1, <1>3, ArgsAre
    <3> QED
      BY <1>1, <1>3, <3>1, ArgsAre, TaskIsOK
  <2>2. TaskOK(me, t2) /\ TaskOK(me, t3) /\ TaskOK(me, t5)
    BY <1>7, TaskIsOK
  <2>3. TaskOK(me, t4)
    BY TaskIsOK
  <2> QED
    BY <2>1, <2>2, <2>3, TasksFive
<1>10. /\ Takes(t1) = <<>> /\ Leaves(t1) = <<"place">>
       /\ Takes(t2) = <<"place">> /\ Leaves(t2) = <<"place", "operand">>
       /\ Takes(t3) = <<>> /\ Leaves(t3) = <<"operand">>
       /\ Takes(t4) = <<"operand", "operand">> /\ Leaves(t4) = <<"operand">>
       /\ Takes(t5) = <<"place", "operand">> /\ Leaves(t5) = <<"operand">>
  BY <1>7, TaskKinds, MoreKinds
<1> HIDE DEF t1, t2, t3, t4, t5, e
<1>11. Effect(t1, p, a1)
  BY <1>3, <1>4, <1>8, <1>10, Kinds, StraightHere
<1>12. Effect(t2, a1, a2)
  BY <1>3, <1>4, <1>5, <1>8, <1>10, Kinds, StraightHere
<1>13. Effect(t3, a2, a3)
  <2>1. /\ <<"place", "operand">> = <<"place", "operand">> \o Takes(t3)
        /\ <<"place", "operand", "operand">> = <<"place", "operand">> \o Leaves(t3)
    BY <1>10, MoreKinds
  <2> QED
    BY <1>3, <1>5, <1>6, <1>8, <1>10, <2>1, Kinds, StraightOver
<1>14. Effect(t4, a3, a2)
  <2>1. /\ <<"place", "operand", "operand">> = <<"place">> \o Takes(t4)
        /\ <<"place", "operand">> = <<"place">> \o Leaves(t4)
    BY <1>10, MoreKinds
  <2> QED
    BY <1>3, <1>5, <1>6, <1>8, <1>10, <2>1, Kinds, MoreKinds, StraightOver
<1>15. Effect(t5, a2, q)
  BY <1>3, <1>5, <1>8, <1>10, Kinds, StraightHere
<1>16. Runs(<<t1, t2, t3, t4, t5>>, p, q)
  BY <1>3, <1>4, <1>5, <1>6, <1>11, <1>12, <1>13, <1>14, <1>15, RunsFive DEF Is
<1> QED
  BY <1>1, <1>2, <1>9, <1>16, Expand

LEMMA StepPostfix ==
  ASSUME Inv, LowerPostfix
  PROVE  Inv' /\ Keeps(me, me')
<1> DEFINE e == Task.e
           t1 == Place(e.args[1])
           t2 == Peek(e.own)
           t3 == Save(e.own)
           t4 == Put(IntLit(1))
           t5 == Emit(e.what, 2, e.own)
           t6 == Update("none")
           saved == <<"operand", "place">>
           one == saved \o <<"operand">>
           two == saved \o <<"operand", "operand">>
<1>1. /\ Running /\ Task.do = "expr" /\ e.k = "post" /\ PlaceExpr(me, e.args[1])
      /\ me' = me /\ ops' = ops /\ pc' = pc /\ Then(<<t1, t2, t3, t2, t4, t5, t6>>)
  BY IsPlaceExpr DEF LowerPostfix, Expression, Doing
<1>2. PICK p, q : Between(p, q)
  BY <1>1, NowBetween
<1>3. /\ IsExpr(e) /\ p \in Point /\ q \in Point /\ p.depth \in Nat
      /\ Is(p, p, <<>>, "open", p.depth, p.pend)
      /\ q.flag \in {"open", "any"} /\ Is(p, q, <<"operand">>, q.flag, p.depth, p.pend)
  BY <1>1, <1>2, ExprTask
<1>4. /\ saved \in Seq(Kind) /\ one \in Seq(Kind) /\ two \in Seq(Kind)
      /\ one \o <<>> = one /\ one \o <<"operand">> = two
      /\ <<"operand">> \o <<"place">> = saved /\ <<"operand">> \o <<"place", "operand">> = one
  <2>1. saved \in Seq(Kind)
    BY Kinds
  <2>2. one = <<"operand", "place", "operand">> /\ <<"operand">> \o <<"place", "operand">> = one
    BY ConcatThree
  <2>3. <<"operand">> \o <<"place">> = saved /\ <<"operand">> \o <<"operand">> = <<"operand", "operand">>
    BY ConcatOnes
  <2> HIDE DEF saved
  <2>4. one \in Seq(Kind) /\ two \in Seq(Kind)
    BY <2>1, Kinds, MoreKinds, ConcatProperties
  <2>5. one \o <<"operand">> = saved \o (<<"operand">> \o <<"operand">>)
    BY <2>1, Kinds, ConcatAssociative
  <2> HIDE DEF one
  <2>6. one \o <<>> = one
    BY <2>4, ConcatEmptySeq
  <2> QED
    BY <2>1, <2>2, <2>3, <2>4, <2>5, <2>6
<1>5. PICK a1 : Is(p, a1, <<"place">>, "open", p.depth, p.pend)
  BY <1>3, Kinds, OpenPoint
<1>6. PICK a2 : Is(p, a2, <<"place", "operand">>, "open", p.depth, p.pend)
  BY <1>3, Kinds, OpenPoint
<1>7. KindOf(IntLit(1)) = "operand" /\ ValueIn(me, IntLit(1))
  BY Values
<1>8. /\ t1.do \in Straight /\ t2.do \in Straight /\ t3.do \in Straight /\ t4.do \in Straight
      /\ t5.do \in Straight /\ t6.do \in Straight
  BY TaskKinds DEF Straight
<1>9. TasksOK(me, <<t1, t2, t3, t2, t4, t5, t6>>)
  <2>1. TaskOK(me, t1)
    <3>1. 1 \in 1 .. Len(e.args)
      BY <1>1, <1>3, ArgsAre
    <3> QED
      BY <1>1, <1>3, <3>1, ArgsAre, TaskIsOK
  <2>2. TaskOK(me, t2) /\ TaskOK(me, t3) /\ TaskOK(me, t4) /\ TaskOK(me, t6)
    BY <1>7, TaskIsOK
  <2>3. TaskOK(me, t5)
    BY TaskIsOK
  <2> QED
    BY <2>1, <2>2, <2>3, TasksSeven
<1>10. /\ Takes(t1) = <<>> /\ Leaves(t1) = <<"place">>
       /\ Takes(t2) = <<"place">> /\ Leaves(t2) = <<"place", "operand">>
       /\ Takes(t3) = <<"place", "operand">> /\ Leaves(t3) = saved
       /\ Takes(t4) = <<>> /\ Leaves(t4) = <<"operand">>
       /\ Takes(t5) = <<"operand", "operand">> /\ Leaves(t5) = <<"operand">>
       /\ Takes(t6) = <<"place", "operand">> /\ Leaves(t6) = <<>>
  BY <1>7, TaskKinds, MoreKinds
<1>11. <<"operand">> = <<"operand">> \o <<>>
  BY MoreKinds
<1> HIDE DEF t1, t2, t3, t4, t5, t6, e
<1>12. two = saved \o <<"operand", "operand">> /\ one = saved \o <<"operand">>
  OBVIOUS
<1> HIDE DEF saved, one, two
<1>13. PICK a3 : Is(p, a3, saved, "open", p.depth, p.pend)
  BY <1>3, <1>4, OpenPoint
<1>14. PICK a4 : Is(p, a4, one, "open", p.depth, p.pend)
  BY <1>3, <1>4, OpenPoint
<1>15. PICK a5 : Is(p, a5, two, "open", p.depth, p.pend)
  BY <1>3, <1>4, OpenPoint
<1>16. Effect(t1, p, a1)
  BY <1>3, <1>5, <1>8, <1>10, Kinds, StraightHere
<1>17. Effect(t2, a1, a2)
  BY <1>3, <1>5, <1>6, <1>8, <1>10, Kinds, StraightHere
<1>18. Effect(t3, a2, a3)
  BY <1>3, <1>4, <1>6, <1>8, <1>10, <1>13, Kinds, StraightHere
<1>19. Effect(t2, a3, a4)
  BY <1>3, <1>4, <1>8, <1>10, <1>13, <1>14, Kinds, StraightOver
<1>20. Effect(t4, a4, a5)
  BY <1>3, <1>4, <1>8, <1>10, <1>14, <1>15, Kinds, StraightOver
<1>21. Effect(t5, a5, a4)
  BY <1>3, <1>4, <1>8, <1>10, <1>12, <1>14, <1>15, Kinds, MoreKinds, StraightOver
<1>22. Effect(t6, a4, q)
  <2>1. one = <<"operand">> \o Takes(t6) /\ <<"operand">> = <<"operand">> \o Leaves(t6)
    BY <1>4, <1>10, <1>11
  <2>2. /\ Takes(t6) \in Seq(Kind) /\ Leaves(t6) \in Seq(Kind) /\ <<"operand">> \in Seq(Kind)
        /\ t6.do \in Straight
    BY <1>8, <1>10, Kinds
  <2> QED
    BY <1>3, <1>14, <2>1, <2>2, StraightOver
<1>23. Runs(<<t1, t2, t3, t2, t4, t5, t6>>, p, q)
  BY <1>3, <1>5, <1>6, <1>13, <1>14, <1>15, <1>16, <1>17, <1>18, <1>19, <1>20, <1>21, <1>22,
     RunsSeven DEF Is
<1> QED
  BY <1>1, <1>2, <1>9, <1>23, Expand

LEMMA StepAssign ==
  ASSUME Inv, LowerAssign
  PROVE  Inv' /\ Keeps(me, me')
<1> DEFINE e == Task.e
           t1 == Place(e.args[1])
           t2 == Expr(e.args[2])
           t3 == Combine(e.what, e.own)
           t4 == Update("place")
           old == IF e.what = "=" THEN <<>> ELSE <<t3>>
<1>1. /\ Running /\ Task.do = "expr" /\ e.k = "assign" /\ PlaceExpr(me, e.args[1])
      /\ me' = me /\ ops' = ops /\ pc' = pc /\ Then(<<t1, t2>> \o old \o <<t4>>)
  BY IsPlaceExpr DEF LowerAssign, Expression, Doing
<1>2. PICK p, q : Between(p, q)
  BY <1>1, NowBetween
<1>3. /\ IsExpr(e) /\ p \in Point /\ q \in Point /\ p.depth \in Nat
      /\ Is(p, p, <<>>, "open", p.depth, p.pend)
      /\ q.flag \in {"open", "any"} /\ Is(p, q, <<"operand">>, q.flag, p.depth, p.pend)
  BY <1>1, <1>2, ExprTask
<1>4. PICK a1 : Is(p, a1, <<"place">>, "open", p.depth, p.pend)
  BY <1>3, Kinds, OpenPoint
<1>5. PICK a2 : Is(p, a2, <<"place", "operand">>, "open", p.depth, p.pend)
  BY <1>3, Kinds, OpenPoint
<1>6. t1.do \in Straight /\ t2.do \in Straight /\ t3.do \in Straight /\ t4.do \in Straight
  BY TaskKinds DEF Straight
<1>7. TaskOK(me, t1) /\ TaskOK(me, t2) /\ TaskOK(me, t3) /\ TaskOK(me, t4)
  <2>1. 1 \in 1 .. Len(e.args) /\ 2 \in 1 .. Len(e.args)
    BY <1>1, <1>3, ArgsAre
  <2>2. e.args[1] \in HirExpr /\ e.args[2] \in HirExpr
    BY <1>3, <2>1, ArgsAre
  <2> QED
    BY <1>1, <2>2, TaskIsOK
<1>8. /\ Takes(t1) = <<>> /\ Leaves(t1) = <<"place">>
      /\ Takes(t2) = <<>> /\ Leaves(t2) = <<"operand">>
      /\ Takes(t3) = <<"place", "operand">> /\ Leaves(t3) = <<"place", "operand">>
      /\ Takes(t4) = <<"place", "operand">> /\ Leaves(t4) = <<"operand">>
  BY TaskKinds
<1> HIDE DEF t1, t2, t3, t4, e
<1>9. Effect(t1, p, a1)
  BY <1>3, <1>4, <1>6, <1>8, Kinds, StraightHere
<1>10. Effect(t2, a1, a2)
  <2>1. <<"place">> = <<"place">> \o Takes(t2) /\ <<"place", "operand">> = <<"place">> \o Leaves(t2)
    BY <1>8, MoreKinds
  <2> QED
    BY <1>3, <1>4, <1>5, <1>6, <1>8, <2>1, Kinds, StraightOver
<1>11. Effect(t3, a2, a2)
  BY <1>3, <1>5, <1>6, <1>8, Kinds, StraightHere
<1>12. Effect(t4, a2, q)
  BY <1>3, <1>5, <1>6, <1>8, Kinds, StraightHere
<1>13. Runs(<<t1, t2>>, p, a2) /\ Runs(<<t4>>, a2, q) /\ Runs(old, a2, a2)
  <2>1. p \in Point /\ a1 \in Point /\ a2 \in Point /\ q \in Point
    BY <1>3, <1>4, <1>5 DEF Is
  <2>2. Runs(<<t1, t2>>, p, a2)
    BY <1>9, <1>10, <2>1, RunsTwo
  <2>3. Runs(<<t4>>, a2, q)
    BY <1>12, <2>1, RunsOne
  <2>4. Runs(<<t3>>, a2, a2) /\ Runs(<<>>, a2, a2)
    BY <1>11, <2>1, RunsOne, RunsNothing
  <2> QED
    BY <2>2, <2>3, <2>4
<1>14. TasksOK(me, <<t1, t2>>) /\ TasksOK(me, <<t4>>) /\ TasksOK(me, old)
  BY <1>7, TasksOne, TasksTwo, TasksNothing
<1> HIDE DEF old
<1>15. TasksOK(me, <<t1, t2>> \o old \o <<t4>>)
  BY <1>14, TasksConcat
<1>16. Runs(<<t1, t2>> \o old \o <<t4>>, p, q)
  <2>1. IsSequence(<<t1, t2>>) /\ IsSequence(<<t4>>) /\ IsSequence(old)
    BY <1>14 DEF TasksOK
  <2>2. Runs(<<t1, t2>> \o old, p, a2) /\ IsSequence(<<t1, t2>> \o old)
    BY <1>13, <2>1, RunsConcat, SequenceConcat
  <2> QED
    BY <1>13, <2>1, <2>2, RunsConcat
<1> QED
  BY <1>1, <1>2, <1>15, <1>16, Expand

LEMMA StepAddrOf ==
  ASSUME Inv, LowerAddrOf
  PROVE  Inv' /\ Keeps(me, me')
<1> DEFINE e == Task.e
           t2 == EmitAddress(e.own)
<1>1. /\ Running /\ Task.do = "expr" /\ e.k = "addr_of" /\ ops' = ops /\ pc' = pc
      /\ \/ PlaceExpr(me, e.args[1]) /\ me' = me /\ Then(<<Place(e.args[1]), t2>>)
         \/ me' = FreshTemp(me, e.args[1].own) /\ Then(<<Put(FromLocal(NextLocal(me))), t2>>)
  BY IsPlaceExpr DEF LowerAddrOf, Expression, Doing
<1>2. BuilderOK(me) /\ OpsOK(me, ops)
  BY <1>1, NowBetween
<1>3. PICK p, q : Between(p, q)
  BY <1>1, NowBetween
<1>4. /\ IsExpr(e) /\ p \in Point /\ q \in Point /\ p.depth \in Nat /\ p.flag = "open"
      /\ Is(p, p, <<>>, "open", p.depth, p.pend)
      /\ q.flag \in {"open", "any"} /\ Is(p, q, <<"operand">>, q.flag, p.depth, p.pend)
  BY <1>1, <1>3, ExprTask
<1>5. PICK a1 : Is(p, a1, <<"place">>, "open", p.depth, p.pend)
  BY <1>4, Kinds, OpenPoint
<1>6. ASSUME NEW t1, t1.do \in Straight, Takes(t1) = <<>>, Leaves(t1) = <<"place">>
      PROVE  Runs(<<t1, t2>>, p, q)
  <2>1. t2.do \in Straight /\ Takes(t2) = <<"place">> /\ Leaves(t2) = <<"operand">>
    BY TaskKinds DEF Straight
  <2> HIDE DEF t2, e
  <2>2. Effect(t1, p, a1)
    BY <1>4, <1>5, <1>6, Kinds, StraightHere
  <2>3. Effect(t2, a1, q)
    BY <1>4, <1>5, <2>1, Kinds, StraightHere
  <2> QED
    BY <1>4, <1>5, <2>2, <2>3, RunsTwo DEF Is
<1>7. \A m : TaskOK(m, t2)
  BY TaskIsOK
<1> HIDE DEF t2
<1>8. CASE PlaceExpr(me, e.args[1]) /\ me' = me /\ Then(<<Place(e.args[1]), t2>>)
  <2> DEFINE t1 == Place(e.args[1])
  <2>1. TaskOK(me, t1)
    <3>1. 1 \in 1 .. Len(e.args)
      BY <1>1, <1>4, ArgsAre
    <3> QED
      BY <1>4, <1>8, <3>1, ArgsAre, TaskIsOK
  <2>2. t1.do \in Straight /\ Takes(t1) = <<>> /\ Leaves(t1) = <<"place">>
    BY TaskKinds DEF Straight
  <2>3. Then(<<t1, t2>>) /\ me' = me
    BY <1>8
  <2> HIDE DEF t1
  <2>4. TasksOK(me, <<t1, t2>>) /\ Runs(<<t1, t2>>, p, q)
    BY <1>6, <1>7, <2>1, <2>2, TasksTwo
  <2> QED
    BY <1>1, <1>3, <2>3, <2>4, Expand
<1>9. CASE me' = FreshTemp(me, e.args[1].own) /\ Then(<<Put(FromLocal(NextLocal(me))), t2>>)
  <2> DEFINE x == FromLocal(NextLocal(me))
             t1 == Put(x)
  <2>1. BuilderOK(me') /\ Keeps(me, me') /\ SameFlow(me, me') /\ NextLocal(me) \in Locals(me')
    BY <1>2, <1>9, NewLocalOK DEF FreshTemp
  <2>2. ValueIn(me', x) /\ KindOf(x) = "place"
    BY <2>1, Values
  <2>3. Then(<<t1, t2>>)
    BY <1>9
  <2> HIDE DEF x
  <2>4. TaskOK(me', t1)
    BY <2>2, TaskIsOK
  <2>5. t1.do \in Straight /\ Takes(t1) = <<>> /\ Leaves(t1) = <<"place">>
    BY <2>2, TaskKinds DEF Straight
  <2> HIDE DEF t1
  <2>6. TasksOK(me', <<t1, t2>>) /\ Runs(<<t1, t2>>, p, q)
    BY <1>6, <1>7, <2>4, <2>5, TasksTwo
  <2>7. Stacked(ops, p) /\ Placed(me, p) /\ Leads(Tail(todo), q)
    BY <1>3 DEF Between
  <2>8. Placed(me', p)
    BY <1>2, <1>4, <2>1, <2>7, PlacedSame DEF Stays
  <2>9. OpsOK(me', ops') /\ Stacked(ops', p)
    BY <1>1, <1>2, <2>1, <2>7, OpsStay
  <2> QED
    BY <1>1, <1>4, <2>1, <2>3, <2>6, <2>7, <2>8, <2>9, Continue
<1> QED
  BY <1>1, <1>8, <1>9

LEMMA StepPlace ==
  ASSUME Inv, LowerPlace
  PROVE  Inv' /\ Keeps(me, me')
<1> DEFINE e == Task.e
           r1 == Put(FromLocal(me.sym_to_local[e.what]))
           t1 == Expr(e.args[1])
           t2 == Materialize(e.args[1].own)
           t3 == Expr(e.args[2])
           t4 == Materialize(e.args[2].own)
           tasks == CASE e.k = "ref" -> <<r1>>
                      [] e.k = "deref" -> <<t1, t2, DerefIt>>
                      [] e.k = "index" -> <<t1, t2, t3, t4, IndexIt>>
<1>1. /\ Running /\ Task.do = "place" /\ me' = me /\ ops' = ops /\ pc' = pc /\ Then(tasks)
  BY DEF LowerPlace, Doing
<1>2. PICK p, q : Between(p, q)
  BY <1>1, NowBetween
<1>3. /\ e \in HirExpr /\ IsExpr(e) /\ PlaceExpr(me, e) /\ BuilderOK(me)
      /\ p \in Point /\ q \in Point /\ p.depth \in Nat
      /\ Is(p, p, <<>>, "open", p.depth, p.pend)
      /\ q.flag \in {"open", "any"} /\ Is(p, q, <<"place">>, q.flag, p.depth, p.pend)
  <2>1. Leaves(Task) = <<"place">>
    BY <1>1 DEF Leaves
  <2>2. TaskOK(me, Task) => Task.e \in HirExpr /\ PlaceExpr(me, Task.e)
    BY <1>1 DEF TaskOK
  <2> QED
    BY <1>1, <1>2, <2>1, <2>2, StraightTask, NowBetween, HirAssumption
<1>4. PICK a1 : Is(p, a1, <<"operand">>, "open", p.depth, p.pend)
  BY <1>3, Kinds, OpenPoint
<1>5. PICK a2 : Is(p, a2, <<"place">>, "open", p.depth, p.pend)
  BY <1>3, Kinds, OpenPoint
<1>6. PICK a3 : Is(p, a3, <<"place", "operand">>, "open", p.depth, p.pend)
  BY <1>3, Kinds, OpenPoint
<1>7. PICK a4 : Is(p, a4, <<"place", "place">>, "open", p.depth, p.pend)
  BY <1>3, Kinds, OpenPoint
<1>8. /\ t1.do \in Straight /\ t2.do \in Straight /\ t3.do \in Straight /\ t4.do \in Straight
      /\ DerefIt.do \in Straight /\ IndexIt.do \in Straight /\ r1.do \in Straight
  BY TaskKinds DEF Straight
<1>9. /\ Takes(t1) = <<>> /\ Leaves(t1) = <<"operand">>
      /\ Takes(t2) = <<"operand">> /\ Leaves(t2) = <<"place">>
      /\ Takes(t3) = <<>> /\ Leaves(t3) = <<"operand">>
      /\ Takes(t4) = <<"operand">> /\ Leaves(t4) = <<"place">>
      /\ Takes(DerefIt) = <<"place">> /\ Leaves(DerefIt) = <<"place">>
      /\ Takes(IndexIt) = <<"place", "place">> /\ Leaves(IndexIt) = <<"place">>
  BY TaskKinds
<1>10. CASE e.k = "ref"
  <2>1. e.what \in DOMAIN me.sym_to_local
    BY <1>3, <1>10 DEF PlaceExpr
  <2>2. me.sym_to_local[e.what] \in Locals(me)
    BY <1>3, <2>1 DEF BuilderOK, Range
  <2>3. /\ ValueIn(me, FromLocal(me.sym_to_local[e.what]))
        /\ KindOf(FromLocal(me.sym_to_local[e.what])) = "place"
    BY <2>2, Values
  <2>4. TaskOK(me, r1) /\ Takes(r1) = <<>> /\ Leaves(r1) = <<"place">>
    BY <2>3, TaskIsOK, TaskKinds
  <2>5. tasks = <<r1>>
    BY <1>10
  <2> HIDE DEF r1, tasks
  <2>6. Effect(r1, p, q)
    BY <1>3, <1>8, <2>4, Kinds, StraightHere
  <2>7. Runs(<<r1>>, p, q) /\ TasksOK(me, <<r1>>)
    BY <1>3, <2>4, <2>6, RunsOne, TasksOne
  <2> QED
    BY <1>1, <1>2, <2>5, <2>7, Expand
<1>11. CASE e.k = "deref"
  <2>1. TaskOK(me, t1) /\ TaskOK(me, t2) /\ TaskOK(me, DerefIt)
    <3>1. 1 \in 1 .. Len(e.args)
      <4>1. IsExpr(e)
        BY <1>3
      <4>2. Len(e.args) = 1
        BY <1>11, <4>1, ArgsAre
      <4> QED
        BY <4>2
    <3>2. e.args[1] \in HirExpr
      BY <1>3, <3>1, ArgsAre
    <3> QED
      BY <3>2, TaskIsOK
  <2>2. tasks = <<t1, t2, DerefIt>>
    BY <1>11
  <2> HIDE DEF t1, t2, tasks
  <2>3. Effect(t1, p, a1)
    BY <1>3, <1>4, <1>8, <1>9, Kinds, StraightHere
  <2>4. Effect(t2, a1, a2)
    BY <1>3, <1>4, <1>5, <1>8, <1>9, Kinds, StraightHere
  <2>5. Effect(DerefIt, a2, q)
    BY <1>3, <1>5, <1>8, <1>9, Kinds, StraightHere
  <2>6. Runs(<<t1, t2, DerefIt>>, p, q)
    BY <1>3, <1>4, <1>5, <2>3, <2>4, <2>5, RunsThree DEF Is
  <2>7. TasksOK(me, <<t1, t2, DerefIt>>)
    BY <2>1, TasksThree
  <2> QED
    BY <1>1, <1>2, <2>2, <2>6, <2>7, Expand
<1>12. CASE e.k = "index"
  <2>1. TaskOK(me, t1) /\ TaskOK(me, t2) /\ TaskOK(me, t3) /\ TaskOK(me, t4) /\ TaskOK(me, IndexIt)
    <3>1. 1 \in 1 .. Len(e.args) /\ 2 \in 1 .. Len(e.args)
      <4>1. IsExpr(e)
        BY <1>3
      <4>2. Len(e.args) = 2
        BY <1>12, <4>1, ArgsAre
      <4> QED
        BY <4>2
    <3>2. e.args[1] \in HirExpr /\ e.args[2] \in HirExpr
      BY <1>3, <3>1, ArgsAre
    <3> QED
      BY <3>2, TaskIsOK
  <2>2. tasks = <<t1, t2, t3, t4, IndexIt>>
    BY <1>12
  <2> HIDE DEF t1, t2, t3, t4, tasks
  <2>3. Effect(t1, p, a1)
    BY <1>3, <1>4, <1>8, <1>9, Kinds, StraightHere
  <2>4. Effect(t2, a1, a2)
    BY <1>3, <1>4, <1>5, <1>8, <1>9, Kinds, StraightHere
  <2>5. Effect(t3, a2, a3)
    <3>1. <<"place">> = <<"place">> \o Takes(t3) /\ <<"place", "operand">> = <<"place">> \o Leaves(t3)
      BY <1>9, MoreKinds
    <3> QED
      BY <1>3, <1>5, <1>6, <1>8, <1>9, <3>1, Kinds, StraightOver
  <2>6. Effect(t4, a3, a4)
    <3>1. /\ <<"place", "operand">> = <<"place">> \o Takes(t4)
          /\ <<"place", "place">> = <<"place">> \o Leaves(t4)
      BY <1>9, MoreKinds
    <3> QED
      BY <1>3, <1>6, <1>7, <1>8, <1>9, <3>1, Kinds, StraightOver
  <2>7. Effect(IndexIt, a4, q)
    BY <1>3, <1>7, <1>8, <1>9, Kinds, StraightHere
  <2>8. Runs(<<t1, t2, t3, t4, IndexIt>>, p, q)
    BY <1>3, <1>4, <1>5, <1>6, <1>7, <2>3, <2>4, <2>5, <2>6, <2>7, RunsFive DEF Is
  <2>9. TasksOK(me, <<t1, t2, t3, t4, IndexIt>>)
    BY <2>1, TasksFive
  <2> QED
    BY <1>1, <1>2, <2>2, <2>8, <2>9, Expand
<1> QED
  BY <1>3, <1>10, <1>11, <1>12 DEF PlaceExpr

-----------------------------------------------------------------------------
(* The effects of the tasks that leave their block.                           *)

LEMMA ControlEffect ==
  ASSUME NEW p \in Point, NEW t, NEW a, NEW b,
         NEW in \in Seq(Kind), NEW out \in Seq(Kind), in = Takes(t), out = Leaves(t),
         NEW f, NEW g, NEW d \in Nat, NEW e \in Nat, NEW A, NEW B,
         Is(p, a, in, f, d, A), Is(p, b, out, g, e, B), e = d + Loops(t), Flow(t, a, b)
  PROVE  Effect(t, a, b)
<1>1. /\ a \in Point /\ b \in Point /\ Over(p, a, in) /\ Over(p, b, out)
      /\ b.depth = a.depth + Loops(t)
  BY DEF Is
<1>2. <<>> \in Seq(Kind) /\ <<>> \o in = in /\ <<>> \o out = out
  BY EmptySeq, ConcatEmptySeq
<1>3. Stack(a, b, in, out)
  BY <1>1, <1>2, StackFrame
<1> QED
  BY <1>1, <1>3 DEF Effect

LEMMA StmtEffect ==
  ASSUME NEW p \in Point, NEW d \in Nat, NEW A, NEW a, NEW b, NEW f, Is(p, b, <<>>, f, d, A)
  PROVE  /\ \A s : Is(p, a, <<>>, "open", d, A) /\ (f = "any" \/ (f = "open" /\ IsForInit(s)))
                     => Effect(Stmt(s), a, b)
         /\ \A s : Is(p, a, <<>>, "open", d, A) /\ f = "any" => Effect(ForRest(s), a, b)
         /\ \A ss : (Is(p, a, <<>>, "open", d, A) \/ Is(p, a, <<>>, "any", d, A)) /\ f = "any"
                      => Effect(Block(ss), a, b)
         /\ \A c : (Is(p, a, <<>>, "open", d, A) \/ Is(p, a, <<>>, "any", d, A)) /\ f = "closed"
                     => Effect(Close(c), a, b)
         /\ \A t : Is(p, a, <<>>, "open", d, A) /\ f \in {"closed", "any"} => Effect(Jump(t), a, b)
         /\ \A j : Is(p, a, <<>>, "join", d, A) /\ a.at = j /\ f = "closed"
                     => Effect(Jump(Goto(j)), a, b)
         /\ \A x, y : Is(p, a, <<"operand">>, "open", d, A) /\ f = "closed"
                        => Effect(Branch(x, y), a, b)
<1>1. d + 0 = d
  OBVIOUS
<1>2. ASSUME NEW s, Is(p, a, <<>>, "open", d, A), f = "any" \/ (f = "open" /\ IsForInit(s))
      PROVE  Effect(Stmt(s), a, b)
  <2>1. /\ Takes(Stmt(s)) = <<>> /\ Leaves(Stmt(s)) = <<>> /\ Loops(Stmt(s)) = 0
        /\ Flow(Stmt(s), a, b)
    BY <1>2 DEF Takes, Leaves, Loops, Flow, Stmt, Is
  <2> QED
    BY <1>1, <1>2, <2>1, Kinds, ControlEffect
<1>3. ASSUME NEW s, Is(p, a, <<>>, "open", d, A), f = "any"
      PROVE  Effect(ForRest(s), a, b)
  <2>1. /\ Takes(ForRest(s)) = <<>> /\ Leaves(ForRest(s)) = <<>> /\ Loops(ForRest(s)) = 0
        /\ Flow(ForRest(s), a, b)
    BY <1>3 DEF Takes, Leaves, Loops, Flow, ForRest, Is
  <2> QED
    BY <1>1, <1>3, <2>1, Kinds, ControlEffect
<1>4. ASSUME NEW ss, Is(p, a, <<>>, "open", d, A) \/ Is(p, a, <<>>, "any", d, A), f = "any"
      PROVE  Effect(Block(ss), a, b)
  <2>1. /\ Takes(Block(ss)) = <<>> /\ Leaves(Block(ss)) = <<>> /\ Loops(Block(ss)) = 0
        /\ Flow(Block(ss), a, b)
    BY <1>4 DEF Takes, Leaves, Loops, Flow, Block, Is
  <2> QED
    BY <1>1, <1>4, <2>1, Kinds, ControlEffect
<1>5. ASSUME NEW c, Is(p, a, <<>>, "open", d, A) \/ Is(p, a, <<>>, "any", d, A), f = "closed"
      PROVE  Effect(Close(c), a, b)
  <2>1. /\ Takes(Close(c)) = <<>> /\ Leaves(Close(c)) = <<>> /\ Loops(Close(c)) = 0
        /\ Flow(Close(c), a, b)
    BY <1>5 DEF Takes, Leaves, Loops, Flow, Close, Is
  <2> QED
    BY <1>1, <1>5, <2>1, Kinds, ControlEffect
<1>6. ASSUME NEW t,
             \/ Is(p, a, <<>>, "open", d, A) /\ f \in {"closed", "any"}
             \/ Is(p, a, <<>>, "join", d, A) /\ f = "closed" /\ t = Goto(a.at)
      PROVE  Effect(Jump(t), a, b)
  <2>1. /\ Takes(Jump(t)) = <<>> /\ Leaves(Jump(t)) = <<>> /\ Loops(Jump(t)) = 0
        /\ Flow(Jump(t), a, b)
    BY <1>6 DEF Takes, Leaves, Loops, Flow, Jump, Is
  <2> QED
    BY <1>1, <1>6, <2>1, Kinds, ControlEffect
<1>7. ASSUME NEW x, NEW y, Is(p, a, <<"operand">>, "open", d, A), f = "closed"
      PROVE  Effect(Branch(x, y), a, b)
  <2>1. /\ Takes(Branch(x, y)) = <<"operand">> /\ Leaves(Branch(x, y)) = <<>>
        /\ Loops(Branch(x, y)) = 0 /\ Flow(Branch(x, y), a, b)
    BY <1>7 DEF Takes, Leaves, Loops, Flow, Branch, Is
  <2> QED
    BY <1>1, <1>7, <2>1, Kinds, ControlEffect
<1> QED
  BY <1>2, <1>3, <1>4, <1>5, <1>6, <1>7

\* Entering a block: for good, or the join block of && and || for the first time.
LEMMA EnterEffect ==
  ASSUME NEW p \in Point, NEW d \in Nat, NEW A, NEW B, NEW a, NEW b, NEW f, NEW blk,
         Is(p, a, <<>>, "closed", d, A), Is(p, b, <<>>, f, d, B), A = B \cup {blk},
         \/ f \in {"open", "any"} /\ blk \notin B
         \/ f = "join" /\ b.at = blk /\ blk \in B
  PROVE  Effect(Enter(blk), a, b)
<1>1. d + 0 = d
  OBVIOUS
<1>2. /\ Takes(Enter(blk)) = <<>> /\ Leaves(Enter(blk)) = <<>> /\ Loops(Enter(blk)) = 0
      /\ Flow(Enter(blk), a, b)
  BY DEF Takes, Leaves, Loops, Flow, Enter, Is
<1> QED
  BY <1>1, <1>2, Kinds, ControlEffect

LEMMA LoopEffect ==
  ASSUME NEW p \in Point, NEW d \in Nat, NEW A, NEW a, NEW b,
         Is(p, a, <<>>, "closed", d, A), Is(p, b, <<>>, "closed", d + 1, A)
  PROVE  /\ \A x, y : Effect(PushLoop(x, y), a, b)
         /\ Effect(PopLoop, b, a)
<1>1. d + 1 \in Nat /\ d = d + 1 + -1
  OBVIOUS
<1>2. ASSUME NEW x, NEW y
      PROVE  Effect(PushLoop(x, y), a, b)
  <2>1. /\ Takes(PushLoop(x, y)) = <<>> /\ Leaves(PushLoop(x, y)) = <<>>
        /\ Loops(PushLoop(x, y)) = 1 /\ Flow(PushLoop(x, y), a, b)
    BY DEF Takes, Leaves, Loops, Flow, PushLoop, Is
  <2> QED
    BY <1>1, <2>1, Kinds, ControlEffect
<1>3. Effect(PopLoop, b, a)
  <2>1. /\ Takes(PopLoop) = <<>> /\ Leaves(PopLoop) = <<>> /\ Loops(PopLoop) = -1
        /\ Flow(PopLoop, b, a)
    BY DEF Takes, Leaves, Loops, Flow, PopLoop, Is
  <2> QED
    BY <1>1, <2>1, Kinds, ControlEffect
<1> QED
  BY <1>2, <1>3

\* What is put and stored in the join block.
LEMMA JoinEffect ==
  ASSUME NEW p \in Point, NEW d \in Nat, NEW A, NEW a, NEW b, a.at = b.at,
         Is(p, a, <<>>, "join", d, A), Is(p, b, <<"operand">>, "join", d, A)
  PROVE  /\ \A x : KindOf(x) = "operand" => Effect(Put(x), a, b)
         /\ \A l : Effect(Store(l), b, a)
<1>1. d + 0 = d
  OBVIOUS
<1>2. ASSUME NEW x, KindOf(x) = "operand"
      PROVE  Effect(Put(x), a, b)
  <2>1. /\ Takes(Put(x)) = <<>> /\ Leaves(Put(x)) = <<"operand">> /\ Loops(Put(x)) = 0
        /\ Flow(Put(x), a, b)
    BY <1>2 DEF Takes, Leaves, Loops, Flow, Put, Is
  <2> QED
    BY <1>1, <2>1, Kinds, ControlEffect
<1>3. ASSUME NEW l
      PROVE  Effect(Store(l), b, a)
  <2>1. /\ Takes(Store(l)) = <<"operand">> /\ Leaves(Store(l)) = <<>> /\ Loops(Store(l)) = 0
        /\ Flow(Store(l), b, a)
    BY DEF Takes, Leaves, Loops, Flow, Store, Is
  <2> QED
    BY <1>1, <2>1, Kinds, ControlEffect
<1> QED
  BY <1>2, <1>3

-----------------------------------------------------------------------------
(* Statements and declarations.                                               *)

\* A point of the given flag where p is.
LEMMA HerePoint ==
  ASSUME NEW p \in Point, NEW f \in Flag
  PROVE  \E a : Is(p, a, <<>>, f, p.depth, p.pend)
<1>1. p.at \in Int /\ p.depth \in Nat /\ p.pend \in SUBSET Int
  BY DEF Point
<1> QED
  BY <1>1, Kinds, AtIs

\* Less is known of the block.
LEMMA PlacedAny ==
  ASSUME NEW m, NEW p \in Point, Placed(m, p), p.flag \in {"open", "any"},
         NEW q, q.flag = "any", q.depth = p.depth, q.pend = p.pend
  PROVE  Placed(m, q)
BY DEF Placed

\* A task that turns out to need nothing.
LEMMA ExpandToNothing ==
  ASSUME Inv, Running, me' = me, ops' = ops, pc' = pc, Then(<<>>),
         NEW p, NEW q, Between(p, q), p.flag \in {"open", "any"}, q.flag = "any" \/ q.flag = p.flag,
         Is(p, q, <<>>, q.flag, p.depth, p.pend)
  PROVE  Inv' /\ Keeps(me, me')
<1>1. BuilderOK(me) /\ OpsOK(me, ops)
  BY NowBetween
<1>2. p \in Point /\ q \in Point /\ Stacked(ops, p) /\ Placed(me, p) /\ Leads(Tail(todo), q)
  BY DEF Between
<1>3. Keeps(me, me')
  BY <1>1, KeepsSame
<1>4. Stacked(ops', q)
  BY <1>2, StackedNothing DEF Is
<1>5. Placed(me', q)
  <2>1. q.depth = p.depth /\ q.pend = p.pend
    BY DEF Is
  <2>2. CASE q.flag = "any"
    BY <1>2, <2>1, <2>2, PlacedAny
  <2>3. CASE q.flag = p.flag
    BY <1>2, <2>1, <2>3 DEF Placed
  <2> QED
    BY <2>2, <2>3
<1> QED
  BY <1>1, <1>2, <1>3, <1>4, <1>5, ContinueAfter

LEMMA StepBlock ==
  ASSUME Inv, LowerBlock
  PROVE  Inv' /\ Keeps(me, me')
<1> DEFINE ss == Task.ss
           rest == ss # <<>> /\ IsCurrentLive(me)
           t1 == Stmt(Head(ss))
           t2 == Block(Tail(ss))
<1>1. /\ Running /\ Task.do = "block" /\ me' = me /\ ops' = ops /\ pc' = pc
      /\ Then(IF rest THEN <<t1, t2>> ELSE <<>>)
  <2>1. /\ Running /\ Task.do = "block" /\ me' = me /\ ops' = ops /\ pc' = pc
        /\ Then(IF ss = <<>> \/ ~ IsCurrentLive(me) THEN <<>> ELSE <<t1, t2>>)
    BY DEF LowerBlock, Doing
  <2>2. CASE rest
    BY <2>1, <2>2
  <2>3. CASE ~ rest
    BY <2>1, <2>3
  <2> QED
    BY <2>2, <2>3
<1>2. PICK p, q : Between(p, q)
  BY <1>1, NowBetween
<1>3. /\ ss \in Seq(HirStmt) /\ p \in Point /\ q \in Point /\ p.depth \in Nat
      /\ Is(p, p, <<>>, p.flag, p.depth, p.pend) /\ Is(p, q, <<>>, q.flag, p.depth, p.pend)
      /\ p.flag \in {"open", "any"} /\ q.flag = "any"
  <2>1. TaskOK(me, Task) => Task.ss \in Seq(HirStmt)
    BY <1>1 DEF TaskOK
  <2> QED
    BY <1>1, <1>2, <2>1, StatementTask
<1>4. CASE ~ rest
  <2>1. Then(<<>>)
    BY <1>1, <1>4
  <2> QED
    BY <1>1, <1>2, <1>3, <2>1, ExpandToNothing
<1>5. CASE rest
  <2>1. Head(ss) \in HirStmt /\ Tail(ss) \in Seq(HirStmt)
    BY <1>3, <1>5, HeadTailProperties
  <2>2. Then(<<t1, t2>>)
    BY <1>1, <1>5
  <2>3. TaskOK(me, t1) /\ TaskOK(me, t2)
    BY <2>1, TaskIsOK
  <2>4. TasksOK(me, <<t1, t2>>)
    BY <2>3, TasksTwo
  <2>5. "open" \in Flag /\ "any" \in Flag
    BY DEF Flag
  <2>6. PICK a : Is(p, a, <<>>, "open", p.depth, p.pend)
    BY <1>3, <2>5, HerePoint
  <2>7. PICK b : Is(p, b, <<>>, "any", p.depth, p.pend)
    BY <1>3, <2>5, HerePoint
  <2>8. BuilderOK(me) /\ OpsOK(me, ops) /\ Stacked(ops, p) /\ Placed(me, p) /\ Leads(Tail(todo), q)
    BY <1>1, <1>2, NowBetween DEF Between
  <2>9. Placed(me, a)
    <3>1. a.flag = "open" /\ a.depth = p.depth /\ a.pend = p.pend
      BY <2>6 DEF Is
    <3>2. Writable(me, me.current)
      BY <1>5, <2>8, LiveIs DEF Writable
    <3> QED
      BY <1>3, <2>8, <3>1, <3>2 DEF Placed
  <2>10. Stacked(ops, a)
    BY <1>3, <2>6, <2>8, StackedNothing DEF Is
  <2>11. Effect(t1, a, b)
    BY <1>3, <2>6, <2>7, StmtEffect
  <2>12. Effect(t2, b, q)
    BY <1>3, <2>7, StmtEffect
  <2> HIDE DEF t1, t2
  <2>13. a \in Point /\ b \in Point
    BY <2>6, <2>7 DEF Is
  <2>14. Runs(<<t1, t2>>, a, q)
    BY <1>3, <2>11, <2>12, <2>13, RunsTwo
  <2>15. Keeps(me, me')
    BY <1>1, <2>8, KeepsSame
  <2> QED
    BY <1>1, <1>3, <2>2, <2>4, <2>8, <2>9, <2>10, <2>13, <2>14, <2>15, Continue
<1> QED
  BY <1>4, <1>5

\* The statement to lower.
LEMMA StmtTask ==
  ASSUME Inv, Running, Task.do = "stmt", NEW p, NEW q, Between(p, q)
  PROVE  /\ Task.s \in HirStmt /\ IsStmt(Task.s)
         /\ p \in Point /\ q \in Point /\ p.depth \in Nat /\ p.flag = "open"
         /\ Is(p, p, <<>>, "open", p.depth, p.pend) /\ Is(p, q, <<>>, q.flag, p.depth, p.pend)
         /\ q.flag = "any" \/ (q.flag = "open" /\ IsForInit(Task.s))
<1>1. TaskOK(me, Task) => Task.s \in HirStmt
  BY DEF TaskOK
<1>2. /\ TaskOK(me, Task) /\ p \in Point /\ q \in Point /\ p.depth \in Nat
      /\ Is(p, p, <<>>, p.flag, p.depth, p.pend) /\ Is(p, q, <<>>, q.flag, p.depth, p.pend)
      /\ p.flag = "open"
      /\ q.flag = "any" \/ (q.flag = "open" /\ IsForInit(Task.s))
  BY StatementTask
<1> QED
  BY <1>1, <1>2, HirAssumption

LEMMA StepCompound ==
  ASSUME Inv, LowerCompound
  PROVE  Inv' /\ Keeps(me, me')
<1> DEFINE t == Block(Task.s.body)
<1>1. /\ Running /\ Task.do = "stmt" /\ Task.s.k = "compound" /\ me' = me /\ ops' = ops /\ pc' = pc
      /\ Then(<<t>>)
  BY DEF LowerCompound, Statement, Doing
<1>2. PICK p, q : Between(p, q)
  BY <1>1, NowBetween
<1>3. /\ IsStmt(Task.s) /\ p \in Point /\ q \in Point /\ p.depth \in Nat
      /\ Is(p, p, <<>>, "open", p.depth, p.pend) /\ Is(p, q, <<>>, q.flag, p.depth, p.pend)
      /\ q.flag = "any"
  BY <1>1, <1>2, StmtTask DEF IsForInit
<1>4. Task.s.body \in Seq(HirStmt)
  BY <1>1, <1>3 DEF IsStmt
<1>5. TaskOK(me, t)
  BY <1>4, TaskIsOK
<1>6. Effect(t, p, q)
  BY <1>3, StmtEffect
<1> HIDE DEF t
<1>7. TasksOK(me, <<t>>) /\ Runs(<<t>>, p, q)
  BY <1>3, <1>5, <1>6, TasksOne, RunsOne
<1> QED
  BY <1>1, <1>2, <1>7, Expand

LEMMA StepExprStmt ==
  ASSUME Inv, LowerExprStmt
  PROVE  Inv' /\ Keeps(me, me')
<1> DEFINE t == Expr(Task.s.e)
<1>1. /\ Running /\ Task.do = "stmt" /\ Task.s.k = "expr" /\ me' = me /\ ops' = ops /\ pc' = pc
      /\ Then(<<t, Discard>>)
  BY DEF LowerExprStmt, Statement, Doing
<1>2. PICK p, q : Between(p, q)
  BY <1>1, NowBetween
<1>3. /\ IsStmt(Task.s) /\ p \in Point /\ q \in Point /\ p.depth \in Nat
      /\ Is(p, p, <<>>, "open", p.depth, p.pend) /\ Is(p, q, <<>>, q.flag, p.depth, p.pend)
      /\ q.flag \in {"open", "any"}
  BY <1>1, <1>2, StmtTask
<1>4. Task.s.e \in HirExpr
  BY <1>1, <1>3 DEF IsStmt
<1>5. TasksOK(me, <<t, Discard>>)
  BY <1>4, TaskIsOK, TasksTwo
<1>6. PICK a : Is(p, a, <<"operand">>, "open", p.depth, p.pend)
  BY <1>3, Kinds, OpenPoint
<1>7. t.do \in Straight /\ Discard.do \in Straight
  BY TaskKinds DEF Straight
<1>8. Effect(t, p, a)
  BY <1>3, <1>6, <1>7, Kinds, TaskKinds, StraightHere
<1>9. Effect(Discard, a, q)
  BY <1>3, <1>6, <1>7, Kinds, TaskKinds, StraightHere
<1> HIDE DEF t
<1>10. Runs(<<t, Discard>>, p, q)
  BY <1>3, <1>6, <1>8, <1>9, RunsTwo DEF Is
<1> QED
  BY <1>1, <1>2, <1>5, <1>10, Expand

LEMMA StepEmpty ==
  ASSUME Inv, LowerEmpty
  PROVE  Inv' /\ Keeps(me, me')
<1>1. /\ Running /\ Task.do = "stmt" /\ Task.s.k = "empty" /\ me' = me /\ ops' = ops /\ pc' = pc
      /\ Then(<<>>)
  BY DEF LowerEmpty, Statement, Doing
<1>2. PICK p, q : Between(p, q)
  BY <1>1, NowBetween
<1>3. /\ p.flag = "open" /\ q.flag = "any" /\ Is(p, q, <<>>, q.flag, p.depth, p.pend)
  BY <1>1, <1>2, StmtTask DEF IsForInit
<1> QED
  BY <1>1, <1>2, <1>3, ExpandToNothing

\* Declarations one after the other.
LEMMA RunsDecls ==
  ASSUME NEW ts, IsSequence(ts), Len(ts) # 0, \A i \in 1 .. Len(ts) : \E d : ts[i] = Decl(d),
         NEW p \in Point, NEW q \in Point, NEW f \in {"open", "any"},
         Is(p, p, <<>>, "open", p.depth, p.pend), Is(p, q, <<>>, f, p.depth, p.pend)
  PROVE  Runs(ts, p, q)
<1> DEFINE n == Len(ts)
           h == [i \in 1 .. n + 1 |-> IF i = n + 1 THEN q ELSE p]
<1>1. n \in Nat \ {0}
  BY SequenceElim
<1>2. \A d : Effect(Decl(d), p, p) /\ Effect(Decl(d), p, q)
  <2>1. ASSUME NEW d
        PROVE  Effect(Decl(d), p, p) /\ Effect(Decl(d), p, q)
    <3>1. Decl(d).do \in Straight /\ Takes(Decl(d)) = <<>> /\ Leaves(Decl(d)) = <<>>
      BY TaskKinds DEF Straight
    <3>2. p.depth \in Nat
      BY IsItself
    <3> QED
      BY <3>1, <3>2, Kinds, StraightHere
  <2> QED
    BY <2>1
<1> HIDE DEF n
<1>3. h \in [1 .. n + 1 -> Point] /\ h[1] = p /\ h[n + 1] = q
  BY <1>1
<1>4. ASSUME NEW i \in 1 .. n
      PROVE  Effect(ts[i], h[i], h[i + 1])
  <2>1. h[i] = p /\ h[i + 1] \in {p, q}
    BY <1>1
  <2>2. PICK d : ts[i] = Decl(d)
    BY DEF n
  <2> HIDE DEF h
  <2> QED
    BY <1>2, <2>1, <2>2
<1> HIDE DEF h
<1> QED
  BY <1>3, <1>4 DEF Runs, n

LEMMA StepDeclStmt ==
  ASSUME Inv, LowerDeclStmt
  PROVE  Inv' /\ Keeps(me, me')
<1> DEFINE ds == Task.s.ds
           ts == [i \in DOMAIN ds |-> Decl(ds[i])]
<1>1. /\ Running /\ Task.do = "stmt" /\ Task.s.k = "decl" /\ me' = me /\ ops' = ops /\ pc' = pc
      /\ Then(ts)
  BY DEF LowerDeclStmt, Statement, Doing
<1>2. PICK p, q : Between(p, q)
  BY <1>1, NowBetween
<1>3. /\ IsStmt(Task.s) /\ p \in Point /\ q \in Point /\ p.depth \in Nat /\ p.flag = "open"
      /\ Is(p, p, <<>>, "open", p.depth, p.pend) /\ Is(p, q, <<>>, q.flag, p.depth, p.pend)
      /\ q.flag \in {"open", "any"}
  BY <1>1, <1>2, StmtTask
<1>4. IsSequence(ds) /\ \A i \in 1 .. Len(ds) : IsDecl(ds[i])
  <2>1. ds \in Seq(Range(ds)) /\ \A d \in Range(ds) : IsDecl(d)
    BY <1>1, <1>3 DEF IsStmt
  <2> HIDE DEF ds
  <2>2. IsSequence(ds)
    BY <2>1, SequenceIntro
  <2> QED
    BY <2>1, <2>2, SequenceElim
<1> HIDE DEF ds
<1>5. /\ IsSequence(ts) /\ Len(ts) = Len(ds) /\ \A i \in 1 .. Len(ds) : ts[i] = Decl(ds[i])
  <2>1. DOMAIN ds = 1 .. Len(ds) /\ Len(ds) \in Nat
    BY <1>4, SequenceElim
  <2>2. ts = [i \in 1 .. Len(ds) |-> Decl(ds[i])]
    BY <2>1
  <2>3. \A i \in 1 .. Len(ds) : ts[i] = Decl(ds[i])
    BY <2>1
  <2>4. ts = [i \in 1 .. Len(ds) |-> ts[i]]
    BY <2>2, <2>3
  <2> HIDE DEF ts
  <2> QED
    BY <2>1, <2>3, <2>4, SequenceByIndex
<1> HIDE DEF ts
<1>6. TasksOK(me, ts)
  BY <1>4, <1>5, TaskIsOK DEF TasksOK
<1>7. CASE Len(ts) = 0
  <2>1. Then(<<>>)
    <3>1. ts = <<>>
      BY <1>5, <1>7, SequenceElim
    <3> QED
      BY <1>1, <3>1
  <2> QED
    BY <1>1, <1>2, <1>3, <2>1, ExpandToNothing
<1>8. CASE Len(ts) # 0
  <2>1. Runs(ts, p, q)
    BY <1>3, <1>5, <1>8, RunsDecls
  <2> QED
    BY <1>1, <1>2, <1>6, <2>1, Expand
<1> QED
  BY <1>7, <1>8

\* Optional parts.
LEMMA OptionalExpr ==
  ASSUME NEW es, IsOptional(es, HirExpr)
  PROVE  \/ es = <<>>
         \/ es # <<>> /\ es[1] \in HirExpr /\ Exprs(es) = <<Expr(es[1])>>
<1>1. es \in Seq(HirExpr) /\ Len(es) \in Nat /\ Len(es) <= 1 /\ DOMAIN es = 1 .. Len(es)
  BY LenProperties DEF IsOptional
<1>2. SUFFICES ASSUME es # <<>>
               PROVE  es[1] \in HirExpr /\ Exprs(es) = <<Expr(es[1])>>
  OBVIOUS
<1>3. Len(es) = 1
  BY <1>1, <1>2, EmptySeq
<1>4. es[1] \in HirExpr
  BY <1>1, <1>3, ElementOfSeq
<1>5. Exprs(es) = [i \in 1 .. 1 |-> Expr(es[i])]
  BY <1>1, <1>3 DEF Exprs
<1>6. [i \in 1 .. 1 |-> Expr(es[i])] = <<Expr(es[1])>>
  <2>1. \A i \in 1 .. 1 : i = 1
    OBVIOUS
  <2> QED
    BY <2>1
<1> QED
  BY <1>4, <1>5, <1>6

LEMMA OptionalStmt ==
  ASSUME NEW ss, IsOptional(ss, HirStmt)
  PROVE  \/ ss = <<>> /\ [i \in DOMAIN ss |-> Stmt(ss[i])] = <<>>
         \/ /\ ss # <<>> /\ ss[1] \in HirStmt /\ ss[1] \in Range(ss)
            /\ [i \in DOMAIN ss |-> Stmt(ss[i])] = <<Stmt(ss[1])>>
<1>1. ss \in Seq(HirStmt) /\ Len(ss) \in Nat /\ Len(ss) <= 1 /\ DOMAIN ss = 1 .. Len(ss)
  BY LenProperties DEF IsOptional
<1>2. CASE ss = <<>>
  BY <1>2
<1>3. CASE ss # <<>>
  <2>1. Len(ss) = 1
    BY <1>1, <1>3, EmptySeq
  <2>2. ss[1] \in HirStmt /\ ss[1] \in Range(ss)
    BY <1>1, <2>1, ElementOfSeq DEF Range
  <2>3. [i \in DOMAIN ss |-> Stmt(ss[i])] = [i \in 1 .. 1 |-> Stmt(ss[i])]
    BY <1>1, <2>1
  <2>4. [i \in 1 .. 1 |-> Stmt(ss[i])] = <<Stmt(ss[1])>>
    <3>1. \A i \in 1 .. 1 : i = 1
      OBVIOUS
    <3> QED
      BY <3>1
  <2> QED
    BY <1>3, <2>2, <2>3, <2>4
<1> QED
  BY <1>2, <1>3

LEMMA StepDecl ==
  ASSUME Inv, LowerDecl
  PROVE  Inv' /\ Keeps(me, me')
<1> DEFINE d == Task.d
           l == NextLocal(me)
           t1 == Expr(d.init[1])
           t2 == Store(l)
<1>1. /\ Running /\ Task.do = "decl" /\ ops' = ops /\ pc' = pc
      /\ me' = PushStmt(DeclareVar(me, d.sym, d.own), StorageLive(l))
      /\ Then(IfAny(d.init, Exprs(d.init) \o <<t2>>))
  BY DEF LowerDecl, Doing
<1>2. BuilderOK(me) /\ OpsOK(me, ops)
  BY <1>1, NowBetween
<1>3. PICK p, q : Between(p, q)
  BY <1>1, NowBetween
<1>4. /\ IsDecl(d) /\ p \in Point /\ q \in Point /\ p.depth \in Nat /\ p.flag = "open"
      /\ Is(p, p, <<>>, "open", p.depth, p.pend)
      /\ q.flag \in {"open", "any"} /\ Is(p, q, <<>>, q.flag, p.depth, p.pend)
  <2>1. Leaves(Task) = <<>> /\ (TaskOK(me, Task) => IsDecl(Task.d))
    BY <1>1 DEF Leaves, TaskOK
  <2> QED
    BY <1>1, <1>3, <2>1, StraightTask
<1>5. Stacked(ops, p) /\ Placed(me, p) /\ Leads(Tail(todo), q)
  BY <1>3 DEF Between
<1>6. BuilderOK(me') /\ Keeps(me, me') /\ SameFlow(me, me') /\ l \in Locals(me')
  <2>1. Writable(me, me.current)
    BY <1>4, <1>5 DEF Placed
  <2> QED
    BY <1>1, <1>2, <2>1, DeclareOK
<1>7. OpsOK(me', ops') /\ Stacked(ops', p)
  BY <1>1, <1>2, <1>5, <1>6, OpsStay
<1>8. CASE d.init = <<>>
  <2>1. Then(<<>>)
    BY <1>1, <1>8 DEF IfAny
  <2>2. Placed(me', q)
    BY <1>2, <1>4, <1>5, <1>6, PlacedSame DEF Stays, Is
  <2>3. Stacked(ops', q)
    BY <1>4, <1>7, StackedNothing DEF Is
  <2> QED
    BY <1>1, <1>4, <1>5, <1>6, <1>7, <2>1, <2>2, <2>3, ContinueAfter
<1>9. CASE d.init # <<>>
  <2>1. d.init[1] \in HirExpr /\ Exprs(d.init) = <<t1>>
    BY <1>4, <1>9, OptionalExpr DEF IsDecl
  <2>2. Then(<<t1>> \o <<t2>>)
    BY <1>1, <1>9, <2>1 DEF IfAny
  <2>3. Then(<<t1, t2>>)
    BY <2>2, ConcatOnes
  <2>4. TasksOK(me', <<t1, t2>>)
    BY <1>6, <2>1, TaskIsOK, TasksTwo
  <2>5. PICK a : Is(p, a, <<"operand">>, "open", p.depth, p.pend)
    BY <1>4, Kinds, OpenPoint
  <2>6. t1.do \in Straight /\ t2.do \in Straight
    BY TaskKinds DEF Straight
  <2>7. Effect(t1, p, a)
    BY <1>4, <2>5, <2>6, Kinds, TaskKinds, StraightHere
  <2>8. Effect(t2, a, q)
    BY <1>4, <2>5, <2>6, Kinds, TaskKinds, StraightHere
  <2> HIDE DEF t1, t2
  <2>9. Runs(<<t1, t2>>, p, q)
    BY <1>4, <2>5, <2>7, <2>8, RunsTwo DEF Is
  <2>10. Placed(me', p)
    BY <1>2, <1>4, <1>5, <1>6, PlacedSame DEF Stays
  <2> QED
    BY <1>1, <1>4, <1>5, <1>6, <1>7, <2>3, <2>4, <2>9, <2>10, Continue
<1> QED
  BY <1>8, <1>9

LEMMA StepReturn ==
  ASSUME Inv, LowerReturn
  PROVE  Inv' /\ Keeps(me, me')
<1> DEFINE v == Task.s.value
           t1 == Expr(v[1])
           t2 == Store(0)
           t3 == Jump(Return)
           first == IfAny(v, Exprs(v) \o <<t2>>)
<1>1. /\ Running /\ Task.do = "stmt" /\ Task.s.k = "return" /\ me' = me /\ ops' = ops /\ pc' = pc
      /\ Then(first \o <<t3>>)
  BY DEF LowerReturn, Statement, Doing
<1>2. PICK p, q : Between(p, q)
  BY <1>1, NowBetween
<1>3. /\ IsStmt(Task.s) /\ p \in Point /\ q \in Point /\ p.depth \in Nat /\ BuilderOK(me)
      /\ Is(p, p, <<>>, "open", p.depth, p.pend) /\ Is(p, q, <<>>, "any", p.depth, p.pend)
  <2>1. q.flag = "any"
    BY <1>1, <1>2, StmtTask DEF IsForInit
  <2> QED
    BY <1>1, <1>2, <2>1, StmtTask, NowBetween
<1>4. IsOptional(v, HirExpr)
  BY <1>1, <1>3 DEF IsStmt
<1>5. 0 \in Locals(me)
  <2>1. Len(me.locals) \in Nat \ {0}
    BY <1>3, BuilderIs
  <2> QED
    BY <2>1 DEF Locals
<1>6. TaskOK(me, t2) /\ TaskOK(me, t3)
  BY <1>5, TaskIsOK
<1>7. Effect(t3, p, q)
  BY <1>3, StmtEffect
<1>8. TasksOK(me, first) /\ Runs(first, p, p)
  <2>1. CASE v = <<>>
    BY <1>3, <2>1, TasksNothing, RunsNothing DEF IfAny
  <2>2. CASE v # <<>>
    <3>1. v[1] \in HirExpr /\ Exprs(v) = <<t1>>
      BY <1>4, <2>2, OptionalExpr
    <3>2. first = <<t1>> \o <<t2>>
      BY <2>2, <3>1 DEF IfAny
    <3>3. first = <<t1, t2>>
      BY <3>2, ConcatOnes
    <3>4. TaskOK(me, t1)
      BY <3>1, TaskIsOK
    <3>5. TasksOK(me, <<t1, t2>>)
      BY <1>6, <3>4, TasksTwo
    <3>6. PICK a : Is(p, a, <<"operand">>, "open", p.depth, p.pend)
      BY <1>3, Kinds, OpenPoint
    <3>7. t1.do \in Straight /\ t2.do \in Straight
      BY TaskKinds DEF Straight
    <3>8. Effect(t1, p, a)
      BY <1>3, <3>6, <3>7, Kinds, TaskKinds, StraightHere
    <3>9. Effect(t2, a, p)
      BY <1>3, <3>6, <3>7, Kinds, TaskKinds, StraightHere
    <3> HIDE DEF t1, t2, first
    <3>10. Runs(<<t1, t2>>, p, p)
      BY <1>3, <3>6, <3>8, <3>9, RunsTwo DEF Is
    <3> QED
      BY <3>3, <3>5, <3>10
  <2> QED
    BY <2>1, <2>2
<1> HIDE DEF first, t3
<1>9. TasksOK(me, <<t3>>) /\ Runs(<<t3>>, p, q) /\ IsSequence(<<t3>>) /\ IsSequence(first)
  BY <1>3, <1>6, <1>7, <1>8, TasksOne, RunsOne, SequenceOne DEF TasksOK
<1>10. TasksOK(me, first \o <<t3>>) /\ Runs(first \o <<t3>>, p, q)
  BY <1>8, <1>9, TasksConcat, RunsConcat
<1> QED
  BY <1>1, <1>2, <1>10, Expand

LEMMA StepFor ==
  ASSUME Inv, LowerFor
  PROVE  Inv' /\ Keeps(me, me')
<1> DEFINE s == Task.s
           t1 == Stmt(s.init[1])
           t2 == ForRest(s)
           first == [i \in DOMAIN s.init |-> Stmt(s.init[i])]
<1>1. /\ Running /\ Task.do = "stmt" /\ s.k = "for" /\ me' = me /\ ops' = ops /\ pc' = pc
      /\ Then(first \o <<t2>>)
  BY DEF LowerFor, Statement, Doing
<1>2. PICK p, q : Between(p, q)
  BY <1>1, NowBetween
<1>3. /\ s \in HirStmt /\ IsStmt(s) /\ p \in Point /\ q \in Point /\ p.depth \in Nat
      /\ Is(p, p, <<>>, "open", p.depth, p.pend) /\ Is(p, q, <<>>, "any", p.depth, p.pend)
  <2>1. q.flag = "any"
    BY <1>1, <1>2, StmtTask DEF IsForInit
  <2> QED
    BY <1>1, <1>2, <2>1, StmtTask
<1>4. IsOptional(s.init, HirStmt) /\ \A init \in Range(s.init) : IsForInit(init)
  BY <1>1, <1>3 DEF IsStmt
<1>5. TaskOK(me, t2)
  BY <1>1, <1>3, TaskIsOK
<1>6. Effect(t2, p, q)
  BY <1>3, StmtEffect
<1>7. TasksOK(me, first) /\ Runs(first, p, p)
  <2>1. CASE first = <<>>
    <3> HIDE DEF first
    <3> QED
      BY <1>3, <2>1, TasksNothing, RunsNothing
  <2>2. CASE first # <<>>
    <3>1. s.init[1] \in HirStmt /\ IsForInit(s.init[1]) /\ first = <<t1>>
      BY <1>4, <2>2, OptionalStmt
    <3>2. TaskOK(me, t1)
      BY <3>1, TaskIsOK
    <3>3. Effect(t1, p, p)
      BY <1>3, <3>1, StmtEffect
    <3> HIDE DEF t1, first
    <3> QED
      BY <1>3, <3>1, <3>2, <3>3, TasksOne, RunsOne
  <2> QED
    BY <2>1, <2>2
<1> HIDE DEF first, t2
<1>8. TasksOK(me, <<t2>>) /\ Runs(<<t2>>, p, q) /\ IsSequence(<<t2>>) /\ IsSequence(first)
  BY <1>3, <1>5, <1>6, <1>7, TasksOne, RunsOne, SequenceOne DEF TasksOK
<1>9. TasksOK(me, first \o <<t2>>) /\ Runs(first \o <<t2>>, p, q)
  BY <1>7, <1>8, TasksConcat, RunsConcat
<1> QED
  BY <1>1, <1>2, <1>9, Expand

\* break and continue.
LEMMA StepBreak ==
  ASSUME Inv, LowerBreak \/ LowerContinue
  PROVE  Inv' /\ Keeps(me, me')
<1>1. /\ Running /\ Task.do = "stmt" /\ Task.s.k \in {"break", "continue"}
      /\ ops' = ops /\ pc' = pc /\ Then(<<>>)
      /\ \E i \in {1, 2} :
           me' = IF me.loop_stack = <<>> THEN me ELSE Terminate(me, Goto(Last(me.loop_stack)[i]))
  <2>1. CASE LowerBreak
    BY <2>1 DEF LowerBreak, Statement, Doing
  <2>2. CASE LowerContinue
    BY <2>2 DEF LowerContinue, Statement, Doing
  <2> QED
    BY <2>1, <2>2
<1>2. PICK i \in {1, 2} :
        me' = IF me.loop_stack = <<>> THEN me ELSE Terminate(me, Goto(Last(me.loop_stack)[i]))
  BY <1>1
<1>3. PICK p, q : Between(p, q)
  BY <1>1, NowBetween
<1>4. /\ p \in Point /\ q \in Point /\ p.flag = "open" /\ q.flag = "any"
      /\ Is(p, q, <<>>, q.flag, p.depth, p.pend)
  BY <1>1, <1>3, StmtTask DEF IsForInit
<1>5. BuilderOK(me) /\ OpsOK(me, ops) /\ Stacked(ops, p) /\ Placed(me, p) /\ Leads(Tail(todo), q)
  BY <1>1, <1>3, NowBetween DEF Between
<1>6. CASE me.loop_stack = <<>>
  <2>1. me' = me
    BY <1>2, <1>6
  <2> QED
    BY <1>1, <1>3, <1>4, <2>1, ExpandToNothing
<1>7. CASE me.loop_stack # <<>>
  <2> DEFINE loops == me.loop_stack
             b == Last(loops)[i]
  <2>1. b \in Blocks(me)
    <3>1. loops \in Seq(Blocks(me) \X Blocks(me))
      BY <1>5 DEF BuilderOK
    <3>2. IsSequence(loops)
      BY <3>1, SequenceIntro
    <3>3. Last(loops) = loops[Len(loops)] /\ Len(loops) \in Nat \ {0}
      BY <1>7, <3>2, SequenceFront
    <3>4. Last(loops) \in Blocks(me) \X Blocks(me)
      BY <3>1, <3>3, ElementOfSeq
    <3> QED
      BY <3>4
  <2>2. me' = Terminate(me, Goto(b))
    BY <1>2, <1>7
  <2> HIDE DEF b
  <2>3. TermIn(me, Goto(b)) /\ Goto(b) # Unreachable
    BY <2>1 DEF TermIn, Goto, Unreachable
  <2>4. Writable(me, me.current)
    BY <1>4, <1>5 DEF Placed
  <2>5. /\ BuilderOK(me') /\ Keeps(me, me')
        /\ me'.current = me.current /\ me'.loop_stack = me.loop_stack /\ Blocks(me') = Blocks(me)
        /\ Term(me', me.current) = Goto(b)
        /\ \A c \in Blocks(me) : c # me.current => Term(me', c) = Term(me, c)
    BY <1>5, <2>2, <2>3, <2>4, TerminateOK
  <2>6. Placed(me', q)
    <3>1. q.depth = p.depth /\ q.pend = p.pend
      BY <1>4 DEF Is
    <3> QED
      BY <1>4, <1>5, <2>3, <2>5, <3>1, PlacedClosed
  <2>7. Stacked(ops', q) /\ OpsOK(me', ops')
    BY <1>1, <1>4, <1>5, <2>5, StackedNothing, OpsStay DEF Is
  <2> QED
    BY <1>1, <1>4, <1>5, <2>5, <2>6, <2>7, ContinueAfter
<1> QED
  BY <1>6, <1>7

-----------------------------------------------------------------------------
(* New blocks.                                                                *)

\* The blocks of P and the i-th to the k-th of the new ones.
Pending(m, P, i, k) == P \cup {Fresh(m, j) : j \in i .. k}

LEMMA PendingIs ==
  ASSUME NEW m, BuilderOK(m), NEW P, P \subseteq Blocks(m), NEW k \in Nat
  PROVE  /\ \A i \in 1 .. k : /\ Pending(m, P, i, k) = Pending(m, P, i + 1, k) \cup {Fresh(m, i)}
                              /\ Fresh(m, i) \notin Pending(m, P, i + 1, k)
         /\ Pending(m, P, k + 1, k) = P
         /\ \A i \in 1 .. k + 1 : Pending(m, P, i, k) \in SUBSET Int
<1>1. Len(m.blocks) \in Nat /\ Blocks(m) = 0 .. Len(m.blocks) - 1
  BY BuilderIs DEF Blocks
<1>2. \A i : Fresh(m, i) = Len(m.blocks) + i - 1
  BY DEF Fresh
<1> DEFINE n == Len(m.blocks)
<1> HIDE DEF n
<1>3. n \in Nat /\ P \subseteq 0 .. n - 1 /\ \A i : Fresh(m, i) = n + i - 1
  BY <1>1, <1>2 DEF n
<1>4. ASSUME NEW i \in 1 .. k
      PROVE  /\ i .. k = (i + 1 .. k) \cup {i}
             /\ n + i - 1 \notin 0 .. n - 1
             /\ \A j \in i + 1 .. k : n + i - 1 # n + j - 1
  BY <1>3
<1>5. ASSUME NEW i \in 1 .. k
      PROVE  /\ Pending(m, P, i, k) = Pending(m, P, i + 1, k) \cup {Fresh(m, i)}
             /\ Fresh(m, i) \notin Pending(m, P, i + 1, k)
  BY <1>3, <1>4 DEF Pending
<1>6. Pending(m, P, k + 1, k) = P
  <2>1. k + 1 .. k = {}
    OBVIOUS
  <2> QED
    BY <2>1 DEF Pending
<1>7. ASSUME NEW i \in 1 .. k + 1
      PROVE  Pending(m, P, i, k) \in SUBSET Int
  BY <1>3 DEF Pending
<1> QED
  BY <1>5, <1>6, <1>7

LEMMA NewBlocksHold ==
  ASSUME NEW m, BuilderOK(m), NEW k \in Nat
  PROVE  /\ Locals(NewBlocks(m, k)) = Locals(m)
         /\ \A i \in 1 .. k : Fresh(m, i) \in Blocks(NewBlocks(m, k))
<1>1. PICK n : n = NewBlocks(m, k)
  OBVIOUS
<1>2. BuilderOK(n) /\ n.locals = m.locals /\ \A i \in 1 .. k : Fresh(m, i) \in Blocks(n)
  BY <1>1, NewBlocksOK
<1> QED
  BY <1>1, <1>2 DEF Locals

\* A task is replaced by others that enter k new blocks.
LEMMA ExpandFresh ==
  ASSUME Inv, Running, ops' = ops, pc' = pc,
         NEW m, BuilderOK(m), Keeps(me, m), SameFlow(me, m),
         NEW k \in Nat, me' = NewBlocks(m, k), NEW p, NEW q, Between(p, q), p.flag = "open",
         NEW ts, Then(ts), TasksOK(me', ts),
         NEW a, Is(p, a, <<>>, "open", p.depth, Pending(m, p.pend, 1, k)), Runs(ts, a, q)
  PROVE  Inv' /\ Keeps(me, me')
<1>1. BuilderOK(me) /\ OpsOK(me, ops)
  BY NowBetween
<1>2. p \in Point /\ q \in Point /\ Stacked(ops, p) /\ Placed(me, p) /\ Leads(Tail(todo), q)
  BY DEF Between
<1>3. /\ BuilderOK(me') /\ Keeps(m, me')
      /\ me'.current = m.current /\ me'.loop_stack = m.loop_stack
      /\ \A b \in Blocks(m) : b \in Blocks(me') /\ Term(me', b) = Term(m, b)
      /\ \A i \in 1 .. k :
           /\ Fresh(m, i) \in Blocks(me') /\ Fresh(m, i) \notin Blocks(m)
           /\ Term(me', Fresh(m, i)) = Unreachable
      /\ \A b \in Blocks(me') : b \in Blocks(m) \/ \E i \in 1 .. k : b = Fresh(m, i)
  BY NewBlocksOK, ZenonT(40)
<1>4. Keeps(me, me')
  BY <1>1, <1>3, KeepsTransitive
<1>5. /\ a \in Point /\ a.flag = "open" /\ a.depth = p.depth /\ Over(p, a, <<>>)
      /\ a.pend = p.pend \cup {Fresh(m, i) : i \in 1 .. k}
  BY DEF Is, Pending
<1>6. Placed(m, p)
  BY <1>1, <1>2, PlacedSame DEF Stays
<1>7. Placed(me', a)
  BY <1>2, <1>3, <1>5, <1>6, PlacedFresh
<1>8. OpsOK(me', ops') /\ Stacked(ops', a)
  BY <1>1, <1>2, <1>3, <1>4, <1>5, OpsStay, StackedNothing
<1>9. Inv'
  BY <1>2, <1>3, <1>4, <1>5, <1>7, <1>8, Continue
<1> QED
  BY <1>4, <1>9

LEMMA PointsOver ==
  ASSUME NEW p \in Point, NEW d \in Nat, NEW A \in SUBSET Int
  PROVE  /\ \E x : Is(p, x, <<>>, "open", d, A)
         /\ \E x : Is(p, x, <<>>, "any", d, A)
         /\ \E x : Is(p, x, <<>>, "closed", d, A)
         /\ \E x : Is(p, x, <<"operand">>, "open", d, A)
<1>1. "open" \in Flag /\ "any" \in Flag /\ "closed" \in Flag
  BY DEF Flag
<1>2. ASSUME NEW f \in Flag, NEW y \in Seq(Kind)
      PROVE  \E x : Is(p, x, y, f, d, A)
  <2>1. p.at \in Int
    BY DEF Point
  <2> QED
    BY <2>1, AtIs
<1>3. \E x : Is(p, x, <<>>, "open", d, A)
  BY <1>1, <1>2, Kinds
<1>4. \E x : Is(p, x, <<>>, "any", d, A)
  BY <1>1, <1>2, Kinds
<1>5. \E x : Is(p, x, <<>>, "closed", d, A)
  BY <1>1, <1>2, Kinds
<1>6. \E x : Is(p, x, <<"operand">>, "open", d, A)
  BY <1>1, <1>2, Kinds
<1> QED
  BY <1>3, <1>4, <1>5, <1>6

\* An operand is computed, and dropped or stored.
LEMMA ValueEffect ==
  ASSUME NEW p \in Point, NEW d \in Nat, NEW A, NEW a, NEW b, NEW f \in {"open", "any"},
         Is(p, a, <<>>, "open", d, A), Is(p, b, <<"operand">>, f, d, A)
  PROVE  /\ \A e : Effect(Expr(e), a, b)
         /\ \A x : KindOf(x) = "operand" => Effect(Put(x), a, b)
         /\ f = "open" => Effect(Discard, b, a) /\ \A l : Effect(Store(l), b, a)
<1>1. ASSUME NEW t, t.do \in Straight, Takes(t) = <<>>, Leaves(t) = <<"operand">>
      PROVE  Effect(t, a, b)
  BY <1>1, Kinds, StraightHere
<1>2. ASSUME f = "open", NEW t, t.do \in Straight, Takes(t) = <<"operand">>, Leaves(t) = <<>>
      PROVE  Effect(t, b, a)
  BY <1>2, Kinds, StraightHere
<1>3. ASSUME NEW e
      PROVE  Effect(Expr(e), a, b)
  BY <1>1, TaskKinds DEF Straight
<1>4. ASSUME NEW x, KindOf(x) = "operand"
      PROVE  Effect(Put(x), a, b)
  BY <1>1, <1>4, TaskKinds DEF Straight
<1>5. ASSUME f = "open"
      PROVE  Effect(Discard, b, a)
  BY <1>2, <1>5, TaskKinds DEF Straight
<1>6. ASSUME f = "open", NEW l
      PROVE  Effect(Store(l), b, a)
  BY <1>2, <1>6, TaskKinds DEF Straight
<1> QED
  BY <1>3, <1>4, <1>5, <1>6

LEMMA StepIf ==
  ASSUME Inv, LowerIf
  PROVE  Inv' /\ Keeps(me, me')
<1> DEFINE s == Task.s
           then == Fresh(me, 1)
           else == Fresh(me, 2)
           join == Fresh(me, 3)
           t1 == Expr(s.c)
           t2 == Branch(then, else)
           t3 == Enter(then)
           t4 == Stmt(s.then)
           t5 == Close(join)
           t6 == Enter(else)
           t7 == Enter(join)
           rest == [i \in DOMAIN s.else |-> Stmt(s.else[i])]
           first == <<t1, t2, t3, t4, t5, t6>>
           last == <<t5, t7>>
<1>1. /\ Running /\ Task.do = "stmt" /\ s.k = "if" /\ ops' = ops /\ pc' = pc
      /\ me' = NewBlocks(me, 3) /\ Then(first \o rest \o last)
  BY DEF LowerIf, Statement, Doing
<1>2. PICK p, q : Between(p, q)
  BY <1>1, NowBetween
<1> DEFINE P == p.pend
           d == p.depth
           A1 == Pending(me, P, 1, 3)
           A2 == Pending(me, P, 2, 3)
           A3 == Pending(me, P, 3, 3)
<1>3. /\ IsStmt(s) /\ p \in Point /\ q \in Point /\ d \in Nat /\ p.flag = "open"
      /\ BuilderOK(me) /\ Is(p, q, <<>>, "any", d, P)
  <2>1. q.flag = "any"
    BY <1>1, <1>2, StmtTask DEF IsForInit
  <2> QED
    BY <1>1, <1>2, <2>1, StmtTask, NowBetween
<1>4. s.c \in HirExpr /\ s.then \in HirStmt /\ IsOptional(s.else, HirStmt)
  BY <1>1, <1>3 DEF IsStmt
<1>5. /\ A1 = A2 \cup {then} /\ A2 = A3 \cup {else} /\ A3 = P \cup {join}
      /\ then \notin A2 /\ else \notin A3 /\ join \notin P
      /\ A1 \in SUBSET Int /\ A2 \in SUBSET Int /\ A3 \in SUBSET Int
  <2>1. P \subseteq Blocks(me)
    BY <1>2 DEF Between, Placed
  <2> HIDE DEF P
  <2>2. /\ \A i \in 1 .. 3 : /\ Pending(me, P, i, 3) = Pending(me, P, i + 1, 3) \cup {Fresh(me, i)}
                            /\ Fresh(me, i) \notin Pending(me, P, i + 1, 3)
        /\ Pending(me, P, 3 + 1, 3) = P
        /\ \A i \in 1 .. 3 + 1 : Pending(me, P, i, 3) \in SUBSET Int
    BY <1>3, <2>1, PendingIs
  <2> QED
    BY <2>2
<1> HIDE DEF A1, A2, A3, P, d
<1>6. then \in Blocks(me') /\ else \in Blocks(me') /\ join \in Blocks(me')
  BY <1>1, <1>3, NewBlocksOK
<1>7. /\ TaskOK(me', t1) /\ TaskOK(me', t2) /\ TaskOK(me', t3) /\ TaskOK(me', t4)
      /\ TaskOK(me', t5) /\ TaskOK(me', t6) /\ TaskOK(me', t7)
  BY <1>4, <1>6, TaskIsOK
<1> HIDE DEF then, else, join
<1>8. \A A \in {A1, A2, A3} : /\ \E x : Is(p, x, <<>>, "open", d, A)
                              /\ \E x : Is(p, x, <<>>, "any", d, A)
                              /\ \E x : Is(p, x, <<>>, "closed", d, A)
                              /\ \E x : Is(p, x, <<"operand">>, "open", d, A)
  BY <1>3, <1>5, PointsOver
<1>9. PICK p1, p2, p3 :
         /\ Is(p, p1, <<>>, "open", d, A1)
         /\ Is(p, p2, <<"operand">>, "open", d, A1)
         /\ Is(p, p3, <<>>, "closed", d, A1)
  BY <1>8
<1>10. PICK p4, p5, p6 :
         /\ Is(p, p4, <<>>, "open", d, A2)
         /\ Is(p, p5, <<>>, "any", d, A2)
         /\ Is(p, p6, <<>>, "closed", d, A2)
  BY <1>8
<1>11. PICK p7, p8, p9 :
         /\ Is(p, p7, <<>>, "open", d, A3)
         /\ Is(p, p8, <<>>, "any", d, A3)
         /\ Is(p, p9, <<>>, "closed", d, A3)
  BY <1>8
<1>12. Effect(t1, p1, p2)
  BY <1>3, <1>9, ValueEffect
<1>13. Effect(t2, p2, p3)
  BY <1>3, <1>9, StmtEffect
<1>14. Effect(t3, p3, p4)
  BY <1>3, <1>5, <1>9, <1>10, EnterEffect
<1>15. Effect(t4, p4, p5)
  BY <1>3, <1>10, StmtEffect
<1>16. Effect(t5, p5, p6)
  BY <1>3, <1>10, StmtEffect
<1>17. Effect(t6, p6, p7)
  BY <1>3, <1>5, <1>10, <1>11, EnterEffect
<1>18. \A a : a \in {p7, p8} => Effect(t5, a, p9)
  BY <1>3, <1>11, StmtEffect
<1>19. Effect(t7, p9, q)
  BY <1>3, <1>5, <1>11, EnterEffect
<1>20. \E a \in {p7, p8} : TasksOK(me', rest) /\ Runs(rest, p7, a)
  <2>1. p7 \in Point /\ p8 \in Point
    BY <1>11 DEF Is
  <2>2. CASE rest = <<>>
    <3> HIDE DEF rest
    <3> QED
      BY <2>1, <2>2, TasksNothing, RunsNothing
  <2>3. CASE rest # <<>>
    <3> DEFINE t == Stmt(s.else[1])
    <3>1. s.else[1] \in HirStmt /\ rest = <<t>>
      BY <1>4, <2>3, OptionalStmt
    <3>2. TaskOK(me', t)
      BY <3>1, TaskIsOK
    <3>3. Effect(t, p7, p8)
      BY <1>3, <1>11, StmtEffect
    <3> HIDE DEF t, rest
    <3> QED
      BY <2>1, <3>1, <3>2, <3>3, TasksOne, RunsOne
  <2> QED
    BY <2>2, <2>3
<1> HIDE DEF t1, t2, t3, t4, t5, t6, t7, rest
<1>21. PICK a \in {p7, p8} : TasksOK(me', rest) /\ Runs(rest, p7, a)
  BY <1>20
<1>22. /\ p1 \in Point /\ p2 \in Point /\ p3 \in Point /\ p4 \in Point /\ p5 \in Point
       /\ p6 \in Point /\ p7 \in Point /\ p8 \in Point /\ p9 \in Point /\ a \in Point
  BY <1>9, <1>10, <1>11 DEF Is
<1>23. TasksOK(me', first) /\ Runs(first, p1, p7)
  BY <1>7, <1>12, <1>13, <1>14, <1>15, <1>16, <1>17, <1>22, TasksSix, RunsSix
<1>24. TasksOK(me', last) /\ Runs(last, a, q)
  <2>1. Effect(t5, a, p9)
    BY <1>18
  <2> QED
    BY <1>3, <1>7, <1>19, <1>22, <2>1, TasksTwo, RunsTwo
<1> HIDE DEF first, last
<1>25. TasksOK(me', first \o rest \o last) /\ Runs(first \o rest \o last, p1, q)
  <2>1. IsSequence(first) /\ IsSequence(rest) /\ IsSequence(last)
    BY <1>21, <1>23, <1>24 DEF TasksOK
  <2>2. TasksOK(me', first \o rest) /\ Runs(first \o rest, p1, a)
    BY <1>21, <1>23, <2>1, TasksConcat, RunsConcat
  <2>3. IsSequence(first \o rest)
    BY <2>2 DEF TasksOK
  <2> QED
    BY <1>24, <2>1, <2>2, <2>3, TasksConcat, RunsConcat
<1>26. Keeps(me, me) /\ SameFlow(me, me)
  BY <1>3, KeepsSame
<1> QED
  BY <1>1, <1>2, <1>3, <1>9, <1>25, <1>26, ExpandFresh DEF A1, P, d

\* The loop is open while its body is lowered.
LEMMA StepWhile ==
  ASSUME Inv, LowerWhile
  PROVE  Inv' /\ Keeps(me, me')
<1> DEFINE s == Task.s
           header == Fresh(me, 1)
           body == Fresh(me, 2)
           exit == Fresh(me, 3)
           t1 == Jump(Goto(header))
           t2 == Enter(header)
           t3 == Expr(s.c)
           t4 == Branch(body, exit)
           t5 == PushLoop(header, exit)
           t6 == Enter(body)
           t7 == Stmt(s.body)
           t8 == Close(header)
           t9 == PopLoop
           t10 == Enter(exit)
           ts == <<t1, t2, t3, t4, t5, t6, t7, t8, t9, t10>>
<1>1. /\ Running /\ Task.do = "stmt" /\ s.k = "while" /\ ops' = ops /\ pc' = pc
      /\ me' = NewBlocks(me, 3) /\ Then(ts)
  BY DEF LowerWhile, Statement, Doing
<1>2. PICK p, q : Between(p, q)
  BY <1>1, NowBetween
<1> DEFINE P == p.pend
           d == p.depth
           n == d + 1
           A1 == Pending(me, P, 1, 3)
           A2 == Pending(me, P, 2, 3)
           A3 == Pending(me, P, 3, 3)
<1>3. /\ IsStmt(s) /\ p \in Point /\ q \in Point /\ d \in Nat /\ p.flag = "open"
      /\ BuilderOK(me) /\ Is(p, q, <<>>, "any", d, P)
  <2>1. q.flag = "any"
    BY <1>1, <1>2, StmtTask DEF IsForInit
  <2> QED
    BY <1>1, <1>2, <2>1, StmtTask, NowBetween
<1>4. s.c \in HirExpr /\ s.body \in HirStmt
  BY <1>1, <1>3 DEF IsStmt
<1>5. /\ A1 = A2 \cup {header} /\ A2 = A3 \cup {body} /\ A3 = P \cup {exit}
      /\ header \notin A2 /\ body \notin A3 /\ exit \notin P
      /\ A1 \in SUBSET Int /\ A2 \in SUBSET Int /\ A3 \in SUBSET Int
  <2>1. P \subseteq Blocks(me)
    BY <1>2 DEF Between, Placed
  <2> HIDE DEF P
  <2>2. /\ \A i \in 1 .. 3 : /\ Pending(me, P, i, 3) = Pending(me, P, i + 1, 3) \cup {Fresh(me, i)}
                            /\ Fresh(me, i) \notin Pending(me, P, i + 1, 3)
        /\ Pending(me, P, 3 + 1, 3) = P
        /\ \A i \in 1 .. 3 + 1 : Pending(me, P, i, 3) \in SUBSET Int
    BY <1>3, <2>1, PendingIs
  <2> QED
    BY <2>2
<1> HIDE DEF A1, A2, A3, P, d
<1>6. header \in Blocks(me') /\ body \in Blocks(me') /\ exit \in Blocks(me')
  BY <1>1, <1>3, NewBlocksOK
<1>7. /\ TaskOK(me', t1) /\ TaskOK(me', t2) /\ TaskOK(me', t3) /\ TaskOK(me', t4)
      /\ TaskOK(me', t5) /\ TaskOK(me', t6) /\ TaskOK(me', t7) /\ TaskOK(me', t8)
      /\ TaskOK(me', t9) /\ TaskOK(me', t10)
  BY <1>4, <1>6, TaskIsOK
<1> HIDE DEF n, header, body, exit
<1>8. d \in Nat /\ n \in Nat /\ n = d + 1
  BY <1>3 DEF n
<1>9. \A A \in {A1, A2, A3} : \A e \in {d, n} :
        /\ \E x : Is(p, x, <<>>, "open", e, A)
        /\ \E x : Is(p, x, <<>>, "any", e, A)
        /\ \E x : Is(p, x, <<>>, "closed", e, A)
        /\ \E x : Is(p, x, <<"operand">>, "open", e, A)
  BY <1>3, <1>5, <1>8, PointsOver
<1>10. PICK p1, p2, p3, p4, p5 :
         /\ Is(p, p1, <<>>, "open", d, A1)
         /\ Is(p, p2, <<>>, "closed", d, A1)
         /\ Is(p, p3, <<>>, "open", d, A2)
         /\ Is(p, p4, <<"operand">>, "open", d, A2)
         /\ Is(p, p5, <<>>, "closed", d, A2)
  BY <1>9
<1>11. PICK p6, p7, p8, p9, p10 :
         /\ Is(p, p6, <<>>, "closed", n, A2)
         /\ Is(p, p7, <<>>, "open", n, A3)
         /\ Is(p, p8, <<>>, "any", n, A3)
         /\ Is(p, p9, <<>>, "closed", n, A3)
         /\ Is(p, p10, <<>>, "closed", d, A3)
  BY <1>9
<1>12. Effect(t1, p1, p2)
  BY <1>3, <1>8, <1>10, StmtEffect
<1>13. Effect(t2, p2, p3)
  BY <1>3, <1>5, <1>8, <1>10, EnterEffect
<1>14. Effect(t3, p3, p4)
  BY <1>3, <1>8, <1>10, ValueEffect
<1>15. Effect(t4, p4, p5)
  BY <1>3, <1>8, <1>10, StmtEffect
<1>16. Effect(t5, p5, p6)
  BY <1>3, <1>8, <1>10, <1>11, LoopEffect
<1>17. Effect(t6, p6, p7)
  BY <1>3, <1>5, <1>8, <1>11, EnterEffect
<1>18. Effect(t7, p7, p8)
  BY <1>3, <1>8, <1>11, StmtEffect
<1>19. Effect(t8, p8, p9)
  BY <1>3, <1>8, <1>11, StmtEffect
<1>20. Effect(t9, p9, p10)
  BY <1>3, <1>8, <1>11, LoopEffect
<1>21. Effect(t10, p10, q)
  BY <1>3, <1>5, <1>8, <1>11, EnterEffect
<1> HIDE DEF t1, t2, t3, t4, t5, t6, t7, t8, t9, t10
<1>22. /\ p1 \in Point /\ p2 \in Point /\ p3 \in Point /\ p4 \in Point /\ p5 \in Point
       /\ p6 \in Point /\ p7 \in Point /\ p8 \in Point /\ p9 \in Point /\ p10 \in Point
  BY <1>10, <1>11 DEF Is
<1>23. TasksOK(me', ts)
  BY <1>7, TasksTen
<1>24. Runs(ts, p1, q)
  BY <1>3, <1>12, <1>13, <1>14, <1>15, <1>16, <1>17, <1>18, <1>19, <1>20, <1>21, <1>22, RunsTen
<1>25. Keeps(me, me) /\ SameFlow(me, me)
  BY <1>3, KeepsSame
<1> HIDE DEF ts
<1> QED
  BY <1>1, <1>2, <1>3, <1>10, <1>23, <1>24, <1>25, ExpandFresh DEF A1, P, d

\* The condition of a do is lowered after its loop.
LEMMA StepDoWhile ==
  ASSUME Inv, LowerDoWhile
  PROVE  Inv' /\ Keeps(me, me')
<1> DEFINE s == Task.s
           body == Fresh(me, 1)
           cond == Fresh(me, 2)
           exit == Fresh(me, 3)
           t1 == Jump(Goto(body))
           t2 == PushLoop(cond, exit)
           t3 == Enter(body)
           t4 == Stmt(s.body)
           t5 == Close(cond)
           t6 == PopLoop
           t7 == Enter(cond)
           t8 == Expr(s.c)
           t9 == Branch(body, exit)
           t10 == Enter(exit)
           ts == <<t1, t2, t3, t4, t5, t6, t7, t8, t9, t10>>
<1>1. /\ Running /\ Task.do = "stmt" /\ s.k = "do_while" /\ ops' = ops /\ pc' = pc
      /\ me' = NewBlocks(me, 3) /\ Then(ts)
  BY DEF LowerDoWhile, Statement, Doing
<1>2. PICK p, q : Between(p, q)
  BY <1>1, NowBetween
<1> DEFINE P == p.pend
           d == p.depth
           n == d + 1
           A1 == Pending(me, P, 1, 3)
           A2 == Pending(me, P, 2, 3)
           A3 == Pending(me, P, 3, 3)
<1>3. /\ IsStmt(s) /\ p \in Point /\ q \in Point /\ d \in Nat /\ p.flag = "open"
      /\ BuilderOK(me) /\ Is(p, q, <<>>, "any", d, P)
  <2>1. q.flag = "any"
    BY <1>1, <1>2, StmtTask DEF IsForInit
  <2> QED
    BY <1>1, <1>2, <2>1, StmtTask, NowBetween
<1>4. s.c \in HirExpr /\ s.body \in HirStmt
  BY <1>1, <1>3 DEF IsStmt
<1>5. /\ A1 = A2 \cup {body} /\ A2 = A3 \cup {cond} /\ A3 = P \cup {exit}
      /\ body \notin A2 /\ cond \notin A3 /\ exit \notin P
      /\ A1 \in SUBSET Int /\ A2 \in SUBSET Int /\ A3 \in SUBSET Int
  <2>1. P \subseteq Blocks(me)
    BY <1>2 DEF Between, Placed
  <2> HIDE DEF P
  <2>2. /\ \A i \in 1 .. 3 : /\ Pending(me, P, i, 3) = Pending(me, P, i + 1, 3) \cup {Fresh(me, i)}
                            /\ Fresh(me, i) \notin Pending(me, P, i + 1, 3)
        /\ Pending(me, P, 3 + 1, 3) = P
        /\ \A i \in 1 .. 3 + 1 : Pending(me, P, i, 3) \in SUBSET Int
    BY <1>3, <2>1, PendingIs
  <2> QED
    BY <2>2
<1> HIDE DEF A1, A2, A3, P, d
<1>6. body \in Blocks(me') /\ cond \in Blocks(me') /\ exit \in Blocks(me')
  BY <1>1, <1>3, NewBlocksOK
<1>7. /\ TaskOK(me', t1) /\ TaskOK(me', t2) /\ TaskOK(me', t3) /\ TaskOK(me', t4)
      /\ TaskOK(me', t5) /\ TaskOK(me', t6) /\ TaskOK(me', t7) /\ TaskOK(me', t8)
      /\ TaskOK(me', t9) /\ TaskOK(me', t10)
  BY <1>4, <1>6, TaskIsOK
<1> HIDE DEF n, body, cond, exit
<1>8. d \in Nat /\ n \in Nat /\ n = d + 1
  BY <1>3 DEF n
<1>9. \A A \in {A1, A2, A3} : \A e \in {d, n} :
        /\ \E x : Is(p, x, <<>>, "open", e, A)
        /\ \E x : Is(p, x, <<>>, "any", e, A)
        /\ \E x : Is(p, x, <<>>, "closed", e, A)
        /\ \E x : Is(p, x, <<"operand">>, "open", e, A)
  BY <1>3, <1>5, <1>8, PointsOver
<1>10. PICK p1, p2, p3, p4, p5 :
         /\ Is(p, p1, <<>>, "open", d, A1)
         /\ Is(p, p2, <<>>, "closed", d, A1)
         /\ Is(p, p3, <<>>, "closed", n, A1)
         /\ Is(p, p4, <<>>, "open", n, A2)
         /\ Is(p, p5, <<>>, "any", n, A2)
  BY <1>9
<1>11. PICK p6, p7, p8, p9, p10 :
         /\ Is(p, p6, <<>>, "closed", n, A2)
         /\ Is(p, p7, <<>>, "closed", d, A2)
         /\ Is(p, p8, <<>>, "open", d, A3)
         /\ Is(p, p9, <<"operand">>, "open", d, A3)
         /\ Is(p, p10, <<>>, "closed", d, A3)
  BY <1>9
<1>12. Effect(t1, p1, p2)
  BY <1>3, <1>8, <1>10, StmtEffect
<1>13. Effect(t2, p2, p3)
  BY <1>3, <1>8, <1>10, LoopEffect
<1>14. Effect(t3, p3, p4)
  BY <1>3, <1>5, <1>8, <1>10, EnterEffect
<1>15. Effect(t4, p4, p5)
  BY <1>3, <1>8, <1>10, StmtEffect
<1>16. Effect(t5, p5, p6)
  BY <1>3, <1>8, <1>10, <1>11, StmtEffect
<1>17. Effect(t6, p6, p7)
  BY <1>3, <1>8, <1>11, LoopEffect
<1>18. Effect(t7, p7, p8)
  BY <1>3, <1>5, <1>8, <1>11, EnterEffect
<1>19. Effect(t8, p8, p9)
  BY <1>3, <1>8, <1>11, ValueEffect
<1>20. Effect(t9, p9, p10)
  BY <1>3, <1>8, <1>11, StmtEffect
<1>21. Effect(t10, p10, q)
  BY <1>3, <1>5, <1>8, <1>11, EnterEffect
<1> HIDE DEF t1, t2, t3, t4, t5, t6, t7, t8, t9, t10
<1>22. /\ p1 \in Point /\ p2 \in Point /\ p3 \in Point /\ p4 \in Point /\ p5 \in Point
       /\ p6 \in Point /\ p7 \in Point /\ p8 \in Point /\ p9 \in Point /\ p10 \in Point
  BY <1>10, <1>11 DEF Is
<1>23. TasksOK(me', ts)
  BY <1>7, TasksTen
<1>24. Runs(ts, p1, q)
  BY <1>3, <1>12, <1>13, <1>14, <1>15, <1>16, <1>17, <1>18, <1>19, <1>20, <1>21, <1>22, RunsTen
<1>25. Keeps(me, me) /\ SameFlow(me, me)
  BY <1>3, KeepsSame
<1> HIDE DEF ts
<1> QED
  BY <1>1, <1>2, <1>3, <1>10, <1>23, <1>24, <1>25, ExpandFresh DEF A1, P, d

\* A local that is read.
LEMMA LocalRead ==
  ASSUME NEW m, NEW l \in Locals(m)
  PROVE  /\ TaskOK(m, Put(Copy(FromLocal(l)))) /\ KindOf(Copy(FromLocal(l))) = "operand"
         /\ \A k : TaskOK(m, Put(IntLit(k))) /\ KindOf(IntLit(k)) = "operand"
<1>1. OperandIn(m, Copy(FromLocal(l))) /\ \A k : OperandIn(m, IntLit(k))
  BY Values
<1> QED
  BY <1>1, KindOfValue, TaskIsOK DEF ValueIn

\* && and ||: the join block is entered twice.
LEMMA StepShortCircuit ==
  ASSUME Inv, LowerShortCircuit
  PROVE  Inv' /\ Keeps(me, me')
<1> DEFINE e == Task.e
           result == NextLocal(me)
           rhs == Fresh(me, 1)
           join == Fresh(me, 2)
           and == e.what = "and"
           short == IntLit(IF and THEN 0 ELSE 1)
           value == Copy(FromLocal(result))
           t1 == Expr(e.args[1])
           t2 == IF and THEN Branch(rhs, join) ELSE Branch(join, rhs)
           t3 == Enter(join)
           t4 == Put(short)
           t5 == Store(result)
           t6 == Jump(Goto(join))
           t7 == Enter(rhs)
           t8 == Expr(e.args[2])
           t9 == Put(value)
           ts == <<t1, t2, t3, t4, t5, t6, t7, t8, t5, t6, t3, t9>>
<1>1. PICK m : m = FreshTemp(me, e.own)
  OBVIOUS
<1>2. /\ Running /\ Task.do = "expr" /\ e.k = "logical" /\ ops' = ops /\ pc' = pc
      /\ me' = NewBlocks(m, 2) /\ Then(ts)
  BY <1>1 DEF LowerShortCircuit, Expression, Doing
<1>3. PICK p, q : Between(p, q)
  BY <1>2, NowBetween
<1> DEFINE P == p.pend
           d == p.depth
           A1 == Pending(m, P, 1, 2)
           A2 == Pending(m, P, 2, 2)
<1>4. /\ IsExpr(e) /\ p \in Point /\ q \in Point /\ d \in Nat /\ p.flag = "open"
      /\ BuilderOK(me) /\ q.flag \in {"open", "any"} /\ Is(p, q, <<"operand">>, q.flag, d, P)
  BY <1>2, <1>3, ExprTask, NowBetween
<1>5. e.args[1] \in HirExpr /\ e.args[2] \in HirExpr
  <2>1. 1 \in 1 .. Len(e.args) /\ 2 \in 1 .. Len(e.args)
    BY <1>2, <1>4, ArgsAre
  <2> QED
    BY <1>4, <2>1, ArgsAre
<1>6. /\ BuilderOK(m) /\ Keeps(me, m) /\ SameFlow(me, m) /\ result \in Locals(m)
      /\ rhs = Fresh(m, 1) /\ join = Fresh(m, 2)
  BY <1>1, <1>4, NewLocalOK DEF FreshTemp
<1>7. /\ A1 = A2 \cup {rhs} /\ A2 = P \cup {join} /\ rhs \notin A2 /\ join \notin P
      /\ A1 \in SUBSET Int /\ A2 \in SUBSET Int /\ P \in SUBSET Int
  <2>1. P \subseteq Blocks(m)
    <3>1. Blocks(me) \subseteq Blocks(m)
      BY <1>6 DEF SameFlow, Blocks
    <3> QED
      BY <1>3, <3>1 DEF Between, Placed
  <2> HIDE DEF P, rhs, join
  <2>2. /\ \A i \in 1 .. 2 : /\ Pending(m, P, i, 2) = Pending(m, P, i + 1, 2) \cup {Fresh(m, i)}
                            /\ Fresh(m, i) \notin Pending(m, P, i + 1, 2)
        /\ Pending(m, P, 2 + 1, 2) = P
        /\ \A i \in 1 .. 2 + 1 : Pending(m, P, i, 2) \in SUBSET Int
    BY <1>6, <2>1, PendingIs
  <2> QED
    BY <1>6, <2>2
<1>8. /\ rhs \in Blocks(me') /\ join \in Blocks(me') /\ result \in Locals(me')
      /\ join \in Int
  <2> HIDE DEF rhs, join, result
  <2>1. me' = NewBlocks(m, 2) /\ BuilderOK(m)
    BY <1>2, <1>6
  <2>2. Locals(NewBlocks(m, 2)) = Locals(m)
    BY <2>1, NewBlocksHold
  <2>3. /\ Fresh(m, 1) \in Blocks(NewBlocks(m, 2))
        /\ Fresh(m, 2) \in Blocks(NewBlocks(m, 2))
    BY <2>1, NewBlocksHold
  <2> QED
    BY <1>6, <1>7, <2>1, <2>2, <2>3
<1> HIDE DEF A1, A2, P, d
<1>9. KindOf(short) = "operand" /\ KindOf(value) = "operand"
  BY <1>8, LocalRead
<1>10. /\ TaskOK(me', t1) /\ TaskOK(me', t2) /\ TaskOK(me', t3) /\ TaskOK(me', t4)
      /\ TaskOK(me', t5) /\ TaskOK(me', t6) /\ TaskOK(me', t7) /\ TaskOK(me', t8)
      /\ TaskOK(me', t9)
  <2>1. TaskOK(me', t4) /\ TaskOK(me', t9)
    BY <1>8, LocalRead
  <2> QED
    BY <1>5, <1>8, <2>1, TaskIsOK
<1> HIDE DEF rhs, join, result, short, value, and
<1>11. \A A \in {A1, A2, P} : /\ \E x : Is(p, x, <<>>, "open", d, A)
                              /\ \E x : Is(p, x, <<>>, "closed", d, A)
                              /\ \E x : Is(p, x, <<"operand">>, "open", d, A)
  BY <1>4, <1>7, PointsOver
<1>12. PICK p1, p2, p3 :
         /\ Is(p, p1, <<>>, "open", d, A1)
         /\ Is(p, p2, <<"operand">>, "open", d, A1)
         /\ Is(p, p3, <<>>, "closed", d, A1)
  BY <1>11
<1> DEFINE p4 == At(p, <<>>, "join", join, d, A1)
           p5 == At(p, <<"operand">>, "join", join, d, A1)
<1>13. /\ Is(p, p4, <<>>, "join", d, A1) /\ p4.at = join
      /\ Is(p, p5, <<"operand">>, "join", d, A1) /\ p5.at = join
  <2>1. <<>> \in Seq(Kind) /\ <<"operand">> \in Seq(Kind) /\ "join" \in Flag
    BY Kinds DEF Flag
  <2>2. p \in Point /\ join \in Int /\ d \in Nat /\ A1 \in SUBSET Int
    BY <1>4, <1>7, <1>8
  <2>3. Is(p, p4, <<>>, "join", d, A1)
    BY <2>1, <2>2, AtIs
  <2>4. Is(p, p5, <<"operand">>, "join", d, A1)
    BY <2>1, <2>2, AtIs
  <2>5. IsAt(p4, join) /\ IsAt(p5, join)
    BY <2>1, <2>2, AtIs
  <2> QED
    BY <2>3, <2>4, <2>5 DEF IsAt
<1> HIDE DEF p4, p5
<1>14. PICK p6, p7, p8 :
         /\ Is(p, p6, <<>>, "open", d, A2)
         /\ Is(p, p7, <<"operand">>, "open", d, A2)
         /\ Is(p, p8, <<>>, "closed", d, A2)
  BY <1>11
<1>15. PICK p9 : Is(p, p9, <<>>, "open", d, P)
  BY <1>11
<1>16. Effect(t1, p1, p2)
  BY <1>4, <1>12, ValueEffect
<1>17. Effect(t2, p2, p3)
  BY <1>4, <1>12, StmtEffect
<1>18. Effect(t3, p3, p4)
  <2>1. A1 = A1 \cup {join} /\ join \in A1
    BY <1>7
  <2> QED
    BY <1>4, <1>12, <1>13, <2>1, EnterEffect
<1>19. Effect(t4, p4, p5) /\ Effect(t5, p5, p4)
  BY <1>4, <1>9, <1>13, JoinEffect
<1>20. Effect(t6, p4, p3)
  BY <1>4, <1>12, <1>13, StmtEffect
<1>21. Effect(t7, p3, p6)
  BY <1>4, <1>7, <1>12, <1>14, EnterEffect
<1>22. Effect(t8, p6, p7) /\ Effect(t5, p7, p6)
  BY <1>4, <1>14, ValueEffect
<1>23. Effect(t6, p6, p8)
  BY <1>4, <1>14, StmtEffect
<1>24. Effect(t3, p8, p9)
  BY <1>4, <1>7, <1>14, <1>15, EnterEffect
<1>25. Effect(t9, p9, q)
  BY <1>4, <1>9, <1>15, ValueEffect
<1> HIDE DEF t1, t2, t3, t4, t5, t6, t7, t8, t9
<1>26. /\ p1 \in Point /\ p2 \in Point /\ p3 \in Point /\ p4 \in Point /\ p5 \in Point
       /\ p6 \in Point /\ p7 \in Point /\ p8 \in Point /\ p9 \in Point
  BY <1>12, <1>13, <1>14, <1>15 DEF Is
<1>27. TasksOK(me', ts)
  BY <1>10, TasksTwelve
<1>28. Runs(ts, p1, q)
  BY <1>4, <1>16, <1>17, <1>18, <1>19, <1>20, <1>21, <1>22, <1>23, <1>24, <1>25, <1>26, RunsTwelve
<1> HIDE DEF ts
<1> QED
  BY <1>2, <1>3, <1>4, <1>6, <1>12, <1>27, <1>28, ExpandFresh DEF A1, P, d

LEMMA StepTernary ==
  ASSUME Inv, LowerTernary
  PROVE  Inv' /\ Keeps(me, me')
<1> DEFINE e == Task.e
           result == NextLocal(me)
           then == Fresh(me, 1)
           else == Fresh(me, 2)
           join == Fresh(me, 3)
           value == Copy(FromLocal(result))
           t1 == Expr(e.args[1])
           t2 == Branch(then, else)
           t3 == Enter(then)
           t4 == Expr(e.args[2])
           t5 == Store(result)
           t6 == Jump(Goto(join))
           t7 == Enter(else)
           t8 == Expr(e.args[3])
           t9 == Enter(join)
           t10 == Put(value)
           ts == <<t1, t2, t3, t4, t5, t6, t7, t8, t5, t6, t9, t10>>
<1>1. PICK m : m = FreshTemp(me, e.own)
  OBVIOUS
<1>2. /\ Running /\ Task.do = "expr" /\ e.k = "ternary" /\ ops' = ops /\ pc' = pc
      /\ me' = NewBlocks(m, 3) /\ Then(ts)
  BY <1>1 DEF LowerTernary, Expression, Doing
<1>3. PICK p, q : Between(p, q)
  BY <1>2, NowBetween
<1> DEFINE P == p.pend
           d == p.depth
           A1 == Pending(m, P, 1, 3)
           A2 == Pending(m, P, 2, 3)
           A3 == Pending(m, P, 3, 3)
<1>4. /\ IsExpr(e) /\ p \in Point /\ q \in Point /\ d \in Nat /\ p.flag = "open"
      /\ BuilderOK(me) /\ q.flag \in {"open", "any"} /\ Is(p, q, <<"operand">>, q.flag, d, P)
  BY <1>2, <1>3, ExprTask, NowBetween
<1>5. e.args[1] \in HirExpr /\ e.args[2] \in HirExpr /\ e.args[3] \in HirExpr
  <2>1. 1 \in 1 .. Len(e.args) /\ 2 \in 1 .. Len(e.args) /\ 3 \in 1 .. Len(e.args)
    BY <1>2, <1>4, ArgsAre, SMTT(30)
  <2> QED
    BY <1>4, <2>1, ArgsAre
<1>6. /\ BuilderOK(m) /\ Keeps(me, m) /\ SameFlow(me, m) /\ result \in Locals(m)
      /\ then = Fresh(m, 1) /\ else = Fresh(m, 2) /\ join = Fresh(m, 3)
  BY <1>1, <1>4, NewLocalOK DEF FreshTemp
<1>7. /\ A1 = A2 \cup {then} /\ A2 = A3 \cup {else} /\ A3 = P \cup {join}
      /\ then \notin A2 /\ else \notin A3 /\ join \notin P
      /\ A1 \in SUBSET Int /\ A2 \in SUBSET Int /\ A3 \in SUBSET Int /\ P \in SUBSET Int
  <2>1. P \subseteq Blocks(m)
    <3>1. Blocks(me) \subseteq Blocks(m)
      BY <1>6 DEF SameFlow, Blocks
    <3> QED
      BY <1>3, <3>1 DEF Between, Placed
  <2> HIDE DEF P, then, else, join
  <2>2. /\ \A i \in 1 .. 3 : /\ Pending(m, P, i, 3) = Pending(m, P, i + 1, 3) \cup {Fresh(m, i)}
                            /\ Fresh(m, i) \notin Pending(m, P, i + 1, 3)
        /\ Pending(m, P, 3 + 1, 3) = P
        /\ \A i \in 1 .. 3 + 1 : Pending(m, P, i, 3) \in SUBSET Int
    BY <1>6, <2>1, PendingIs
  <2> QED
    BY <1>6, <2>2
<1>8. /\ then \in Blocks(me') /\ else \in Blocks(me') /\ join \in Blocks(me')
      /\ result \in Locals(me')
  <2> HIDE DEF then, else, join, result
  <2>1. me' = NewBlocks(m, 3) /\ BuilderOK(m)
    BY <1>2, <1>6
  <2>2. Locals(NewBlocks(m, 3)) = Locals(m)
    BY <2>1, NewBlocksHold
  <2>3. /\ Fresh(m, 1) \in Blocks(NewBlocks(m, 3))
        /\ Fresh(m, 2) \in Blocks(NewBlocks(m, 3))
        /\ Fresh(m, 3) \in Blocks(NewBlocks(m, 3))
    BY <2>1, NewBlocksHold
  <2> QED
    BY <1>6, <2>1, <2>2, <2>3
<1> HIDE DEF A1, A2, A3, P, d
<1>9. TaskOK(me', t10) /\ KindOf(value) = "operand"
  BY <1>8, LocalRead
<1>10. /\ TaskOK(me', t1) /\ TaskOK(me', t2) /\ TaskOK(me', t3) /\ TaskOK(me', t4)
      /\ TaskOK(me', t5) /\ TaskOK(me', t6) /\ TaskOK(me', t7) /\ TaskOK(me', t8)
      /\ TaskOK(me', t9)
  BY <1>5, <1>8, TaskIsOK
<1> HIDE DEF then, else, join, result, value
<1>11. \A A \in {A1, A2, A3, P} : /\ \E x : Is(p, x, <<>>, "open", d, A)
                                  /\ \E x : Is(p, x, <<>>, "closed", d, A)
                                  /\ \E x : Is(p, x, <<"operand">>, "open", d, A)
  BY <1>4, <1>7, PointsOver
<1>12. PICK p1, p2, p3 :
         /\ Is(p, p1, <<>>, "open", d, A1)
         /\ Is(p, p2, <<"operand">>, "open", d, A1)
         /\ Is(p, p3, <<>>, "closed", d, A1)
  BY <1>11
<1>13. PICK p4, p5, p6 :
         /\ Is(p, p4, <<>>, "open", d, A2)
         /\ Is(p, p5, <<"operand">>, "open", d, A2)
         /\ Is(p, p6, <<>>, "closed", d, A2)
  BY <1>11
<1>14. PICK p7, p8, p9 :
         /\ Is(p, p7, <<>>, "open", d, A3)
         /\ Is(p, p8, <<"operand">>, "open", d, A3)
         /\ Is(p, p9, <<>>, "closed", d, A3)
  BY <1>11
<1>15. PICK p10 : Is(p, p10, <<>>, "open", d, P)
  BY <1>11
<1>16. Effect(t1, p1, p2)
  BY <1>4, <1>12, ValueEffect
<1>17. Effect(t2, p2, p3)
  BY <1>4, <1>12, StmtEffect
<1>18. Effect(t3, p3, p4)
  BY <1>4, <1>7, <1>12, <1>13, EnterEffect
<1>19. Effect(t4, p4, p5) /\ Effect(t5, p5, p4)
  BY <1>4, <1>13, ValueEffect
<1>20. Effect(t6, p4, p6)
  BY <1>4, <1>13, StmtEffect
<1>21. Effect(t7, p6, p7)
  BY <1>4, <1>7, <1>13, <1>14, EnterEffect
<1>22. Effect(t8, p7, p8) /\ Effect(t5, p8, p7)
  BY <1>4, <1>14, ValueEffect
<1>23. Effect(t6, p7, p9)
  BY <1>4, <1>14, StmtEffect
<1>24. Effect(t9, p9, p10)
  BY <1>4, <1>7, <1>14, <1>15, EnterEffect
<1>25. Effect(t10, p10, q)
  BY <1>4, <1>9, <1>15, ValueEffect
<1> HIDE DEF t1, t2, t3, t4, t5, t6, t7, t8, t9, t10
<1>26. /\ p1 \in Point /\ p2 \in Point /\ p3 \in Point /\ p4 \in Point /\ p5 \in Point
       /\ p6 \in Point /\ p7 \in Point /\ p8 \in Point /\ p9 \in Point /\ p10 \in Point
  BY <1>12, <1>13, <1>14, <1>15 DEF Is
<1>27. TasksOK(me', ts)
  BY <1>9, <1>10, TasksTwelve
<1>28. Runs(ts, p1, q)
  BY <1>4, <1>16, <1>17, <1>18, <1>19, <1>20, <1>21, <1>22, <1>23, <1>24, <1>25, <1>26, RunsTwelve
<1> HIDE DEF ts
<1> QED
  BY <1>2, <1>3, <1>4, <1>6, <1>12, <1>27, <1>28, ExpandFresh DEF A1, P, d

\* The blocks of a for loop.
LEMMA StepForLoop ==
  ASSUME Inv, LowerForLoop
  PROVE  Inv' /\ Keeps(me, me')
<1> DEFINE s == Task.s
           header == Fresh(me, 1)
           body == Fresh(me, 2)
           step == Fresh(me, 3)
           exit == Fresh(me, 4)
           t1 == Jump(Goto(header))
           t2 == Enter(header)
           t3 == Branch(body, exit)
           t4 == PushLoop(step, exit)
           t5 == Enter(body)
           t6 == Stmt(s.body)
           t7 == Close(step)
           t8 == PopLoop
           t9 == Enter(step)
           t10 == Enter(exit)
           test == IF s.cond = <<>> THEN <<Jump(Goto(body))>> ELSE Exprs(s.cond) \o <<t3>>
           next == IfAny(s.step, Exprs(s.step) \o <<Discard>>)
           first == <<t1, t2>>
           loop == <<t4, t5, t6, t7, t8, t9>>
           last == <<t1, t10>>
<1>1. /\ Running /\ Task.do = "for" /\ ops' = ops /\ pc' = pc
      /\ me' = NewBlocks(me, 4) /\ Then(first \o test \o loop \o next \o last)
  BY DEF LowerForLoop, Doing
<1>2. PICK p, q : Between(p, q)
  BY <1>1, NowBetween
<1> DEFINE P == p.pend
           d == p.depth
           n == d + 1
           A1 == Pending(me, P, 1, 4)
           A2 == Pending(me, P, 2, 4)
           A3 == Pending(me, P, 3, 4)
           A4 == Pending(me, P, 4, 4)
<1>3. /\ s \in HirStmt /\ s.k = "for" /\ p \in Point /\ q \in Point /\ d \in Nat /\ p.flag = "open"
      /\ BuilderOK(me) /\ Is(p, q, <<>>, "any", d, P)
  <2>1. q.flag = "any" /\ p.flag = "open" /\ TaskOK(me, Task)
    BY <1>1, <1>2, StatementTask
  <2> QED
    BY <1>1, <1>2, <2>1, StatementTask, NowBetween DEF TaskOK
<1>4. IsOptional(s.cond, HirExpr) /\ IsOptional(s.step, HirExpr) /\ s.body \in HirStmt
  <2>1. IsStmt(s)
    BY <1>3, HirAssumption
  <2> QED
    BY <1>3, <2>1 DEF IsStmt
<1>5. /\ A1 = A2 \cup {header} /\ A2 = A3 \cup {body} /\ A3 = A4 \cup {step} /\ A4 = P \cup {exit}
      /\ header \notin A2 /\ body \notin A3 /\ step \notin A4 /\ exit \notin P
      /\ A1 \in SUBSET Int /\ A2 \in SUBSET Int /\ A3 \in SUBSET Int /\ A4 \in SUBSET Int
  <2>1. P \subseteq Blocks(me)
    BY <1>2 DEF Between, Placed
  <2> HIDE DEF P
  <2>2. /\ \A i \in 1 .. 4 : /\ Pending(me, P, i, 4) = Pending(me, P, i + 1, 4) \cup {Fresh(me, i)}
                            /\ Fresh(me, i) \notin Pending(me, P, i + 1, 4)
        /\ Pending(me, P, 4 + 1, 4) = P
        /\ \A i \in 1 .. 4 + 1 : Pending(me, P, i, 4) \in SUBSET Int
    BY <1>3, <2>1, PendingIs
  <2> QED
    BY <2>2
<1> HIDE DEF A1, A2, A3, A4, P, d
<1>6. /\ header \in Blocks(me') /\ body \in Blocks(me') /\ step \in Blocks(me')
      /\ exit \in Blocks(me')
  <2>1. /\ Fresh(me, 1) \in Blocks(NewBlocks(me, 4)) /\ Fresh(me, 2) \in Blocks(NewBlocks(me, 4))
        /\ Fresh(me, 3) \in Blocks(NewBlocks(me, 4)) /\ Fresh(me, 4) \in Blocks(NewBlocks(me, 4))
    BY <1>3, NewBlocksHold
  <2> QED
    BY <1>1, <2>1
<1>7. /\ TaskOK(me', t1) /\ TaskOK(me', t2) /\ TaskOK(me', t3) /\ TaskOK(me', t4)
      /\ TaskOK(me', t5) /\ TaskOK(me', t6) /\ TaskOK(me', t7) /\ TaskOK(me', t8)
      /\ TaskOK(me', t9) /\ TaskOK(me', t10) /\ TaskOK(me', Discard)
      /\ TaskOK(me', Jump(Goto(body)))
  BY <1>4, <1>6, TaskIsOK
<1> HIDE DEF n, header, body, step, exit
<1>8. d \in Nat /\ n \in Nat /\ n = d + 1
  BY <1>3 DEF n
<1>9. \A A \in {A1, A2, A3, A4} : \A e \in {d, n} :
        /\ \E x : Is(p, x, <<>>, "open", e, A)
        /\ \E x : Is(p, x, <<>>, "any", e, A)
        /\ \E x : Is(p, x, <<>>, "closed", e, A)
        /\ \E x : Is(p, x, <<"operand">>, "open", e, A)
  BY <1>3, <1>5, <1>8, PointsOver
<1>10. PICK p1, p2, p3, p4, p5 :
         /\ Is(p, p1, <<>>, "open", d, A1)
         /\ Is(p, p2, <<>>, "closed", d, A1)
         /\ Is(p, p3, <<>>, "open", d, A2)
         /\ Is(p, p4, <<>>, "closed", d, A2)
         /\ Is(p, p5, <<>>, "closed", n, A2)
  BY <1>9
<1>11. PICK p6, p7, p8, p9 :
         /\ Is(p, p6, <<>>, "open", n, A3)
         /\ Is(p, p7, <<>>, "any", n, A3)
         /\ Is(p, p8, <<>>, "closed", n, A3)
         /\ Is(p, p9, <<>>, "closed", d, A3)
  BY <1>9
<1>12. PICK p10, p11 : Is(p, p10, <<>>, "open", d, A4) /\ Is(p, p11, <<>>, "closed", d, A4)
  BY <1>9
<1>13. /\ p1 \in Point /\ p2 \in Point /\ p3 \in Point /\ p4 \in Point /\ p5 \in Point
       /\ p6 \in Point /\ p7 \in Point /\ p8 \in Point /\ p9 \in Point /\ p10 \in Point
       /\ p11 \in Point
  BY <1>10, <1>11, <1>12 DEF Is
<1>14. TasksOK(me', first) /\ Runs(first, p1, p3)
  <2>1. Effect(t1, p1, p2)
    BY <1>3, <1>8, <1>10, StmtEffect
  <2>2. Effect(t2, p2, p3)
    BY <1>3, <1>5, <1>8, <1>10, EnterEffect
  <2> HIDE DEF t1, t2
  <2> QED
    BY <1>7, <1>13, <2>1, <2>2, TasksTwo, RunsTwo
<1>15. TasksOK(me', test) /\ Runs(test, p3, p4)
  <2>1. CASE s.cond = <<>>
    <3> DEFINE t == Jump(Goto(body))
    <3>1. test = <<t>> /\ TaskOK(me', t)
      BY <1>7, <2>1
    <3>2. Effect(t, p3, p4)
      BY <1>3, <1>8, <1>10, StmtEffect
    <3> HIDE DEF t, test
    <3> QED
      BY <1>13, <3>1, <3>2, TasksOne, RunsOne
  <2>2. CASE s.cond # <<>>
    <3> DEFINE t == Expr(s.cond[1])
    <3>1. s.cond[1] \in HirExpr /\ Exprs(s.cond) = <<t>>
      BY <1>4, <2>2, OptionalExpr
    <3>2. test = <<t>> \o <<t3>>
      BY <2>2, <3>1
    <3>3. test = <<t, t3>>
      BY <3>2, ConcatOnes
    <3>4. TaskOK(me', t) /\ TaskOK(me', t3)
      BY <1>7, <3>1, TaskIsOK
    <3>5. PICK x : Is(p, x, <<"operand">>, "open", d, A2)
      BY <1>9
    <3>6. Effect(t, p3, x)
      BY <1>3, <1>8, <1>10, <3>5, ValueEffect
    <3>7. Effect(t3, x, p4)
      BY <1>3, <1>8, <1>10, <3>5, StmtEffect
    <3>8. x \in Point
      BY <3>5 DEF Is
    <3> HIDE DEF t, t3, test
    <3> QED
      BY <1>13, <3>3, <3>4, <3>6, <3>7, <3>8, TasksTwo, RunsTwo
  <2> QED
    BY <2>1, <2>2
<1>16. TasksOK(me', loop) /\ Runs(loop, p4, p10)
  <2>1. Effect(t4, p4, p5)
    BY <1>3, <1>8, <1>10, LoopEffect
  <2>2. Effect(t5, p5, p6)
    BY <1>3, <1>5, <1>8, <1>10, <1>11, EnterEffect
  <2>3. Effect(t6, p6, p7)
    BY <1>3, <1>8, <1>11, StmtEffect
  <2>4. Effect(t7, p7, p8)
    BY <1>3, <1>8, <1>11, StmtEffect
  <2>5. Effect(t8, p8, p9)
    BY <1>3, <1>8, <1>11, LoopEffect
  <2>6. Effect(t9, p9, p10)
    BY <1>3, <1>5, <1>8, <1>11, <1>12, EnterEffect
  <2> HIDE DEF t4, t5, t6, t7, t8, t9
  <2> QED
    BY <1>7, <1>13, <2>1, <2>2, <2>3, <2>4, <2>5, <2>6, TasksSix, RunsSix
<1>17. TasksOK(me', next) /\ Runs(next, p10, p10)
  <2>1. CASE s.step = <<>>
    <3>1. next = <<>>
      BY <2>1 DEF IfAny
    <3> HIDE DEF next
    <3> QED
      BY <1>13, <3>1, TasksNothing, RunsNothing
  <2>2. CASE s.step # <<>>
    <3> DEFINE t == Expr(s.step[1])
    <3>1. s.step[1] \in HirExpr /\ Exprs(s.step) = <<t>>
      BY <1>4, <2>2, OptionalExpr
    <3>2. next = <<t>> \o <<Discard>>
      BY <2>2, <3>1 DEF IfAny
    <3>3. next = <<t, Discard>>
      BY <3>2, ConcatOnes
    <3>4. TaskOK(me', t) /\ TaskOK(me', Discard)
      BY <1>7, <3>1, TaskIsOK
    <3>5. PICK x : Is(p, x, <<"operand">>, "open", d, A4)
      BY <1>9
    <3>6. Effect(t, p10, x) /\ Effect(Discard, x, p10)
      BY <1>3, <1>8, <1>12, <3>5, ValueEffect
    <3>7. x \in Point
      BY <3>5 DEF Is
    <3> HIDE DEF t, next
    <3> QED
      BY <1>13, <3>3, <3>4, <3>6, <3>7, TasksTwo, RunsTwo
  <2> QED
    BY <2>1, <2>2
<1>18. TasksOK(me', last) /\ Runs(last, p10, q)
  <2>1. Effect(t1, p10, p11)
    BY <1>3, <1>8, <1>12, StmtEffect
  <2>2. Effect(t10, p11, q)
    BY <1>3, <1>5, <1>8, <1>12, EnterEffect
  <2> HIDE DEF t1, t10
  <2> QED
    BY <1>3, <1>7, <1>13, <2>1, <2>2, TasksTwo, RunsTwo
<1> HIDE DEF first, test, loop, next, last
<1> DEFINE ts == first \o test \o loop \o next \o last
<1>19. TasksOK(me', ts) /\ Runs(ts, p1, q)
  <2>1. \A x, y, a, b, c : TasksOK(me', x) /\ TasksOK(me', y) /\ Runs(x, a, b) /\ Runs(y, b, c)
                             => TasksOK(me', x \o y) /\ Runs(x \o y, a, c)
    BY TasksConcat, RunsConcat DEF TasksOK
  <2>2. TasksOK(me', first \o test) /\ Runs(first \o test, p1, p4)
    BY <1>14, <1>15, <2>1
  <2>3. TasksOK(me', first \o test \o loop) /\ Runs(first \o test \o loop, p1, p10)
    BY <1>16, <2>1, <2>2
  <2>4. TasksOK(me', first \o test \o loop \o next) /\ Runs(first \o test \o loop \o next, p1, p10)
    BY <1>17, <2>1, <2>3
  <2> QED
    BY <1>18, <2>1, <2>4
<1>20. Keeps(me, me) /\ SameFlow(me, me)
  BY <1>3, KeepsSame
<1> HIDE DEF ts
<1>21. Then(ts)
  BY <1>1 DEF ts
<1> QED
  BY <1>1, <1>2, <1>3, <1>10, <1>19, <1>20, <1>21, ExpandFresh DEF A1, P, d

-----------------------------------------------------------------------------
(* The invariant holds at the start and is kept.                              *)

LEMMA FirstBlock ==
  /\ <<>> \o [i \in 1 .. 1 |-> NewBlock] = <<NewBlock>>
  /\ \A m : BlockIn(m, NewBlock)
<1>1. IsSequence(<<>>) /\ Len(<<>>) = 0 /\ \A m : IsSequence(<<>>) /\ \A i \in 1 .. 0 : FALSE
  BY SequenceEmpty
<1>2. \A m : BlockIn(m, NewBlock)
  <2>1. /\ NewBlock.stmts = <<>> /\ NewBlock.term = Unreachable
        /\ NewBlock = [stmts |-> NewBlock.stmts, term |-> NewBlock.term]
    BY DEF NewBlock
  <2> QED
    BY <1>1, <2>1 DEF BlockIn, TermIn
<1>3. [i \in 1 .. 1 |-> NewBlock] = <<NewBlock>>
  OBVIOUS
<1>4. <<NewBlock>> \in Seq({NewBlock})
  OBVIOUS
<1>5. <<>> \o <<NewBlock>> = <<NewBlock>>
  BY <1>4, ConcatEmptySeq
<1> QED
  BY <1>2, <1>3, <1>5

LEMMA StartOK ==
  ASSUME NEW f, IsFunction(f), NEW m, m = NewBlocks(NewBuilder(f), 1)
  PROVE  /\ BuilderOK(m) /\ m.loop_stack = <<>> /\ m.current = 0
         /\ m.blocks = <<NewBlock>>
<1> DEFINE n == Len(f.params)
           args == [i \in 1 .. n |-> [kind |-> "Arg", own |-> f.params[i].own]]
           first == [kind |-> "Return", own |-> f.own]
           syms == [s \in {f.params[i].sym : i \in DOMAIN f.params} |->
                      CHOOSE i \in DOMAIN f.params : f.params[i].sym = s]
<1>1. n \in Nat /\ DOMAIN f.params = 1 .. n
  <2>1. IsSequence(f.params)
    BY DEF IsFunction, IsSequence
  <2> QED
    BY <2>1, SequenceElim
<1>2. m = [locals |-> <<first>> \o args, blocks |-> <<>> \o [i \in 1 .. 1 |-> NewBlock],
           current |-> 0, sym_to_local |-> syms, loop_stack |-> <<>>]
  BY <1>1 DEF NewBlocks, NewBuilder
<1>3. IsSequence(args) /\ Len(args) = n
  <2>1. args = [i \in 1 .. n |-> args[i]]
    OBVIOUS
  <2> HIDE DEF args
  <2> QED
    BY <1>1, <2>1, SequenceByIndex
<1>4. \A s \in DOMAIN syms : syms[s] \in 1 .. n
  <2>1. ASSUME NEW s \in DOMAIN syms
        PROVE  \E i \in DOMAIN f.params : f.params[i].sym = s
    OBVIOUS
  <2> QED
    BY <1>1, <2>1
<1> HIDE DEF n, args, first, syms
<1>5. IsSequence(<<first>> \o args) /\ Len(<<first>> \o args) = n + 1
  BY <1>1, <1>3, SequenceOne, SequenceConcat
<1>6. m.blocks = <<NewBlock>> /\ m.current = 0 /\ m.loop_stack = <<>> /\ m.sym_to_local = syms
      /\ m.locals = <<first>> \o args
  BY <1>2, FirstBlock
<1>7. /\ m = [locals |-> m.locals, blocks |-> m.blocks, current |-> m.current,
              sym_to_local |-> m.sym_to_local, loop_stack |-> m.loop_stack]
      /\ IsSequence(m.locals) /\ Len(m.locals) = n + 1
  <2>1. \A a, b, c, d, e :
          m = [locals |-> a, blocks |-> b, current |-> c, sym_to_local |-> d, loop_stack |-> e]
            => m = [locals |-> m.locals, blocks |-> m.blocks, current |-> m.current,
                    sym_to_local |-> m.sym_to_local, loop_stack |-> m.loop_stack]
    OBVIOUS
  <2> QED
    BY <1>2, <1>5, <1>6, <2>1
<1>8. m.locals # <<>>
  BY <1>1, <1>7, SequenceElim
<1>9. IsSequence(m.blocks) /\ Len(m.blocks) = 1 /\ \A i \in 1 .. 1 : m.blocks[i] = NewBlock
  <2>1. \A i \in 1 .. 1 : i = 1
    OBVIOUS
  <2> QED
    BY <1>6, <2>1, SequenceOne
<1>10. \A i \in 1 .. Len(m.blocks) : BlockIn(m, m.blocks[i])
  BY <1>9, FirstBlock
<1>11. m.current \in Blocks(m)
  BY <1>6, <1>9 DEF Blocks
<1>12. Range(m.sym_to_local) \subseteq Locals(m)
  <2>1. Range(syms) \subseteq 1 .. n
    BY <1>4 DEF Range
  <2> QED
    BY <1>1, <1>6, <1>7, <2>1 DEF Locals
<1>13. m.loop_stack \in Seq(Blocks(m) \X Blocks(m))
  BY <1>6, EmptySeq
<1> QED
  BY <1>6, <1>7, <1>8, <1>9, <1>10, <1>11, <1>12, <1>13 DEF BuilderOK

\* The function's body, with nothing at hand, leads to the end.
LEMMA InitInv ==
  ASSUME Init
  PROVE  Inv
<1>1. /\ IsFunction(fn) /\ me = NewBlocks(NewBuilder(fn), 1)
      /\ todo = <<Block(fn.body)>> /\ ops = <<>> /\ pc = "run"
  BY HirAssumption DEF Init, Start
<1>2. /\ BuilderOK(me) /\ me.loop_stack = <<>> /\ me.current = 0 /\ me.blocks = <<NewBlock>>
  BY <1>1, StartOK
<1>3. OpsOK(me, ops) /\ Len(ops) = 0
  BY <1>1, SequenceEmpty DEF OpsOK
<1>4. TasksOK(me, todo)
  <2>1. fn.body \in Seq(HirStmt)
    BY <1>1 DEF IsFunction
  <2> QED
    BY <1>1, <2>1, TaskIsOK, TasksOne
<1> DEFINE start == [kinds |-> [i \in Nat |-> "operand"], height |-> 0, flag |-> "open", at |-> 0,
                     depth |-> 0, pend |-> {}]
<1>5. /\ start \in Point /\ start.height = 0 /\ start.flag = "open" /\ start.depth = 0
      /\ start.pend = {}
  BY DEF Point, Kind, Flag
<1> HIDE DEF start
<1>6. Stacked(ops, start)
  BY <1>3, <1>5 DEF Stacked
<1>7. Placed(me, start)
  <2>1. Blocks(me) = {0}
    <3>1. Len(me.blocks) = 1
      BY <1>2, SequenceOne
    <3> QED
      BY <3>1 DEF Blocks
  <2>2. Term(me, 0) = Unreachable
    <3>1. me.blocks[0 + 1] = NewBlock
      BY <1>2, SequenceOne
    <3> QED
      BY <3>1 DEF Term, NewBlock
  <2>3. Len(me.loop_stack) = 0
    BY <1>2, SequenceEmpty
  <2> QED
    BY <1>2, <1>5, <2>1, <2>2, <2>3 DEF Placed, Writable
<1>8. Leads(todo, start)
  <2>1. Is(start, start, <<>>, "open", 0, {})
    BY <1>5, IsItself
  <2>2. PICK q : Is(start, q, <<>>, "any", 0, {})
    <3>1. "any" \in Flag
      BY DEF Flag
    <3> QED
      BY <1>5, <3>1, HerePoint
  <2>3. q \in Point /\ IsEnd(q)
    <3>1. q \in Point /\ q.flag = "any" /\ q.depth = 0 /\ q.pend = {} /\ Over(start, q, <<>>)
      BY <2>2 DEF Is
    <3>2. q.height = 0
      BY <1>5, <3>1, SequenceEmpty DEF Over, Stack
    <3> QED
      BY <3>1, <3>2 DEF IsEnd
  <2>4. Effect(Block(fn.body), start, q)
    BY <1>5, <2>1, <2>2, StmtEffect
  <2>5. Runs(todo, start, q)
    BY <1>1, <1>5, <2>3, <2>4, RunsOne
  <2> QED
    BY <2>3, <2>5 DEF Leads
<1>9. EveryBlockClosed
  BY <1>1 DEF EveryBlockClosed
<1> QED
  BY <1>1, <1>2, <1>3, <1>4, <1>5, <1>6, <1>7, <1>8, <1>9 DEF Inv

LEMMA StepInv ==
  ASSUME Inv, [Next]_vars
  PROVE  Inv' /\ (Keeps(me, me') \/ me' = me)
<1>1. CASE UNCHANGED vars
  <2>1. fn' = fn /\ me' = me /\ todo' = todo /\ ops' = ops /\ pc' = pc
    BY <1>1 DEF vars
  <2> QED
    BY <2>1 DEF Inv, EveryBlockClosed
<1>2. CASE Next
  <2>1. CASE \/ LowerBlock \/ LowerCompound \/ LowerExprStmt \/ LowerDeclStmt \/ LowerDecl
             \/ LowerReturn \/ LowerIf \/ LowerWhile \/ LowerDoWhile \/ LowerFor \/ LowerForLoop
             \/ LowerBreak \/ LowerContinue \/ LowerEmpty
    BY <2>1, StepBlock, StepCompound, StepExprStmt, StepDeclStmt, StepDecl, StepReturn, StepIf,
       StepWhile, StepDoWhile, StepFor, StepForLoop, StepBreak, StepEmpty
  <2>2. CASE \/ EnterBlock \/ SetJump \/ CloseArm \/ BranchOn \/ EnterLoop \/ LeaveLoop \/ Finish
    BY <2>2, StepEnterBlock, StepSetJump, StepCloseArm, StepBranchOn, StepLoops, StepFinish
  <2>3. CASE \/ LowerPlaceRead \/ LowerConst \/ LowerBinary \/ LowerUnary \/ LowerCast
             \/ LowerCall \/ LowerComma
             \/ LowerShortCircuit \/ LowerTernary \/ LowerAddrOf \/ LowerPrefix \/ LowerPostfix
             \/ LowerAssign \/ PanicOnPlace
    BY <2>3, StepPlaceRead, StepConst, StepOperation, StepShortCircuit, StepTernary, StepAddrOf,
       StepPrefix, StepPostfix, StepAssign, StepPanic
  <2>4. CASE \/ LowerPlace \/ MaterializeOperand \/ ProjectPlace \/ ReadIt
             \/ PutOperand \/ DropOperands \/ StoreOperand \/ EmitIt \/ EmitTheCall \/ SaveOld
             \/ CombineWithOld \/ UpdatePlace
    BY <2>4, StepPlace, StepMaterialize, StepProject, StepReadIt, StepPutOperand, StepDropOperands,
       StepStoreOperand, StepEmit, StepCall, StepSave, StepCombine, StepUpdate
  <2>5. CASE Finished
    BY <1>1, <2>5 DEF Finished
  <2> QED
    BY <1>2, <2>1, <2>2, <2>3, <2>4, <2>5 DEF Next
<1> QED
  BY <1>1, <1>2

\* No step changes the function.
LEMMA FunctionStays == [Next]_vars => fn' = fn
BY DEF Next,
  LowerBlock, LowerCompound, LowerExprStmt, LowerDeclStmt, LowerDecl, LowerReturn,
  LowerIf, LowerWhile, LowerDoWhile, LowerFor, LowerForLoop, LowerBreak, LowerContinue,
  LowerEmpty, EnterBlock, SetJump, CloseArm, BranchOn, EnterLoop, LeaveLoop, Finish,
  LowerPlaceRead, LowerConst, LowerBinary, LowerUnary, LowerCast, LowerCall, LowerComma,
  LowerShortCircuit, LowerTernary, LowerAddrOf, LowerPrefix, LowerPostfix, LowerAssign,
  PanicOnPlace, LowerPlace, MaterializeOperand, ProjectPlace, ReadIt, PutOperand,
  DropOperands, StoreOperand, EmitIt, EmitTheCall, SaveOld, CombineWithOld, UpdatePlace,
  Finished, vars, Statement, Expression, Operation

-----------------------------------------------------------------------------
(* What the invariant says of the builder.                                    *)

LEMMA RangeOf ==
  ASSUME NEW s, IsSequence(s)
  PROVE  \A x \in Range(s) : \E i \in 1 .. Len(s) : x = s[i]
BY SequenceElim

LEMMA OperandInIs ==
  ASSUME NEW m, NEW o, OperandIn(m, o)
  PROVE  IsOperandOf(m, o)
<1>1. CASE o = Const(o.const)
  <2>1. o.mode = "Const"
    BY <1>1 DEF Const
  <2> QED
    BY <2>1 DEF IsOperandOf
<1>2. CASE PlaceIn(m, o.place)
  BY <1>2 DEF PlaceIn, IsOperandOf
<1> QED
  BY <1>1, <1>2 DEF OperandIn

LEMMA BlockInIs ==
  ASSUME NEW m, NEW b, BlockIn(m, b)
  PROVE  /\ \A s \in Range(b.stmts) : IsStatementOf(m, s)
         /\ Range(b.term.to) \subseteq Blocks(m)
         /\ \A o \in Range(b.term.cond) : IsOperandOf(m, o)
<1>1. ASSUME NEW s \in Range(b.stmts)
      PROVE  IsStatementOf(m, s)
  <2>1. StatementIn(m, s)
    BY RangeOf DEF BlockIn
  <2>2. \A o \in Range(s.reads) : IsOperandOf(m, o)
    BY <2>1, RangeOf, OperandInIs DEF StatementIn
  <2>3. \A pl \in Range(s.dest) \cup Range(s.of) : IsPlaceOf(m, pl)
    BY <2>1, RangeOf DEF StatementIn, PlaceIn
  <2> QED
    BY <2>2, <2>3 DEF IsStatementOf
<1>2. /\ Range(<<>>) = {}
      /\ \A x : Range(<<x>>) = {x}
      /\ \A x, y : Range(<<x, y>>) = {x, y}
  <2>1. Range(<<>>) = {}
    BY DEF Range
  <2>2. ASSUME NEW x
        PROVE  Range(<<x>>) = {x}
    BY DEF Range
  <2>3. ASSUME NEW x, NEW y
        PROVE  Range(<<x, y>>) = {x, y}
    BY DEF Range
  <2> QED
    BY <2>1, <2>2, <2>3
<1>3. Range(b.term.to) \subseteq Blocks(m) /\ \A o \in Range(b.term.cond) : IsOperandOf(m, o)
  <2>1. CASE b.term \in {Unreachable, Return}
    <3>1. b.term.to = <<>> /\ b.term.cond = <<>>
      BY <2>1 DEF Unreachable, Return
    <3> QED
      BY <1>2, <3>1
  <2>2. ASSUME NEW c \in Blocks(m), b.term = Goto(c)
        PROVE  Range(b.term.to) \subseteq Blocks(m) /\ Range(b.term.cond) = {}
    <3>1. b.term.to = <<c>> /\ b.term.cond = <<>>
      BY <2>2 DEF Goto
    <3> QED
      BY <1>2, <3>1
  <2>3. ASSUME NEW o, NEW b1 \in Blocks(m), NEW b2 \in Blocks(m), OperandIn(m, o),
               b.term = SwitchInt(o, b1, b2)
        PROVE  Range(b.term.to) \subseteq Blocks(m) /\ Range(b.term.cond) = {o}
    <3>1. b.term.to = <<b1, b2>> /\ b.term.cond = <<o>>
      BY <2>3 DEF SwitchInt
    <3> QED
      BY <1>2, <3>1
  <2>4. TermIn(m, b.term)
    BY DEF BlockIn
  <2> QED
    BY <2>1, <2>2, <2>3, <2>4, OperandInIs DEF TermIn
<1> QED
  BY <1>1, <1>3

LEMMA InvTypeOK ==
  ASSUME Inv
  PROVE  TypeOK
<1>1. BuilderOK(me) /\ OpsOK(me, ops) /\ pc \in {"run", "done", "panic"}
  BY DEF Inv
<1>2. me.current \in Blocks(me) /\ Range(me.sym_to_local) \subseteq Locals(me)
  BY <1>1 DEF BuilderOK
<1>3. \A t \in Range(me.loop_stack) : Range(t) \subseteq Blocks(me)
  <2>1. me.loop_stack \in Seq(Blocks(me) \X Blocks(me))
    BY <1>1 DEF BuilderOK
  <2>2. Range(me.loop_stack) \subseteq Blocks(me) \X Blocks(me)
    BY <2>1, SequenceIntro, RangeOf, ElementOfSeq
  <2>3. ASSUME NEW t \in Blocks(me) \X Blocks(me)
        PROVE  Range(t) \subseteq Blocks(me)
    BY DEF Range
  <2> QED
    BY <2>2, <2>3
<1>4. ASSUME NEW i \in DOMAIN me.blocks
      PROVE  LET b == me.blocks[i] IN
               /\ \A s \in Range(b.stmts) : IsStatementOf(me, s)
               /\ Range(b.term.to) \subseteq Blocks(me)
               /\ \A o \in Range(b.term.cond) : IsOperandOf(me, o)
  <2>1. BlockIn(me, me.blocks[i])
    BY <1>1, BuilderIs DEF BuilderOK
  <2> QED
    BY <2>1, BlockInIs
<1>5. \A x \in Range(ops) : IF "mode" \in DOMAIN x THEN IsOperandOf(me, x) ELSE IsPlaceOf(me, x)
  <2>1. ASSUME NEW x \in Range(ops)
        PROVE  IF "mode" \in DOMAIN x THEN OperandIn(me, x) ELSE PlaceIn(me, x)
    <3>1. ValueIn(me, x)
      BY <1>1, RangeOf DEF OpsOK
    <3> QED
      BY <3>1, KindOfValue DEF KindOf
  <2> QED
    BY <2>1, OperandInIs DEF PlaceIn
<1> QED
  BY <1>1, <1>2, <1>3, <1>4, <1>5 DEF TypeOK

LEMMA KeepsClosed ==
  ASSUME Inv, Keeps(me, me') \/ me' = me, NEW i \in DOMAIN me.blocks,
         me.blocks[i].term \notin {Unreachable, Goto(i - 1)}
  PROVE  me'.blocks[i] = me.blocks[i]
<1>1. i \in Nat /\ i - 1 \in Blocks(me) /\ i - 1 + 1 = i
  BY BuilderIs DEF Inv
<1>2. ~ Writable(me, i - 1)
  BY <1>1 DEF Writable, Term
<1> QED
  BY <1>1, <1>2 DEF Keeps

(***************************************************************************)
(* Spec keeps the invariant.                                               *)
(***************************************************************************)
THEOREM Invariance == Spec => []Inv
<1>1. Inv /\ [Next]_vars => Inv'
  BY StepInv
<1> QED
  BY <1>1, InitInv, PTL DEF Spec

(***************************************************************************)
(* The ids the builder indexes its vectors with are in range, for every    *)
(* function: the current block, the targets of jumps and of loops, the     *)
(* locals that statements and pending code name (build.rs indexes blocks   *)
(* and locals without a check).                                            *)
(***************************************************************************)
THEOREM TypeCorrect == Spec => []TypeOK
<1>1. Inv => TypeOK
  BY InvTypeOK
<1> QED
  BY <1>1, Invariance, PTL

(***************************************************************************)
(* Every function's body is handed out with all blocks patched: no         *)
(* `Unreachable` that new_block left (build.rs:113) survives, no loop is    *)
(* left open and no operand is left over.                                  *)
(***************************************************************************)
THEOREM BodiesAreClosed == Spec => []EveryBlockClosed
<1>1. Inv => EveryBlockClosed
  BY DEF Inv
<1> QED
  BY <1>1, Invariance, PTL

(***************************************************************************)
(* No step writes a block that has its terminator, the self-jump of the    *)
(* join block of && and || aside (set_terminator and push_stmt check        *)
(* nothing, build.rs:117).                                                 *)
(***************************************************************************)
THEOREM ClosedBlocksAreKept == Spec => ClosedBlocksStay
<1>1. ASSUME Inv, [Next]_vars
      PROVE  [\A i \in DOMAIN me.blocks :
                me.blocks[i].term \notin {Unreachable, Goto(i - 1)}
                  => me'.blocks[i] = me.blocks[i]]_vars
  BY <1>1, StepInv, KeepsClosed
<1> QED
  BY <1>1, Invariance, PTL DEF Spec, ClosedBlocksStay

=============================================================================
