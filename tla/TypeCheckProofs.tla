-------------------------- MODULE TypeCheckProofs --------------------------
(***************************************************************************)
(* The type checker keeps its scopes, loops and symbols in order, for      *)
(* every module, whatever errors it meets.                                 *)
(*                                                                         *)
(* As in MirBuildProofs, the invariant says that what is left to do fits   *)
(* what is at hand.  A point is what the proof follows of the checker      *)
(* between two tasks; every task has an effect on it, todo leads from the  *)
(* present point to rest, and an action replaces a task by tasks that have *)
(* the same effect together.                                               *)
(***************************************************************************)
EXTENDS TypeCheck, SequenceFacts

-----------------------------------------------------------------------------
(* Points: how many values pending code holds, how many scopes and loops are  *)
(* open, and whether a function is being lowered.                             *)

Point == [height : Nat, scopes : Nat, loops : Nat, body : BOOLEAN]
Pt(height, scopes, loops, body) ==
  [height |-> height, scopes |-> scopes, loops |-> loops, body |-> body]

\* Between two items.
Rest == Pt(0, 1, 0, FALSE)

\* With `height` values at hand.
At(p, height) == Pt(height, p.scopes, p.loops, p.body)
More(p, n) == At(p, p.height + n)

\* An expression may stand anywhere, a statement only in a function.
CanLower(n, scopes) ==
  n \in AstExpr \/ n = EmptyNode \/ (n \in AstStmt /\ scopes >= 2)

Effect(t, p, q) ==
  CASE t.do \in {"declare_item", "lower_item"} -> p = Rest /\ q = Rest
    [] t.do = "end_fn" -> p = Pt(t.parts, 2, 0, TRUE) /\ q = Rest
    [] t.do = "end_global" -> p = More(Rest, t.parts) /\ q = Rest
    [] t.do = "lower" -> q = More(p, 1) /\ CanLower(t.n, p.scopes)
    [] t.do = "make" -> Len(t.n.args) <= p.height /\ q = At(p, p.height - Len(t.n.args) + 1)
    [] t.do = "declare_local" ->
         /\ Len(t.n.args) <= p.height /\ q = At(p, p.height - Len(t.n.args) + 1)
         /\ p.scopes >= 2
    [] t.do = "enter_scope" -> q = Pt(p.height, p.scopes + 1, p.loops, p.body)
    [] t.do = "leave_scope" -> p.scopes >= 2 /\ q = Pt(p.height, p.scopes - 1, p.loops, p.body)
    [] t.do = "enter_loop" -> q = Pt(p.height, p.scopes, p.loops + 1, p.body)
    [] t.do = "leave_loop" -> p.loops >= 1 /\ q = Pt(p.height, p.scopes, p.loops - 1, p.body)
    [] OTHER -> p.height >= 1 /\ q = p

\* The tasks one after the other lead from p to q.
Runs(ts, p, q) ==
  \E h \in [1 .. Len(ts) + 1 -> Point] :
    /\ h[1] = p /\ h[Len(ts) + 1] = q
    /\ \A i \in 1 .. Len(ts) : Effect(ts[i], h[i], h[i + 1])

\* What the node of a task has to be, with n symbols in the table.
MadeKinds == ({"expr", "decl", "block", "unsafe", "if", "while", "do", "for", "return"} \cup ExprKinds)
               \ {"ident", "paren", "member"}

TaskOK(n, t) ==
  CASE t.do \in {"declare_item", "lower_item"} -> IsItem(t.n)
    [] t.do = "end_fn" -> IsNode(t.n) /\ t.n.k = "fn" /\ t.n.what \in 1 .. n /\ t.parts \in Nat
    [] t.do = "end_global" -> IsNode(t.n) /\ t.n.k = "var" /\ t.n.what \in 1 .. n /\ t.parts \in Nat
    [] t.do = "make" ->
         /\ IsSequence(t.n.args) /\ t.n.k \in MadeKinds
         /\ t.n.k = "unary" => t.n.what \in UnaryOps
    [] t.do = "declare_local" -> IsSequence(t.n.args)
    [] t.do = "call_args" -> t.n \in AstExpr /\ t.n.k = "call"
    [] OTHER -> t.do \in {"lower", "enter_scope", "leave_scope", "enter_loop", "leave_loop",
                          "check_scalar", "check_lvalue", "decay", "convert"}

\* Tasks that an action puts first.
Job(n, ts, p, q) ==
  /\ IsSequence(ts)
  /\ \A i \in 1 .. Len(ts) : TaskOK(n, ts[i]) /\ ts[i].do \notin {"declare_item", "lower_item"}
  /\ Runs(ts, p, q)

-----------------------------------------------------------------------------
(* The checker at a point.                                                    *)

TcOK(m) ==
  /\ m = [symbols |-> m.symbols, scopes |-> m.scopes, diagnostics |-> m.diagnostics,
          current_return_type |-> m.current_return_type, loop_depth |-> m.loop_depth]
  /\ IsSequence(m.symbols) /\ IsSequence(m.scopes) /\ m.scopes # <<>>
  /\ \A i \in 1 .. Len(m.scopes) : Range(m.scopes[i]) \subseteq 1 .. Len(m.symbols)
  /\ IsSequence(m.current_return_type) /\ Len(m.current_return_type) <= 1

IsDeclaration(x) == x.k \in {"fn", "var"}
ValueOK(n, x) == x.k \in {"ref", "fn", "var"} => x.what \in 1 .. n
ValuesOK(n, v) == IsSequence(v) /\ \A i \in 1 .. Len(v) : ValueOK(n, v[i])

Stands(m, v, p) ==
  /\ Len(m.scopes) = p.scopes /\ m.loop_depth = p.loops
  /\ m.current_return_type # <<>> => p.body
  /\ p.height <= Len(v) /\ \A i \in 1 .. Len(v) - p.height : IsDeclaration(v[i])

Names == {module[i].what : i \in 1 .. Len(module)}

\* The first pass comes first, and what it has not declared yet it will.
ToDeclare(ts) == {i \in 1 .. Len(ts) : ts[i].do = "declare_item"}
FirstPass(m, ts) ==
  /\ \A j \in ToDeclare(ts) : \A i \in 1 .. j : i \in ToDeclare(ts)
  /\ DOMAIN m.scopes[1] \cup {ts[i].n.what : i \in ToDeclare(ts)} = Names
  /\ \A i \in 1 .. Len(ts) : ts[i].do = "lower_item" => ts[i].n.what \in Names

(***************************************************************************)
(* The inductive invariant.                                                *)
(***************************************************************************)
Inv ==
  /\ module \in Modules
  /\ TcOK(tc)
  /\ ValuesOK(Len(tc.symbols), vals)
  /\ IsSequence(todo) /\ \A i \in 1 .. Len(todo) : TaskOK(Len(tc.symbols), todo[i])
  /\ FirstPass(tc, todo)
  /\ \E p \in Point : Stands(tc, vals, p) /\ Runs(todo, p, Rest)

-----------------------------------------------------------------------------
(* Runs of tasks.                                                             *)

LEMMA PointIs ==
  ASSUME NEW p \in Point
  PROVE  /\ p.height \in Nat /\ p.scopes \in Nat /\ p.loops \in Nat /\ p.body \in BOOLEAN
         /\ p = Pt(p.height, p.scopes, p.loops, p.body)
         /\ \A n \in Nat : At(p, n) \in Point /\ At(p, n).height = n /\ At(p, n).scopes = p.scopes
                             /\ At(p, n).loops = p.loops /\ At(p, n).body = p.body
BY DEF Point, Pt, At

LEMMA PtIs ==
  ASSUME NEW h \in Nat, NEW s \in Nat, NEW l \in Nat, NEW b \in BOOLEAN
  PROVE  Pt(h, s, l, b) \in Point
BY DEF Point, Pt

\* The effects of the tasks, one by one.
LEMMA EffectOfTask ==
  ASSUME NEW n, NEW p, NEW q
  PROVE  /\ Effect(Lower(n), p, q) <=> q = More(p, 1) /\ CanLower(n, p.scopes)
         /\ Effect(Make(n), p, q) <=> /\ Len(n.args) <= p.height
                                     /\ q = At(p, p.height - Len(n.args) + 1)
         /\ Effect(DeclareLocal(n), p, q) <=> /\ Len(n.args) <= p.height
                                             /\ q = At(p, p.height - Len(n.args) + 1)
                                             /\ p.scopes >= 2
         /\ Effect(EnterScope, p, q) <=> q = Pt(p.height, p.scopes + 1, p.loops, p.body)
         /\ Effect(LeaveScope, p, q) <=> /\ p.scopes >= 2
                                        /\ q = Pt(p.height, p.scopes - 1, p.loops, p.body)
         /\ Effect(EnterLoop, p, q) <=> q = Pt(p.height, p.scopes, p.loops + 1, p.body)
         /\ Effect(LeaveLoop, p, q) <=> /\ p.loops >= 1
                                       /\ q = Pt(p.height, p.scopes, p.loops - 1, p.body)
         /\ \A t \in {CheckScalar, CheckLvalue, DecayValue, Convert(n), CallArgs(n)} :
              Effect(t, p, q) <=> p.height >= 1 /\ q = p
<1>1. Effect(Lower(n), p, q) <=> q = More(p, 1) /\ CanLower(n, p.scopes)
  BY DEF Effect, Lower
<1>2. Effect(Make(n), p, q) <=> Len(n.args) <= p.height /\ q = At(p, p.height - Len(n.args) + 1)
  BY DEF Effect, Make
<1>3. Effect(DeclareLocal(n), p, q) <=> /\ Len(n.args) <= p.height
                                        /\ q = At(p, p.height - Len(n.args) + 1)
                                        /\ p.scopes >= 2
  BY DEF Effect, DeclareLocal
<1>4. /\ Effect(EnterScope, p, q) <=> q = Pt(p.height, p.scopes + 1, p.loops, p.body)
      /\ Effect(LeaveScope, p, q) <=> p.scopes >= 2 /\ q = Pt(p.height, p.scopes - 1, p.loops, p.body)
  BY DEF Effect, EnterScope, LeaveScope
<1>5. /\ Effect(EnterLoop, p, q) <=> q = Pt(p.height, p.scopes, p.loops + 1, p.body)
      /\ Effect(LeaveLoop, p, q) <=> p.loops >= 1 /\ q = Pt(p.height, p.scopes, p.loops - 1, p.body)
  BY DEF Effect, EnterLoop, LeaveLoop
<1>6. /\ Effect(CheckScalar, p, q) <=> p.height >= 1 /\ q = p
      /\ Effect(CheckLvalue, p, q) <=> p.height >= 1 /\ q = p
      /\ Effect(DecayValue, p, q) <=> p.height >= 1 /\ q = p
  BY DEF Effect, CheckScalar, CheckLvalue, DecayValue
<1>7. /\ Effect(Convert(n), p, q) <=> p.height >= 1 /\ q = p
      /\ Effect(CallArgs(n), p, q) <=> p.height >= 1 /\ q = p
  BY DEF Effect, Convert, CallArgs
<1> QED
  BY <1>1, <1>2, <1>3, <1>4, <1>5, <1>6, <1>7

LEMMA RunsNothing ==
  ASSUME NEW p \in Point
  PROVE  Runs(<<>>, p, p)
<1> DEFINE h == [i \in 1 .. 1 |-> p]
<1>1. Len(<<>>) = 0
  BY SequenceEmpty
<1>2. h \in [1 .. Len(<<>>) + 1 -> Point] /\ h[1] = p
  BY <1>1
<1> HIDE DEF h
<1> QED
  BY <1>1, <1>2 DEF Runs

LEMMA RunsConcat ==
  ASSUME NEW s, IsSequence(s), NEW t, IsSequence(t), NEW p, NEW q, NEW r,
         Runs(s, p, q), Runs(t, q, r)
  PROVE  Runs(s \o t, p, r)
<1> DEFINE m == Len(s)
           n == Len(t)
<1>1. m \in Nat /\ n \in Nat
  BY SequenceElim
<1>2. PICK g \in [1 .. m + 1 -> Point] :
        /\ g[1] = p /\ g[m + 1] = q
        /\ \A i \in 1 .. m : Effect(s[i], g[i], g[i + 1])
  BY DEF Runs
<1>3. PICK h \in [1 .. n + 1 -> Point] :
        /\ h[1] = q /\ h[n + 1] = r
        /\ \A i \in 1 .. n : Effect(t[i], h[i], h[i + 1])
  BY DEF Runs
<1> DEFINE f == [i \in 1 .. m + n + 1 |-> IF i <= m THEN g[i] ELSE h[i - m]]
<1>4. /\ Len(s \o t) = m + n
      /\ \A i \in 1 .. m : (s \o t)[i] = s[i]
      /\ \A i \in 1 .. n : (s \o t)[m + i] = t[i]
  BY SequenceConcat
<1> HIDE DEF m, n
<1>5. f \in [1 .. m + n + 1 -> Point]
  <2>1. ASSUME NEW i \in 1 .. m + n + 1, i <= m
        PROVE  i \in 1 .. m + 1
    BY <1>1, <2>1
  <2>2. ASSUME NEW i \in 1 .. m + n + 1, ~ (i <= m)
        PROVE  i - m \in 1 .. n + 1
    BY <1>1, <2>2
  <2> QED
    BY <2>1, <2>2
<1>6. f[1] = p
  <2>1. CASE m = 0
    BY <1>1, <1>2, <1>3, <2>1
  <2>2. CASE m # 0
    BY <1>1, <1>2, <2>2
  <2> QED
    BY <2>1, <2>2
<1>7. f[m + n + 1] = r
  BY <1>1, <1>3
<1>8. ASSUME NEW i \in 1 .. m + n
      PROVE  Effect((s \o t)[i], f[i], f[i + 1])
  <2>1. CASE i < m
    <3>1. i \in 1 .. m /\ f[i] = g[i] /\ f[i + 1] = g[i + 1]
      BY <1>1, <2>1
    <3> QED
      BY <1>2, <1>4, <3>1
  <2>2. CASE i = m
    <3>1. i \in 1 .. m /\ f[i] = g[i] /\ f[i + 1] = h[1]
      BY <1>1, <2>2
    <3> QED
      BY <1>2, <1>3, <1>4, <2>2, <3>1
  <2>3. CASE i > m
    <3>1. /\ i - m \in 1 .. n /\ m + (i - m) = i
          /\ f[i] = h[i - m] /\ f[i + 1] = h[i - m + 1]
      BY <1>1, <2>3
    <3> QED
      BY <1>3, <1>4, <3>1
  <2>4. i < m \/ i = m \/ i > m
    BY <1>1
  <2> QED
    BY <2>1, <2>2, <2>3, <2>4
<1> HIDE DEF f
<1> QED
  BY <1>4, <1>5, <1>6, <1>7, <1>8 DEF Runs

LEMMA RunsHead ==
  ASSUME NEW s, IsSequence(s), s # <<>>, NEW p, NEW r, Runs(s, p, r)
  PROVE  \E q \in Point : p \in Point /\ Effect(Head(s), p, q) /\ Runs(Tail(s), q, r)
<1> DEFINE n == Len(s)
<1>1. /\ n \in Nat \ {0} /\ Head(s) = s[1] /\ Len(Tail(s)) = n - 1
      /\ \A i \in 1 .. n - 1 : Tail(s)[i] = s[i + 1]
  BY SequenceTail
<1>2. PICK h \in [1 .. n + 1 -> Point] :
        /\ h[1] = p /\ h[n + 1] = r
        /\ \A i \in 1 .. n : Effect(s[i], h[i], h[i + 1])
  BY DEF Runs
<1> HIDE DEF n
<1> DEFINE g == [i \in 1 .. n |-> h[i + 1]]
<1>3. g \in [1 .. Len(Tail(s)) + 1 -> Point] /\ g[1] = h[2] /\ g[Len(Tail(s)) + 1] = r
  BY <1>1, <1>2
<1>4. ASSUME NEW i \in 1 .. Len(Tail(s))
      PROVE  Effect(Tail(s)[i], g[i], g[i + 1])
  <2>1. i \in 1 .. n - 1 /\ i + 1 \in 1 .. n /\ g[i] = h[i + 1] /\ g[i + 1] = h[i + 1 + 1]
    BY <1>1
  <2> QED
    BY <1>1, <1>2, <2>1
<1>5. h[1] \in Point /\ h[2] \in Point /\ Effect(Head(s), p, h[2])
  BY <1>1, <1>2
<1> HIDE DEF g
<1>6. Runs(Tail(s), h[2], r)
  BY <1>3, <1>4 DEF Runs
<1> QED
  BY <1>2, <1>5, <1>6

LEMMA RunsOne ==
  ASSUME NEW t, NEW p \in Point, NEW q \in Point, Effect(t, p, q)
  PROVE  Runs(<<t>>, p, q)
<1>1. Len(<<t>>) = 1 /\ <<t>>[1] = t
  BY SequenceOne
<1>2. <<p, q>> \in [1 .. 1 + 1 -> Point] /\ <<p, q>>[1] = p /\ <<p, q>>[2] = q
  OBVIOUS
<1> QED
  BY <1>1, <1>2 DEF Runs

\* A task that leaves the point alone may come any number of times.
LEMMA RunsIdle ==
  ASSUME NEW ts, IsSequence(ts), NEW p \in Point, \A i \in 1 .. Len(ts) : Effect(ts[i], p, p)
  PROVE  Runs(ts, p, p)
<1> DEFINE h == [i \in 1 .. Len(ts) + 1 |-> p]
<1>1. Len(ts) \in Nat
  BY SequenceElim
<1>2. h \in [1 .. Len(ts) + 1 -> Point] /\ h[1] = p /\ h[Len(ts) + 1] = p
  BY <1>1
<1>3. \A i \in 1 .. Len(ts) : h[i] = p /\ h[i + 1] = p
  BY <1>1
<1> HIDE DEF h
<1> QED
  BY <1>2, <1>3 DEF Runs

LEMMA EachIs ==
  ASSUME NEW ns, IsSequence(ns)
  PROVE  /\ IsSequence(Each(ns)) /\ Len(Each(ns)) = Len(ns)
         /\ \A i \in 1 .. Len(ns) : Each(ns)[i] = Lower(ns[i])
<1>1. Len(ns) \in Nat /\ DOMAIN ns = 1 .. Len(ns)
  BY SequenceElim
<1> DEFINE f == Each(ns)
<1>2. f = [i \in 1 .. Len(ns) |-> f[i]] /\ \A i \in 1 .. Len(ns) : f[i] = Lower(ns[i])
  BY <1>1 DEF Each
<1> HIDE DEF f
<1>3. IsSequence(f) /\ Len(f) = Len(ns)
  BY <1>1, <1>2, SequenceByIndex
<1> QED
  BY <1>2, <1>3 DEF f

\* The parts of a node are lowered one after the other, each to one value.
LEMMA RunsEach ==
  ASSUME NEW ns, IsSequence(ns), NEW p \in Point, \A i \in 1 .. Len(ns) : CanLower(ns[i], p.scopes)
  PROVE  Runs(Each(ns), p, More(p, Len(ns)))
<1> DEFINE h == [i \in 1 .. Len(ns) + 1 |-> More(p, i - 1)]
           n == Len(ns)
           ts == Each(ns)
<1>1. n \in Nat /\ p.height \in Nat /\ p.scopes \in Nat /\ p.loops \in Nat /\ p.body \in BOOLEAN
  BY SequenceElim DEF Point
<1>2. Len(ts) = n /\ \A i \in 1 .. n : ts[i] = Lower(ns[i])
  BY EachIs
<1> HIDE DEF n, ts
<1>3. \A i \in 1 .. n + 1 : h[i] = Pt(p.height + (i - 1), p.scopes, p.loops, p.body)
  BY DEF More, At, n
<1>4. h \in [1 .. n + 1 -> Point] /\ h[1] = p /\ h[n + 1] = More(p, n)
  <2>1. \A i \in 1 .. n + 1 : p.height + (i - 1) \in Nat
    BY <1>1
  <2>2. \A i \in 1 .. n + 1 : More(p, i - 1) \in Point
    BY <1>1, <2>1, PtIs DEF More, At
  <2>3. p.height + (1 - 1) = p.height /\ (n + 1) - 1 = n /\ 1 \in 1 .. n + 1 /\ n + 1 \in 1 .. n + 1
    BY <1>1
  <2>4. h[1] = p
    <3> HIDE DEF h
    <3>1. h[1] = Pt(p.height + (1 - 1), p.scopes, p.loops, p.body) /\ p.height + (1 - 1) = p.height
      BY <1>1, <1>3, <2>3
    <3>2. p = Pt(p.height, p.scopes, p.loops, p.body)
      BY PointIs
    <3> QED
      BY <3>1, <3>2
  <2> QED
    BY <2>2, <2>3, <2>4 DEF n
<1> HIDE DEF h
<1>5. ASSUME NEW i \in 1 .. n
      PROVE  Effect(ts[i], h[i], h[i + 1])
  <2> DEFINE a == h[i]
             b == h[i + 1]
  <2>1. /\ i \in 1 .. n + 1 /\ i + 1 \in 1 .. n + 1
        /\ p.height + ((i + 1) - 1) = p.height + (i - 1) + 1
    BY <1>1
  <2>2. a = Pt(p.height + (i - 1), p.scopes, p.loops, p.body)
        /\ b = Pt(p.height + (i - 1) + 1, p.scopes, p.loops, p.body)
    BY <1>3, <2>1
  <2> HIDE DEF a, b
  <2>3. b = More(a, 1) /\ a.scopes = p.scopes
    BY <2>2 DEF More, At, Pt
  <2>4. CanLower(ns[i], a.scopes)
    BY <2>3 DEF n
  <2> QED
    BY <1>2, <2>3, <2>4, EffectOfTask DEF a, b
<1> QED
  BY <1>2, <1>4, <1>5 DEF Runs, n, ts

-----------------------------------------------------------------------------
(* Jobs.                                                                      *)

NewTask(n, t) == TaskOK(n, t) /\ t.do \notin {"declare_item", "lower_item"}

LEMMA JobIs ==
  ASSUME NEW n, NEW ts, NEW p, NEW q
  PROVE  Job(n, ts, p, q) <=>
           IsSequence(ts) /\ (\A i \in 1 .. Len(ts) : NewTask(n, ts[i])) /\ Runs(ts, p, q)
BY DEF Job, NewTask

LEMMA JobNothing ==
  ASSUME NEW n, NEW p \in Point
  PROVE  Job(n, <<>>, p, p)
<1>1. IsSequence(<<>>) /\ Len(<<>>) = 0
  BY SequenceEmpty
<1> QED
  BY <1>1, RunsNothing, JobIs

LEMMA JobOne ==
  ASSUME NEW n, NEW t, NewTask(n, t), NEW p \in Point, NEW q \in Point, Effect(t, p, q)
  PROVE  Job(n, <<t>>, p, q)
<1> DEFINE ts == <<t>>
<1>1. IsSequence(ts) /\ Len(ts) = 1 /\ ts[1] = t
  BY SequenceOne
<1>2. Runs(ts, p, q)
  BY RunsOne
<1> HIDE DEF ts
<1>3. \A i \in 1 .. Len(ts) : NewTask(n, ts[i])
  BY <1>1
<1> QED
  BY <1>1, <1>2, <1>3, JobIs DEF ts

LEMMA JobConcat ==
  ASSUME NEW n, NEW s, NEW t, NEW p, NEW q, NEW r, Job(n, s, p, q), Job(n, t, q, r)
  PROVE  Job(n, s \o t, p, r)
<1>1. /\ IsSequence(s) /\ (\A i \in 1 .. Len(s) : NewTask(n, s[i])) /\ Runs(s, p, q)
      /\ IsSequence(t) /\ (\A i \in 1 .. Len(t) : NewTask(n, t[i])) /\ Runs(t, q, r)
  BY JobIs
<1> DEFINE u == s \o t
<1>2. /\ IsSequence(u) /\ Len(u) = Len(s) + Len(t)
      /\ \A i \in 1 .. Len(s) : u[i] = s[i]
      /\ \A i \in 1 .. Len(t) : u[Len(s) + i] = t[i]
  BY <1>1, SequenceConcat
<1>3. Runs(u, p, r)
  BY <1>1, RunsConcat
<1>4. Len(s) \in Nat /\ Len(t) \in Nat
  BY <1>1, SequenceElim
<1> HIDE DEF u
<1>5. ASSUME NEW i \in 1 .. Len(u)
      PROVE  NewTask(n, u[i])
  <2>1. i \in 1 .. Len(s) \/ (i - Len(s) \in 1 .. Len(t) /\ Len(s) + (i - Len(s)) = i)
    BY <1>2, <1>4
  <2> QED
    BY <1>1, <1>2, <2>1
<1> QED
  BY <1>2, <1>3, <1>5, JobIs DEF u

LEMMA JobTwo ==
  ASSUME NEW n, NEW t, NEW u, NewTask(n, t), NewTask(n, u),
         NEW p \in Point, NEW q \in Point, NEW r \in Point, Effect(t, p, q), Effect(u, q, r)
  PROVE  Job(n, <<t, u>>, p, r)
<1>1. Job(n, <<t>>, p, q) /\ Job(n, <<u>>, q, r)
  BY JobOne
<1>2. Job(n, <<t>> \o <<u>>, p, r)
  BY <1>1, JobConcat
<1> QED
  BY <1>2, ConcatOnes

LEMMA JobThree ==
  ASSUME NEW n, NEW t, NEW u, NEW v, NewTask(n, t), NewTask(n, u), NewTask(n, v),
         NEW p \in Point, NEW q \in Point, NEW r \in Point, NEW s \in Point,
         Effect(t, p, q), Effect(u, q, r), Effect(v, r, s)
  PROVE  Job(n, <<t, u, v>>, p, s)
<1>1. Job(n, <<t, u>>, p, r) /\ Job(n, <<v>>, r, s)
  BY JobOne, JobTwo
<1>2. Job(n, <<t, u>> \o <<v>>, p, s)
  BY <1>1, JobConcat
<1> QED
  BY <1>2, ConcatThree

-----------------------------------------------------------------------------
(* The syntax tree, and the tasks its nodes give.                             *)

LEMMA ExprIs ==
  ASSUME NEW e \in AstExpr
  PROVE  IsExpr(e) /\ IsSequence(e.args) /\ \A i \in 1 .. Len(e.args) : e.args[i] \in AstExpr
<1>1. e \in Ast /\ e.k \in ExprKinds
  BY DEF AstExpr
<1>2. /\ e.k \notin {"block", "unsafe", "expr", "decl", "var", "return", "if", "while", "do", "for"}
      /\ e.k \notin {"break", "continue", "empty"}
  BY <1>1 DEF ExprKinds, Arity
<1>3. ~IsStmt(e)
  BY <1>2 DEF IsStmt
<1>4. IsExpr(e)
  BY <1>1, <1>3, AstAssumption
<1>5. e.args \in Seq(AstExpr)
  BY <1>4 DEF IsExpr
<1>6. IsSequence(e.args)
  BY <1>5, SequenceIntro
<1>7. \A i \in 1 .. Len(e.args) : e.args[i] \in AstExpr
  <2> HIDE DEF AstExpr
  <2> QED
    BY <1>5, ElementOfSeq
<1> QED
  BY <1>4, <1>6, <1>7

LEMMA StmtIs ==
  ASSUME NEW s \in AstStmt
  PROVE  IsStmt(s)
<1>1. s \in Ast /\ s.k \notin ExprKinds
  BY DEF AstStmt
<1>2. ~IsExpr(s)
  BY <1>1 DEF IsExpr, ExprKinds
<1> QED
  BY <1>1, <1>2, AstAssumption

LEMMA MadeKindIs == MadeKinds = {"expr", "decl", "block", "unsafe", "if", "while", "do", "for",
                                 "return", "int_lit", "float_lit", "char_lit", "string_lit",
                                 "sizeof", "cast", "unary", "postfix", "binary", "index", "assign",
                                 "ternary", "call", "comma"}
BY DEF MadeKinds, ExprKinds, Arity

LEMMA NewTasks ==
  ASSUME NEW n, NEW x
  PROVE  /\ NewTask(n, Lower(x))
         /\ \A t \in {EnterScope, LeaveScope, EnterLoop, LeaveLoop, CheckScalar, CheckLvalue,
                      DecayValue, Convert(x)} : NewTask(n, t)
         /\ x \in AstExpr /\ x.k = "call" => NewTask(n, CallArgs(x))
         /\ IsSequence(x.args) => NewTask(n, DeclareLocal(x))
         /\ /\ IsSequence(x.args) /\ x.k \in MadeKinds
            /\ x.k = "unary" => x.what \in UnaryOps
            => NewTask(n, Make(x))
<1>1. NewTask(n, Lower(x))
  BY DEF NewTask, TaskOK, Lower
<1>2. NewTask(n, EnterScope) /\ NewTask(n, LeaveScope)
  BY DEF NewTask, TaskOK, EnterScope, LeaveScope
<1>3. NewTask(n, EnterLoop) /\ NewTask(n, LeaveLoop)
  BY DEF NewTask, TaskOK, EnterLoop, LeaveLoop
<1>4. NewTask(n, CheckScalar) /\ NewTask(n, CheckLvalue) /\ NewTask(n, DecayValue)
  BY DEF NewTask, TaskOK, CheckScalar, CheckLvalue, DecayValue
<1>5. NewTask(n, Convert(x)) /\ (x \in AstExpr /\ x.k = "call" => NewTask(n, CallArgs(x)))
  BY DEF NewTask, TaskOK, Convert, CallArgs
<1>6. IsSequence(x.args) => NewTask(n, DeclareLocal(x))
  BY DEF NewTask, TaskOK, DeclareLocal
<1>7. /\ IsSequence(x.args) /\ x.k \in MadeKinds
      /\ x.k = "unary" => x.what \in UnaryOps
      => NewTask(n, Make(x))
  BY DEF NewTask, TaskOK, Make
<1> QED
  BY <1>1, <1>2, <1>3, <1>4, <1>5, <1>6, <1>7

LEMMA EachJob ==
  ASSUME NEW n, NEW ns, IsSequence(ns), NEW p \in Point,
         \A i \in 1 .. Len(ns) : CanLower(ns[i], p.scopes)
  PROVE  Job(n, Each(ns), p, More(p, Len(ns))) /\ More(p, Len(ns)) \in Point
<1> DEFINE ts == Each(ns)
<1>1. IsSequence(ts) /\ Len(ts) = Len(ns) /\ \A i \in 1 .. Len(ns) : ts[i] = Lower(ns[i])
  BY EachIs
<1>2. Runs(ts, p, More(p, Len(ns)))
  BY RunsEach
<1> HIDE DEF ts
<1>3. \A i \in 1 .. Len(ts) : NewTask(n, ts[i])
  BY <1>1, NewTasks
<1>4. Len(ns) \in Nat /\ p.height \in Nat
  BY SequenceElim, PointIs
<1>5. p.height + Len(ns) \in Nat
  BY <1>4
<1>6. More(p, Len(ns)) \in Point
  BY <1>5, PointIs DEF More
<1> QED
  BY <1>1, <1>2, <1>3, <1>6, JobIs DEF ts

LEMMA MorePoint ==
  ASSUME NEW p \in Point, NEW a \in Nat
  PROVE  /\ More(p, a) \in Point /\ More(p, a).height = p.height + a
         /\ More(p, a).scopes = p.scopes /\ More(p, a).loops = p.loops /\ More(p, a).body = p.body
         /\ More(p, 0) = p
         /\ \A b \in Nat : More(More(p, a), b) = More(p, a + b)
<1>1. p.height \in Nat /\ p.height + a \in Nat /\ p.height + 0 = p.height
  BY PointIs
<1>2. /\ More(p, a) \in Point /\ More(p, a).height = p.height + a
      /\ More(p, a).scopes = p.scopes /\ More(p, a).loops = p.loops /\ More(p, a).body = p.body
  BY <1>1, PointIs DEF More
<1>3. More(p, 0) = p
  BY <1>1, PointIs DEF More, At
<1>4. ASSUME NEW b \in Nat
      PROVE  More(More(p, a), b) = More(p, a + b)
  <2>1. (p.height + a) + b = p.height + (a + b)
    BY <1>1
  <2> QED
    BY <1>2, <2>1 DEF More, At
<1> QED
  BY <1>2, <1>3, <1>4

\* A node that is made of its parts' values is one value.
LEMMA MakeJob ==
  ASSUME NEW n, NEW x, NewTask(n, Make(x)), Len(x.args) \in Nat, NEW ts, NEW p \in Point,
         Job(n, ts, p, More(p, Len(x.args)))
  PROVE  Job(n, ts \o <<Make(x)>>, p, More(p, 1))
<1> DEFINE k == Len(x.args)
           q == More(p, k)
           r == More(p, 1)
<1>1. k \in Nat /\ p.height \in Nat
  BY PointIs
<1>2. q \in Point /\ r \in Point /\ q.height = p.height + k /\ q.scopes = p.scopes
      /\ q.loops = p.loops /\ q.body = p.body
  BY <1>1, MorePoint
<1>3. r = At(q, q.height - k + 1) /\ k <= q.height
  <2>1. q.height - k + 1 = p.height + 1 /\ k <= q.height
    BY <1>1, <1>2
  <2> HIDE DEF q
  <2> QED
    BY <1>2, <2>1 DEF More, At
<1>4. Effect(Make(x), q, r)
  BY <1>3, EffectOfTask
<1>5. Job(n, <<Make(x)>>, q, r)
  <2> HIDE DEF q, r
  <2> QED
    BY <1>2, <1>4, JobOne
<1> QED
  BY <1>5, JobConcat

LEMMA CondJob ==
  ASSUME NEW n, NEW e, e \in AstExpr, NEW p \in Point
  PROVE  Job(n, Cond(e), p, More(p, 1))
<1> DEFINE q == More(p, 1)
<1>1. q \in Point /\ q.height = p.height + 1 /\ p.height \in Nat
  BY MorePoint, PointIs
<1>2. Effect(Lower(e), p, q)
  BY EffectOfTask DEF CanLower
<1>3. Effect(CheckScalar, q, q)
  <2>1. q.height >= 1
    BY <1>1
  <2> HIDE DEF q
  <2> QED
    BY <2>1, EffectOfTask
<1>4. NewTask(n, Lower(e)) /\ NewTask(n, CheckScalar)
  BY NewTasks
<1> HIDE DEF q
<1>5. Job(n, <<Lower(e), CheckScalar>>, p, q)
  BY <1>1, <1>2, <1>3, <1>4, JobTwo
<1> QED
  BY <1>5 DEF Cond, q

LEMMA LowerJob ==
  ASSUME NEW n, NEW e, NEW p \in Point, CanLower(e, p.scopes)
  PROVE  Job(n, <<Lower(e)>>, p, More(p, 1))
<1> DEFINE q == More(p, 1)
<1>1. q \in Point
  BY MorePoint
<1>2. Effect(Lower(e), p, q)
  BY EffectOfTask
<1> HIDE DEF q
<1>3. Job(n, <<Lower(e)>>, p, q)
  BY <1>1, <1>2, NewTasks, JobOne
<1> QED
  BY <1>3 DEF q

LEMMA OptionalCondJob ==
  ASSUME NEW n, NEW e \in AstExpr \cup {EmptyNode}, NEW p \in Point
  PROVE  Job(n, OptionalCond(e), p, More(p, 1))
<1>1. CASE e = EmptyNode
  BY <1>1, LowerJob DEF OptionalCond, CanLower
<1>2. CASE e # EmptyNode
  BY <1>2, CondJob DEF OptionalCond
<1> QED
  BY <1>1, <1>2

LEMMA LoopingJob ==
  ASSUME NEW n, NEW s \in AstStmt, NEW p \in Point, p.scopes >= 2
  PROVE  Job(n, Looping(s), p, More(p, 1))
<1> DEFINE q == Pt(p.height, p.scopes, p.loops + 1, p.body)
           r == Pt(p.height + 1, p.scopes, p.loops + 1, p.body)
           o == More(p, 1)
<1>1. p.height \in Nat /\ p.scopes \in Nat /\ p.loops \in Nat /\ p.body \in BOOLEAN
  BY PointIs
<1>2. q \in Point /\ r \in Point /\ o \in Point
  <2>1. p.loops + 1 \in Nat /\ p.height + 1 \in Nat
    BY <1>1
  <2> QED
    BY <1>1, <2>1, PtIs, MorePoint
<1>3. q.height = p.height /\ q.scopes = p.scopes /\ q.loops = p.loops + 1 /\ q.body = p.body
  BY DEF Pt
<1>4. r.height = p.height + 1 /\ r.scopes = p.scopes /\ r.loops = p.loops + 1 /\ r.body = p.body
  BY DEF Pt
<1>5. r = More(q, 1) /\ o = Pt(r.height, r.scopes, r.loops - 1, r.body)
  <2>1. r.loops - 1 = p.loops
    BY <1>1, <1>4
  <2> QED
    BY <1>3, <1>4, <2>1 DEF More, At
<1>6. Effect(EnterLoop, p, q)
  BY EffectOfTask
<1>7. r.loops >= 1
  BY <1>1, <1>4
<1> HIDE DEF q, r, o
<1>8. Effect(Lower(s), q, r) /\ Effect(LeaveLoop, r, o)
  BY <1>3, <1>5, <1>7, EffectOfTask DEF CanLower
<1>9. NewTask(n, EnterLoop) /\ NewTask(n, Lower(s)) /\ NewTask(n, LeaveLoop)
  BY NewTasks
<1>10. Job(n, <<EnterLoop, Lower(s), LeaveLoop>>, p, o)
  BY <1>2, <1>6, <1>8, <1>9, JobThree
<1> QED
  BY <1>10 DEF Looping, o

-----------------------------------------------------------------------------
(* The methods of the TypeChecker.                                            *)

LEMMA TcFields ==
  ASSUME NEW m, TcOK(m)
  PROVE  /\ \A d : [m EXCEPT !.diagnostics = d] =
              [symbols |-> m.symbols, scopes |-> m.scopes, diagnostics |-> d,
               current_return_type |-> m.current_return_type, loop_depth |-> m.loop_depth]
         /\ \A d : [m EXCEPT !.scopes = d] =
              [symbols |-> m.symbols, scopes |-> d, diagnostics |-> m.diagnostics,
               current_return_type |-> m.current_return_type, loop_depth |-> m.loop_depth]
         /\ \A d : [m EXCEPT !.symbols = d] =
              [symbols |-> d, scopes |-> m.scopes, diagnostics |-> m.diagnostics,
               current_return_type |-> m.current_return_type, loop_depth |-> m.loop_depth]
         /\ \A d : [m EXCEPT !.current_return_type = d] =
              [symbols |-> m.symbols, scopes |-> m.scopes, diagnostics |-> m.diagnostics,
               current_return_type |-> d, loop_depth |-> m.loop_depth]
         /\ \A d : [m EXCEPT !.loop_depth = d] =
              [symbols |-> m.symbols, scopes |-> m.scopes, diagnostics |-> m.diagnostics,
               current_return_type |-> m.current_return_type, loop_depth |-> d]
<1>1. m = [symbols |-> m.symbols, scopes |-> m.scopes, diagnostics |-> m.diagnostics,
           current_return_type |-> m.current_return_type, loop_depth |-> m.loop_depth]
  BY DEF TcOK
<1> DEFINE a == m.symbols
           b == m.scopes
           c == m.diagnostics
           e == m.current_return_type
           g == m.loop_depth
<1> HIDE DEF a, b, c, e, g
<1>2. m = [symbols |-> a, scopes |-> b, diagnostics |-> c, current_return_type |-> e, loop_depth |-> g]
  BY <1>1 DEF a, b, c, e, g
<1> SUFFICES ASSUME NEW d
             PROVE  /\ [m EXCEPT !.diagnostics = d] =
                         [symbols |-> a, scopes |-> b, diagnostics |-> d, current_return_type |-> e, loop_depth |-> g]
                    /\ [m EXCEPT !.scopes = d] =
                         [symbols |-> a, scopes |-> d, diagnostics |-> c, current_return_type |-> e, loop_depth |-> g]
                    /\ [m EXCEPT !.symbols = d] =
                         [symbols |-> d, scopes |-> b, diagnostics |-> c, current_return_type |-> e, loop_depth |-> g]
                    /\ [m EXCEPT !.current_return_type = d] =
                         [symbols |-> a, scopes |-> b, diagnostics |-> c, current_return_type |-> d, loop_depth |-> g]
                    /\ [m EXCEPT !.loop_depth = d] =
                         [symbols |-> a, scopes |-> b, diagnostics |-> c, current_return_type |-> e, loop_depth |-> d]
  BY DEF a, b, c, e, g
<1> QED
  BY <1>2

LEMMA TcElim ==
  ASSUME NEW m, TcOK(m)
  PROVE  /\ IsSequence(m.symbols) /\ IsSequence(m.scopes) /\ m.scopes # <<>>
         /\ Len(m.symbols) \in Nat /\ Len(m.scopes) \in Nat \ {0}
         /\ \A i \in 1 .. Len(m.scopes) : Range(m.scopes[i]) \subseteq 1 .. Len(m.symbols)
         /\ IsSequence(m.current_return_type) /\ Len(m.current_return_type) <= 1
BY SequenceElim, SequenceTail DEF TcOK

LEMMA TcIntro ==
  ASSUME NEW m, NEW a, NEW b, NEW c, NEW e, NEW g,
         m = [symbols |-> a, scopes |-> b, diagnostics |-> c, current_return_type |-> e, loop_depth |-> g],
         IsSequence(a), IsSequence(b), b # <<>>,
         \A i \in 1 .. Len(b) : Range(b[i]) \subseteq 1 .. Len(a),
         IsSequence(e), Len(e) <= 1
  PROVE  /\ TcOK(m)
         /\ m.symbols = a /\ m.scopes = b /\ m.diagnostics = c
         /\ m.current_return_type = e /\ m.loop_depth = g
<1>1. /\ m.symbols = a /\ m.scopes = b /\ m.diagnostics = c
      /\ m.current_return_type = e /\ m.loop_depth = g
  OBVIOUS
<1> QED
  BY <1>1 DEF TcOK

\* What does not touch the symbols, scopes and loops.
SameTc(m, n) ==
  /\ n.symbols = m.symbols /\ n.scopes = m.scopes
  /\ n.current_return_type = m.current_return_type /\ n.loop_depth = m.loop_depth

LEMMA ErrorKeeps ==
  ASSUME NEW m, TcOK(m), NEW codes
  PROVE  TcOK(Error(m, codes)) /\ SameTc(m, Error(m, codes))
<1> DEFINE n == Error(m, codes)
           d == m.diagnostics \o codes
<1>1. n = [m EXCEPT !.diagnostics = d]
  BY DEF Error
<1> HIDE DEF n, d
<1>2. n = [symbols |-> m.symbols, scopes |-> m.scopes, diagnostics |-> d,
           current_return_type |-> m.current_return_type, loop_depth |-> m.loop_depth]
  BY <1>1, TcFields
<1>3. TcOK(n) /\ SameTc(m, n)
  BY <1>2, TcElim, TcIntro DEF SameTc
<1> QED
  BY <1>3 DEF n

LEMMA LoopKeeps ==
  ASSUME NEW m, TcOK(m), NEW d
  PROVE  LET n == [m EXCEPT !.loop_depth = d]
         IN  /\ TcOK(n) /\ n.symbols = m.symbols /\ n.scopes = m.scopes
             /\ n.current_return_type = m.current_return_type /\ n.loop_depth = d
<1> DEFINE n == [m EXCEPT !.loop_depth = d]
<1>1. n = [symbols |-> m.symbols, scopes |-> m.scopes, diagnostics |-> m.diagnostics,
           current_return_type |-> m.current_return_type, loop_depth |-> d]
  BY TcFields
<1> HIDE DEF n
<1>2. /\ TcOK(n) /\ n.symbols = m.symbols /\ n.scopes = m.scopes
      /\ n.current_return_type = m.current_return_type /\ n.loop_depth = d
  BY <1>1, TcElim, TcIntro
<1> QED
  BY <1>2 DEF n

LEMMA ReturnTypeKeeps ==
  ASSUME NEW m, TcOK(m), NEW d, IsSequence(d), Len(d) <= 1
  PROVE  LET n == [m EXCEPT !.current_return_type = d]
         IN  /\ TcOK(n) /\ n.symbols = m.symbols /\ n.scopes = m.scopes
             /\ n.current_return_type = d /\ n.loop_depth = m.loop_depth
<1> DEFINE n == [m EXCEPT !.current_return_type = d]
<1>1. n = [symbols |-> m.symbols, scopes |-> m.scopes, diagnostics |-> m.diagnostics,
           current_return_type |-> d, loop_depth |-> m.loop_depth]
  BY TcFields
<1> HIDE DEF n
<1>2. /\ TcOK(n) /\ n.symbols = m.symbols /\ n.scopes = m.scopes
      /\ n.current_return_type = d /\ n.loop_depth = m.loop_depth
  BY <1>1, TcElim, TcIntro
<1> QED
  BY <1>2 DEF n

\* Other scopes over the same symbols.
LEMMA ScopesKeep ==
  ASSUME NEW m, TcOK(m), NEW d, IsSequence(d), d # <<>>,
         \A i \in 1 .. Len(d) : Range(d[i]) \subseteq 1 .. Len(m.symbols)
  PROVE  LET n == [m EXCEPT !.scopes = d]
         IN  /\ TcOK(n) /\ n.symbols = m.symbols /\ n.scopes = d
             /\ n.current_return_type = m.current_return_type /\ n.loop_depth = m.loop_depth
<1> DEFINE n == [m EXCEPT !.scopes = d]
<1>1. n = [symbols |-> m.symbols, scopes |-> d, diagnostics |-> m.diagnostics,
           current_return_type |-> m.current_return_type, loop_depth |-> m.loop_depth]
  BY TcFields
<1> HIDE DEF n
<1>2. /\ TcOK(n) /\ n.symbols = m.symbols /\ n.scopes = d
      /\ n.current_return_type = m.current_return_type /\ n.loop_depth = m.loop_depth
  BY <1>1, TcElim, TcIntro
<1> QED
  BY <1>2 DEF n

LEMMA PushKeeps ==
  ASSUME NEW m, TcOK(m)
  PROVE  LET n == PushScope(m)
         IN  /\ TcOK(n) /\ n.symbols = m.symbols /\ n.scopes[1] = m.scopes[1]
             /\ Len(n.scopes) = Len(m.scopes) + 1
             /\ n.current_return_type = m.current_return_type /\ n.loop_depth = m.loop_depth
<1> DEFINE n == PushScope(m)
           d == Append(m.scopes, NoNames)
<1>1. n = [m EXCEPT !.scopes = d]
  BY DEF PushScope
<1>2. IsSequence(m.scopes) /\ Len(m.scopes) \in Nat \ {0}
  BY TcElim
<1>3. /\ IsSequence(d) /\ Len(d) = Len(m.scopes) + 1 /\ d[Len(m.scopes) + 1] = NoNames
      /\ \A i \in 1 .. Len(m.scopes) : d[i] = m.scopes[i]
  <2>1. IsSequence(m.scopes)
    BY <1>2
  <2> HIDE DEF n
  <2> QED
    BY <2>1, SequenceAppend, ZenonT(40)
<1> HIDE DEF n, d
<1>4. d # <<>> /\ d[1] = m.scopes[1]
  BY <1>2, <1>3, SequenceElim
<1>5. Range(NoNames) = {}
  BY DEF Range, NoNames
<1>6. \A i \in 1 .. Len(d) : Range(d[i]) \subseteq 1 .. Len(m.symbols)
  <2>1. \A i \in 1 .. Len(d) : i \in 1 .. Len(m.scopes) \/ i = Len(m.scopes) + 1
    BY <1>2, <1>3
  <2> QED
    BY <2>1, <1>3, <1>5, TcElim
<1>7. /\ TcOK(n) /\ n.symbols = m.symbols /\ n.scopes = d
      /\ n.current_return_type = m.current_return_type /\ n.loop_depth = m.loop_depth
  BY <1>1, <1>3, <1>4, <1>6, ScopesKeep
<1> QED
  BY <1>3, <1>4, <1>7 DEF n

LEMMA PopKeeps ==
  ASSUME NEW m, TcOK(m), Len(m.scopes) >= 2
  PROVE  LET n == PopScope(m)
         IN  /\ TcOK(n) /\ n.symbols = m.symbols /\ n.scopes[1] = m.scopes[1]
             /\ Len(n.scopes) = Len(m.scopes) - 1
             /\ n.current_return_type = m.current_return_type /\ n.loop_depth = m.loop_depth
<1> DEFINE n == PopScope(m)
           d == Front(m.scopes)
<1>1. n = [m EXCEPT !.scopes = d]
  BY DEF PopScope
<1>2. IsSequence(m.scopes) /\ Len(m.scopes) \in Nat \ {0} /\ m.scopes # <<>>
  BY TcElim
<1>3. /\ IsSequence(d) /\ Len(d) = Len(m.scopes) - 1
      /\ \A i \in 1 .. Len(m.scopes) - 1 : d[i] = m.scopes[i]
  BY <1>2, SequenceFront
<1> HIDE DEF n, d
<1>4. d # <<>> /\ d[1] = m.scopes[1]
  BY <1>2, <1>3, SequenceElim
<1>6. \A i \in 1 .. Len(d) : Range(d[i]) \subseteq 1 .. Len(m.symbols)
  <2>1. \A i \in 1 .. Len(d) : i \in 1 .. Len(m.scopes) /\ i \in 1 .. Len(m.scopes) - 1
    BY <1>2, <1>3
  <2> QED
    BY <2>1, <1>3, TcElim
<1>7. /\ TcOK(n) /\ n.symbols = m.symbols /\ n.scopes = d
      /\ n.current_return_type = m.current_return_type /\ n.loop_depth = m.loop_depth
  BY <1>1, <1>3, <1>4, <1>6, ScopesKeep
<1> QED
  BY <1>3, <1>4, <1>7 DEF n

LEMMA DeclareKeeps ==
  ASSUME NEW m, TcOK(m), NEW name, NEW id \in 1 .. Len(m.symbols)
  PROVE  LET n == Declare(m, name, id)
         IN  /\ TcOK(n) /\ n.symbols = m.symbols /\ Len(n.scopes) = Len(m.scopes)
             /\ Len(m.scopes) >= 2 => n.scopes[1] = m.scopes[1]
             /\ Len(m.scopes) = 1 => DOMAIN n.scopes[1] = DOMAIN m.scopes[1] \cup {name}
             /\ n.current_return_type = m.current_return_type /\ n.loop_depth = m.loop_depth
<1> DEFINE n == Declare(m, name, id)
           top == Len(m.scopes)
           scope == m.scopes[top]
           bound == Bind(scope, name, id)
           d == [m.scopes EXCEPT ![top] = bound]
<1>1. IsSequence(m.scopes) /\ top \in Nat \ {0} /\ m.scopes = [i \in 1 .. top |-> m.scopes[i]]
  BY TcElim, SequenceElim
<1>2. CASE name \in DOMAIN scope
  <2>1. n = Error(m, <<"E0402">>)
    BY <1>2 DEF Declare
  <2> HIDE DEF n
  <2>2. TcOK(n) /\ SameTc(m, n)
    BY <2>1, ErrorKeeps
  <2>3. top = 1 => DOMAIN m.scopes[1] = DOMAIN m.scopes[1] \cup {name}
    BY <1>2
  <2> QED
    BY <2>2, <2>3 DEF SameTc, n
<1>3. CASE name \notin DOMAIN scope
  <2>1. n = [m EXCEPT !.scopes[top] = bound]
    BY <1>3 DEF Declare
  <2>2. n = [m EXCEPT !.scopes = d]
    BY <2>1
  <2>3. DOMAIN bound = DOMAIN scope \cup {name} /\ Range(bound) \subseteq Range(scope) \cup {id}
    BY DEF Bind, Range
  <2>4. Range(scope) \subseteq 1 .. Len(m.symbols)
    BY <1>1, TcElim
  <2> HIDE DEF n, bound
  <2>5. /\ d = [i \in 1 .. top |-> d[i]] /\ d[top] = bound
        /\ \A i \in 1 .. top : i # top => d[i] = m.scopes[i]
    BY <1>1
  <2>6. IsSequence(d) /\ Len(d) = top
    <3> HIDE DEF d
    <3> QED
      BY <1>1, <2>5, SequenceByIndex
  <2>7. \A i \in 1 .. Len(d) : Range(d[i]) \subseteq 1 .. Len(m.symbols)
    <3> HIDE DEF d
    <3>1. Range(bound) \subseteq 1 .. Len(m.symbols)
      BY <2>3, <2>4
    <3> QED
      BY <2>5, <2>6, <3>1, TcElim
  <2>8. d # <<>>
    BY <1>1, <2>6, SequenceElim
  <2> HIDE DEF d
  <2>9. /\ TcOK(n) /\ n.symbols = m.symbols /\ n.scopes = d
        /\ n.current_return_type = m.current_return_type /\ n.loop_depth = m.loop_depth
    BY <2>2, <2>6, <2>7, <2>8, ScopesKeep
  <2>10. top >= 2 => d[1] = m.scopes[1]
    <3> HIDE DEF top
    <3>1. top >= 2 => 1 \in 1 .. top /\ 1 # top
      BY <1>1
    <3> QED
      BY <2>5, <3>1
  <2>11. top = 1 => DOMAIN d[1] = DOMAIN m.scopes[1] \cup {name}
    BY <2>3, <2>5
  <2> QED
    BY <2>6, <2>9, <2>10, <2>11 DEF n
<1> QED
  BY <1>2, <1>3

LEMMA InternKeeps ==
  ASSUME NEW m, TcOK(m), NEW name, NEW kind, NEW ty
  PROVE  LET n == Intern(m, name, kind, ty)
         IN  /\ TcOK(n) /\ Len(n.symbols) = Len(m.symbols) + 1 /\ n.scopes = m.scopes
             /\ n.current_return_type = m.current_return_type /\ n.loop_depth = m.loop_depth
<1> DEFINE n == Intern(m, name, kind, ty)
           x == [name |-> name, kind |-> kind, ty |-> ty]
           d == Append(m.symbols, x)
<1>1. n = [m EXCEPT !.symbols = d]
  BY DEF Intern
<1>2. /\ IsSequence(m.symbols) /\ Len(m.symbols) \in Nat /\ IsSequence(m.scopes) /\ m.scopes # <<>>
      /\ IsSequence(m.current_return_type) /\ Len(m.current_return_type) <= 1
  BY TcElim
<1> HIDE DEF x
<1>3. IsSequence(d) /\ Len(d) = Len(m.symbols) + 1
  BY <1>2, SequenceAppend
<1> HIDE DEF n, d
<1>4. n = [symbols |-> d, scopes |-> m.scopes, diagnostics |-> m.diagnostics,
           current_return_type |-> m.current_return_type, loop_depth |-> m.loop_depth]
  BY <1>1, TcFields
<1>5. \A i \in 1 .. Len(m.scopes) : Range(m.scopes[i]) \subseteq 1 .. Len(d)
  <2>1. 1 .. Len(m.symbols) \subseteq 1 .. Len(d)
    BY <1>2, <1>3
  <2> QED
    BY <2>1, TcElim
<1>6. /\ TcOK(n) /\ n.symbols = d /\ n.scopes = m.scopes
      /\ n.current_return_type = m.current_return_type /\ n.loop_depth = m.loop_depth
  BY <1>2, <1>3, <1>4, <1>5, TcIntro
<1> QED
  BY <1>3, <1>6 DEF n

LEMMA IntroduceKeeps ==
  ASSUME NEW m, TcOK(m), NEW name, NEW kind, NEW ty
  PROVE  LET n == Introduce(m, name, kind, ty)
         IN  /\ TcOK(n) /\ Len(n.symbols) = NextSymbol(m) /\ Len(n.scopes) = Len(m.scopes)
             /\ Len(m.scopes) >= 2 => n.scopes[1] = m.scopes[1]
             /\ Len(m.scopes) = 1 => DOMAIN n.scopes[1] = DOMAIN m.scopes[1] \cup {name}
             /\ n.current_return_type = m.current_return_type /\ n.loop_depth = m.loop_depth
<1> DEFINE i == Intern(m, name, kind, ty)
           id == NextSymbol(m)
           n == Introduce(m, name, kind, ty)
<1>1. n = Declare(i, name, id)
  BY DEF Introduce
<1>2. /\ TcOK(i) /\ Len(i.symbols) = Len(m.symbols) + 1 /\ i.scopes = m.scopes
      /\ i.current_return_type = m.current_return_type /\ i.loop_depth = m.loop_depth
  BY InternKeeps
<1>3. Len(m.symbols) \in Nat
  BY TcElim
<1>4. id \in 1 .. Len(i.symbols) /\ Len(i.symbols) = id
  BY <1>2, <1>3 DEF NextSymbol
<1> HIDE DEF n, i, id
<1>5. /\ TcOK(n) /\ n.symbols = i.symbols /\ Len(n.scopes) = Len(i.scopes)
      /\ Len(i.scopes) >= 2 => n.scopes[1] = i.scopes[1]
      /\ Len(i.scopes) = 1 => DOMAIN n.scopes[1] = DOMAIN i.scopes[1] \cup {name}
      /\ n.current_return_type = i.current_return_type /\ n.loop_depth = i.loop_depth
  BY <1>1, <1>2, <1>4, DeclareKeeps
<1>6. /\ TcOK(n) /\ Len(n.symbols) = id /\ Len(n.scopes) = Len(m.scopes)
      /\ Len(m.scopes) >= 2 => n.scopes[1] = m.scopes[1]
      /\ Len(m.scopes) = 1 => DOMAIN n.scopes[1] = DOMAIN m.scopes[1] \cup {name}
      /\ n.current_return_type = m.current_return_type /\ n.loop_depth = m.loop_depth
  BY <1>2, <1>4, <1>5
<1> QED
  BY <1>6 DEF n, id

\* A name is looked up to a symbol of the table.
LEMMA LookupIs ==
  ASSUME NEW m, TcOK(m), NEW name
  PROVE  \/ Lookup(m, name) = <<>> /\ \A i \in 1 .. Len(m.scopes) : name \notin DOMAIN m.scopes[i]
         \/ /\ \E id \in 1 .. Len(m.symbols) : Lookup(m, name) = <<id>>
            /\ \E i \in 1 .. Len(m.scopes) : name \in DOMAIN m.scopes[i]
<1> DEFINE holding == {s \in DOMAIN m.scopes : name \in DOMAIN m.scopes[s]}
<1>1. DOMAIN m.scopes = 1 .. Len(m.scopes) /\ Len(m.scopes) \in Nat
  BY TcElim, SequenceElim
<1>2. Lookup(m, name) = IF holding = {} THEN <<>> ELSE <<m.scopes[Max(holding)][name]>>
  BY DEF Lookup
<1>3. CASE holding = {}
  BY <1>1, <1>2, <1>3
<1>4. CASE holding # {}
  <2>1. holding \in SUBSET (0 .. Len(m.scopes))
    BY <1>1
  <2> DEFINE s == Max(holding)
  <2>2. s \in holding
    <3> HIDE DEF holding
    <3> QED
      BY <1>1, <1>4, <2>1, MaxIsGreatest
  <2> HIDE DEF s
  <2>3. s \in 1 .. Len(m.scopes) /\ name \in DOMAIN m.scopes[s]
    BY <1>1, <2>2
  <2>4. m.scopes[s][name] \in Range(m.scopes[s])
    BY <2>3 DEF Range
  <2>5. m.scopes[s][name] \in 1 .. Len(m.symbols)
    BY <2>3, <2>4, TcElim
  <2>6. Lookup(m, name) = <<m.scopes[s][name]>>
    BY <1>2, <1>4 DEF s
  <2> QED
    BY <2>3, <2>5, <2>6
<1> QED
  BY <1>3, <1>4

-----------------------------------------------------------------------------
(* Values: only refs and declarations name a symbol.                          *)

LEMMA ResultIs ==
  /\ \A x, errors : R(x, errors).x = x
  /\ \A k, what, args, ty : N(k, what, args, ty).k = k /\ N(k, what, args, ty).what = what
  /\ \A x, t : ImplicitCast(x, t).k = "implicit"
BY DEF R, N, ImplicitCast

LEMMA MakesNode ==
  ASSUME NEW k, NEW what, NEW args, NEW ty, NEW errors, NEW r, r = R(N(k, what, args, ty), errors)
  PROVE  r.x.k = k
BY DEF R, N

LEMMA ConvertedOK ==
  ASSUME NEW n, NEW x, ValueOK(n, x)
  PROVE  ValueOK(n, Decayed(x)) /\ \A t : ValueOK(n, ConvertTo(x, t).x)
<1> DEFINE d == Decayed(x)
<1>1. ValueOK(n, d)
  <2> DEFINE c == ImplicitCast(x, Pointer(x.ty.of[1], "raw"))
  <2>1. d = x \/ d = c
    BY DEF Decayed
  <2>2. c.k = "implicit"
    BY ResultIs, Zenon
  <2> HIDE DEF c, d
  <2> QED
    BY <2>1, <2>2 DEF ValueOK
<1> HIDE DEF d
<1>2. ASSUME NEW t
      PROVE  ValueOK(n, ConvertTo(x, t).x)
  <2> DEFINE c == ImplicitCast(d, t)
             y == ConvertTo(x, t).x
  <2>1. c.k = "implicit"
    BY ResultIs, Zenon
  <2> HIDE DEF c
  <2>2. y = d \/ y = c
    BY ResultIs DEF ConvertTo, c, d
  <2> QED
    BY <1>1, <2>1, <2>2 DEF ValueOK
<1> QED
  BY <1>1, <1>2 DEF d

LEMMA UnaryMakes ==
  ASSUME NEW op \in UnaryOps, NEW x
  PROVE  Unary(op, x).x.k = "unary"
<1> DEFINE d == Decayed(x)
<1>1. CASE op = "addr_of"
  BY <1>1, ResultIs DEF Unary
<1>2. CASE op \in {"pre_inc", "pre_dec"}
  BY <1>2, ResultIs DEF Unary
<1>3. CASE op = "deref"
  BY <1>3, ResultIs DEF Unary
<1>4. CASE op = "not"
  BY <1>4, ResultIs DEF Unary
<1>5. CASE op = "bit_not"
  BY <1>5, ResultIs DEF Unary
<1>6. CASE op \in {"plus", "neg"}
  BY <1>6, ResultIs DEF Unary
<1> QED
  BY <1>1, <1>2, <1>3, <1>4, <1>5, <1>6 DEF UnaryOps

LEMMA IndexMakes ==
  ASSUME NEW base, NEW index
  PROVE  Index(base, index).x.k = "index"
<1> DEFINE b == Decayed(base)
           i == Decayed(index)
           args == <<b, i>>
           ty == IF IsPointer(b.ty) THEN b.ty.of[1] ELSE ErrorType
           errors == ErrorIf(~IsPointer(b.ty) /\ ~IsError(b.ty), "E0405")
                       \o ErrorIf(~IsInteger(i.ty) /\ ~IsError(i.ty), "E0405")
           made == Index(base, index)
<1>1. made = R(N("index", "", args, ty), errors)
  BY DEF Index
<1> HIDE DEF made, args, ty, errors
<1>2. made.x.k = "index"
  BY <1>1 DEF R, N
<1> QED
  BY <1>2 DEF made

LEMMA TernaryMakes ==
  ASSUME NEW cond, NEW then, NEW else
  PROVE  Ternary(cond, then, else).x.k = "ternary"
<1> DEFINE t == Decayed(then)
           e == Decayed(else)
           common == UsualArithmetic(t.ty, e.ty)
           x == ConvertTo(t, common).x
           y == ConvertTo(e, common).x
           made == Ternary(cond, then, else)
<1>1. \/ made = R(N("ternary", "", <<cond, x, y>>, common), <<>>)
      \/ made = R(N("ternary", "", <<cond, t, e>>, t.ty), <<>>)
      \/ made = R(N("ternary", "", <<cond, t, e>>, ErrorType), <<>>)
      \/ made = R(N("ternary", "", <<cond, t, e>>, t.ty), <<"E0403">>)
  BY Zenon DEF Ternary
<1> HIDE DEF made, x, y, t, e, common
<1>2. made.x.k = "ternary"
  <2>1. CASE made = R(N("ternary", "", <<cond, x, y>>, common), <<>>)
    BY <2>1 DEF R, N
  <2>2. CASE made = R(N("ternary", "", <<cond, t, e>>, t.ty), <<>>)
    BY <2>2 DEF R, N
  <2>3. CASE made = R(N("ternary", "", <<cond, t, e>>, ErrorType), <<>>)
    BY <2>3 DEF R, N
  <2>4. CASE made = R(N("ternary", "", <<cond, t, e>>, t.ty), <<"E0403">>)
    BY <2>4 DEF R, N
  <2> QED
    BY <1>1, <2>1, <2>2, <2>3, <2>4, Zenon
<1> QED
  BY <1>2 DEF made

\* What is made of parts is never a ref or a declaration.
LEMMA MadeIs ==
  ASSUME NEW n, n.k \in MadeKinds, n.k = "unary" => n.what \in UnaryOps, NEW xs
  PROVE  Made(n, xs).x.k \notin {"ref", "fn", "var"}
<1> DEFINE k == n.k
           made == Made(n, xs)
<1>1. CASE k = "unary"
  <2>1. made = Unary(n.what, xs[1])
    BY <1>1 DEF Made
  <2>2. made.x.k = "unary"
    BY <1>1, <2>1, UnaryMakes
  <2> QED
    BY <2>2
<1>2. CASE k = "postfix"
  <2>1. made = Postfix(n.what, xs[1])
    BY <1>2 DEF Made
  <2>2. made.x.k = "postfix"
    BY <2>1, ResultIs DEF Postfix
  <2> QED
    BY <2>2
<1>3. CASE k = "binary"
  <2>1. made = Binary(n.what, xs[1], xs[2])
    BY <1>3 DEF Made
  <2>2. made.x.k = "binary"
    BY <2>1, ResultIs DEF Binary
  <2> QED
    BY <2>2
<1>4. CASE k = "index"
  <2>1. made = Index(xs[1], xs[2])
    BY <1>4 DEF Made
  <2>2. made.x.k = "index"
    BY <2>1, IndexMakes
  <2> QED
    BY <2>2
<1>5. CASE k = "assign"
  <2>1. made = Assign(n.what, xs[1], xs[2])
    BY <1>5 DEF Made
  <2>2. made.x.k = "assign"
    BY <2>1, ResultIs DEF Assign
  <2> QED
    BY <2>2
<1>6. CASE k = "ternary"
  <2>1. made = Ternary(xs[1], xs[2], xs[3])
    BY <1>6 DEF Made
  <2>2. made.x.k = "ternary"
    BY <2>1, TernaryMakes
  <2> QED
    BY <2>2
<1>7. CASE k \in {"cast", "sizeof", "comma", "call"}
  <2>1. CASE k = "cast"
    <3>1. made = R(N("cast", "", <<Decayed(xs[1])>>, LowerType(n.ty)), <<>>)
      BY <2>1 DEF Made
    <3> HIDE DEF made
    <3>2. made.x.k = "cast"
      BY <3>1 DEF R, N
    <3> QED
      BY <3>2 DEF made
  <2>2. CASE k = "sizeof"
    <3>1. made = R(N("sizeof", "", xs, T("ulong")), <<>>)
      BY <2>2 DEF Made
    <3> HIDE DEF made
    <3>2. made.x.k = "sizeof"
      BY <3>1 DEF R, N
    <3> QED
      BY <3>2 DEF made
  <2>3. CASE k = "comma"
    <3>1. made = R(N("comma", "", xs, Last(xs).ty), <<>>)
      BY <2>3 DEF Made
    <3> HIDE DEF made
    <3>2. made.x.k = "comma"
      BY <3>1 DEF R, N
    <3> QED
      BY <3>2 DEF made
  <2>4. CASE k = "call"
    <3>1. made = R(N("call", "", xs, Callable(xs[1].ty)[1].of[1]), <<>>)
      BY <2>4 DEF Made
    <3> HIDE DEF made
    <3>2. made.x.k = "call"
      BY <3>1 DEF R, N
    <3> QED
      BY <3>2 DEF made
  <2> QED
    BY <1>7, <2>1, <2>2, <2>3, <2>4
<1>8. CASE k = "unsafe"
  <2>1. made = R(N("block", "", xs, NoType), <<>>)
    BY <1>8 DEF Made
  <2> HIDE DEF made
  <2>2. made.x.k = "block"
    BY <2>1 DEF R, N
  <2> QED
    BY <2>2 DEF made
<1>9. CASE k \in {"expr", "decl", "block", "if", "while", "do", "for", "return",
                  "int_lit", "float_lit", "char_lit", "string_lit"}
  <2>1. made = R(N(n.k, n.what, xs, NoType), <<>>)
    BY <1>9 DEF Made
  <2>2. made.x.k = k
    BY <2>1, ResultIs
  <2> QED
    BY <1>9, <2>2
<1> QED
  BY <1>1, <1>2, <1>3, <1>4, <1>5, <1>6, <1>7, <1>8, <1>9, MadeKindIs

\* The top k values give way to x.
LEMMA Replaced ==
  ASSUME NEW n, NEW v, ValuesOK(n, v), NEW k \in Nat, k <= Len(v), NEW x, ValueOK(n, x)
  PROVE  LET w == Append(SubSeq(v, 1, Len(v) - k), x)
         IN  /\ ValuesOK(n, w) /\ Len(w) = Len(v) - k + 1
             /\ w[Len(v) - k + 1] = x
             /\ \A i \in 1 .. Len(v) - k : w[i] = v[i]
<1> DEFINE b == SubSeq(v, 1, Len(v) - k)
           w == Append(b, x)
           m == Len(v) - k
<1>1. IsSequence(v) /\ Len(v) \in Nat /\ \A i \in 1 .. Len(v) : ValueOK(n, v[i])
  BY SequenceElim DEF ValuesOK
<1>2. m \in Nat /\ 1 \in 1 .. Len(v) + 1 /\ m \in 1 - 1 .. Len(v) /\ m - 1 + 1 = m
      /\ \A i \in 1 .. m : 1 + i - 1 = i /\ i \in 1 .. Len(v)
  BY <1>1
<1> HIDE DEF m
<1>3. IsSequence(b) /\ Len(b) = m /\ \A i \in 1 .. m : b[i] = v[i]
  <2>1. b = SubSeq(v, 1, m)
    BY DEF m
  <2> HIDE DEF b
  <2>2. /\ IsSequence(b) /\ Len(b) = m - 1 + 1
        /\ \A i \in 1 .. m - 1 + 1 : b[i] = v[1 + i - 1]
    BY <1>1, <1>2, <2>1, SequenceSub
  <2> QED
    BY <1>2, <2>2
<1> HIDE DEF b
<1>4. IsSequence(w) /\ Len(w) = m + 1 /\ w[m + 1] = x /\ \A i \in 1 .. m : w[i] = b[i]
  BY <1>3, SequenceAppend
<1> HIDE DEF w
<1>5. \A i \in 1 .. Len(w) : ValueOK(n, w[i])
  <2>1. \A i \in 1 .. Len(w) : i \in 1 .. m \/ i = m + 1
    BY <1>2, <1>4
  <2> HIDE DEF m
  <2> QED
    BY <1>1, <1>2, <1>3, <1>4, <2>1
<1>6. ValuesOK(n, w)
  BY <1>4, <1>5 DEF ValuesOK
<1> QED
  BY <1>3, <1>4, <1>6 DEF w, b, m

LEMMA TopIs ==
  ASSUME NEW n, NEW v, ValuesOK(n, v), Len(v) >= 1
  PROVE  Last(v) = v[Len(v)] /\ ValueOK(n, Last(v)) /\ Len(v) \in Nat \ {0}
<1>1. IsSequence(v) /\ Len(v) \in Nat /\ \A i \in 1 .. Len(v) : ValueOK(n, v[i])
  BY SequenceElim DEF ValuesOK
<1>2. v # <<>>
  BY <1>1, SequenceElim
<1>3. Last(v) = v[Len(v)]
  BY <1>1, <1>2, SequenceFront
<1> QED
  BY <1>1, <1>3

\* Symbols are never taken back.
LEMMA StillOK ==
  ASSUME NEW m \in Nat, NEW n \in Nat, m <= n
  PROVE  /\ \A x : ValueOK(m, x) => ValueOK(n, x)
         /\ \A v : ValuesOK(m, v) => ValuesOK(n, v)
         /\ \A t : TaskOK(m, t) => TaskOK(n, t)
<1>1. 1 .. m \subseteq 1 .. n
  OBVIOUS
<1>2. \A x : ValueOK(m, x) => ValueOK(n, x)
  BY <1>1 DEF ValueOK
<1>3. \A v : ValuesOK(m, v) => ValuesOK(n, v)
  BY <1>2 DEF ValuesOK
<1>4. ASSUME NEW t, TaskOK(m, t) PROVE TaskOK(n, t)
  <2>1. CASE t.do \in {"end_fn", "end_global"}
    BY <1>1, <1>4, <2>1 DEF TaskOK
  <2>2. CASE t.do \notin {"end_fn", "end_global"}
    BY <1>4, <2>2 DEF TaskOK
  <2> QED
    BY <2>1, <2>2
<1> QED
  BY <1>2, <1>3, <1>4

-----------------------------------------------------------------------------
(* Steps.                                                                     *)

LEMMA Now ==
  ASSUME Inv, todo # <<>>
  PROVE  /\ \E p, q \in Point :
              Stands(tc, vals, p) /\ Effect(Task, p, q) /\ Runs(Tail(todo), q, Rest)
         /\ TaskOK(Len(tc.symbols), Task)
         /\ IsSequence(todo) /\ IsSequence(Tail(todo)) /\ Len(todo) \in Nat \ {0} /\ Task = todo[1]
<1>1. IsSequence(todo) /\ \A i \in 1 .. Len(todo) : TaskOK(Len(tc.symbols), todo[i])
  BY DEF Inv
<1>2. IsSequence(Tail(todo)) /\ Len(todo) \in Nat \ {0} /\ Task = todo[1]
  BY <1>1, SequenceTail DEF Task
<1>3. PICK p \in Point : Stands(tc, vals, p) /\ Runs(todo, p, Rest)
  BY DEF Inv
<1>4. \E q \in Point : Effect(Task, p, q) /\ Runs(Tail(todo), q, Rest)
  BY <1>1, <1>3, RunsHead DEF Task
<1>5. TaskOK(Len(tc.symbols), Task)
  BY <1>1, <1>2
<1> QED
  BY <1>1, <1>2, <1>3, <1>4, <1>5

\* Once an item has been lowered none is left to declare.
LEMMA NoneToDeclare ==
  ASSUME Inv, todo # <<>>, Task.do # "declare_item"
  PROVE  /\ \A i \in 1 .. Len(todo) : todo[i].do # "declare_item"
         /\ DOMAIN tc.scopes[1] = Names
<1>1. Len(todo) \in Nat \ {0} /\ Task = todo[1]
  BY Now
<1>2. /\ \A j \in ToDeclare(todo) : \A i \in 1 .. j : i \in ToDeclare(todo)
      /\ DOMAIN tc.scopes[1] \cup {todo[i].n.what : i \in ToDeclare(todo)} = Names
  BY DEF Inv, FirstPass
<1>3. 1 \notin ToDeclare(todo)
  BY <1>1 DEF ToDeclare
<1>4. ASSUME NEW j \in ToDeclare(todo) PROVE FALSE
  <2>1. 1 \in 1 .. j
    BY <1>1 DEF ToDeclare
  <2> QED
    BY <1>2, <1>3, <2>1
<1>5. ToDeclare(todo) = {}
  BY <1>4
<1>6. {todo[i].n.what : i \in ToDeclare(todo)} = {}
  BY <1>5
<1>7. DOMAIN tc.scopes[1] = Names
  BY <1>2, <1>6
<1>8. \A i \in 1 .. Len(todo) : todo[i].do # "declare_item"
  BY <1>5 DEF ToDeclare
<1> QED
  BY <1>7, <1>8

(***************************************************************************)
(* A task of the second pass gives way to tasks that lead on to where it   *)
(* would have led.                                                         *)
(***************************************************************************)
LEMMA Advance ==
  ASSUME Inv, todo # <<>>, Task.do # "declare_item", module' = module,
         NEW ts, Then(ts), NEW r \in Point, NEW q, Runs(Tail(todo), q, Rest),
         TcOK(tc'), Job(Len(tc'.symbols), ts, r, q), Len(tc.symbols) <= Len(tc'.symbols),
         DOMAIN tc'.scopes[1] = DOMAIN tc.scopes[1],
         ValuesOK(Len(tc'.symbols), vals'), Stands(tc', vals', r)
  PROVE  Inv'
<1> DEFINE rest == Tail(todo)
           n == Len(tc'.symbols)
           next == ts \o rest
<1>1. /\ IsSequence(todo) /\ IsSequence(rest) /\ Len(todo) \in Nat \ {0}
      /\ Len(rest) = Len(todo) - 1 /\ \A i \in 1 .. Len(todo) - 1 : rest[i] = todo[i + 1]
  BY Now, SequenceTail
<1>2. /\ IsSequence(ts) /\ Len(ts) \in Nat /\ \A i \in 1 .. Len(ts) : NewTask(n, ts[i])
      /\ Runs(ts, r, q)
  BY JobIs, SequenceElim
<1>3. \A i \in 1 .. Len(todo) : TaskOK(n, todo[i])
  <2>1. TcOK(tc)
    BY DEF Inv
  <2>2. Len(tc.symbols) \in Nat /\ n \in Nat
    BY <2>1, TcElim
  <2> HIDE DEF n
  <2>3. \A i \in 1 .. Len(todo) : TaskOK(Len(tc.symbols), todo[i])
    BY DEF Inv
  <2>4. Len(tc.symbols) <= n
    BY DEF n
  <2> QED
    BY <2>2, <2>3, <2>4, StillOK
<1>4. \A i \in 1 .. Len(todo) : todo[i].do = "lower_item" => todo[i].n.what \in Names
  BY DEF Inv, FirstPass
<1>5. /\ \A i \in 1 .. Len(todo) : todo[i].do # "declare_item"
      /\ DOMAIN tc.scopes[1] = Names
  BY NoneToDeclare
<1>6. todo' = next
  BY DEF Then
<1> HIDE DEF rest, n
<1>7. /\ IsSequence(next) /\ Len(next) = Len(ts) + Len(rest)
      /\ \A i \in 1 .. Len(ts) : next[i] = ts[i]
      /\ \A i \in 1 .. Len(rest) : next[Len(ts) + i] = rest[i]
  <2>1. IsSequence(ts) /\ IsSequence(rest)
    BY <1>1, <1>2
  <2> QED
    BY <2>1, SequenceConcat
<1>8. Runs(next, r, Rest)
  BY <1>1, <1>2, RunsConcat DEF rest
<1> HIDE DEF next
<1>9. ASSUME NEW i \in 1 .. Len(next)
      PROVE  /\ TaskOK(n, next[i]) /\ next[i].do # "declare_item"
             /\ next[i].do = "lower_item" => next[i].n.what \in Names
  <2>1. CASE i \in 1 .. Len(ts)
    BY <1>2, <1>7, <2>1 DEF NewTask
  <2>2. CASE i \notin 1 .. Len(ts)
    <3> DEFINE j == i - Len(ts)
    <3>1. j \in 1 .. Len(todo) - 1 /\ j \in 1 .. Len(rest) /\ i = Len(ts) + j /\ j + 1 \in 1 .. Len(todo)
      BY <1>1, <1>2, <1>7, <2>2
    <3> HIDE DEF j
    <3>2. next[i] = todo[j + 1]
      BY <1>1, <1>7, <3>1
    <3> QED
      BY <1>3, <1>4, <1>5, <3>1, <3>2
  <2> QED
    BY <2>1, <2>2
<1>10. FirstPass(tc', next)
  <2>1. ToDeclare(next) = {}
    BY <1>9 DEF ToDeclare
  <2>2. {next[i].n.what : i \in ToDeclare(next)} = {}
    BY <2>1
  <2>3. DOMAIN tc'.scopes[1] = Names
    BY <1>5
  <2> QED
    BY <1>9, <2>1, <2>2, <2>3 DEF FirstPass
<1>11. Names' = Names /\ module \in Modules
  BY DEF Names, Inv
<1>12. FirstPass(tc, todo)'
  BY <1>6, <1>10, <1>11 DEF FirstPass, ToDeclare
<1> QED
  BY <1>6, <1>7, <1>8, <1>9, <1>11, <1>12 DEF Inv, n

\* The tasks that a task calls for.
LEMMA Expanded ==
  ASSUME Inv, todo # <<>>, Task.do # "declare_item", NEW ts, Expand(ts),
         \A p, q \in Point :
           Stands(tc, vals, p) /\ Effect(Task, p, q) => Job(Len(tc.symbols), ts, p, q)
  PROVE  Inv'
<1>1. PICK p, q \in Point :
        Stands(tc, vals, p) /\ Effect(Task, p, q) /\ Runs(Tail(todo), q, Rest)
  BY Now
<1>2. Job(Len(tc.symbols), ts, p, q)
  BY <1>1
<1>3. tc' = tc /\ vals' = vals /\ module' = module /\ Then(ts)
  BY DEF Expand
<1>4. TcOK(tc) /\ ValuesOK(Len(tc.symbols), vals)
  BY DEF Inv
<1>5. Len(tc.symbols) <= Len(tc.symbols)
  BY <1>4, TcElim
<1> QED
  BY <1>1, <1>2, <1>3, <1>4, <1>5, Advance

\* The top values give way to one.
LEMMA Yielded ==
  ASSUME Inv, todo # <<>>, Task.do # "declare_item",
         NEW k \in Nat, NEW x, ValueOK(Len(tc.symbols), x), NEW errors, Yield(k, x, errors),
         \A p, q \in Point : Stands(tc, vals, p) /\ Effect(Task, p, q) =>
           /\ k <= p.height
           /\ \/ q = At(p, p.height - k + 1)
              \/ k = p.height /\ IsDeclaration(x) /\ q = At(p, 0)
  PROVE  Inv'
<1>1. PICK p, q \in Point :
        Stands(tc, vals, p) /\ Effect(Task, p, q) /\ Runs(Tail(todo), q, Rest)
  BY Now
<1> DEFINE n == Len(tc.symbols)
           w == Append(SubSeq(vals, 1, Len(vals) - k), x)
           m == Error(tc, errors)
<1>2. tc' = m /\ vals' = w /\ module' = module /\ Then(<<>>)
  BY DEF Yield, Below
<1>3. TcOK(tc) /\ ValuesOK(n, vals)
  BY DEF Inv
<1>4. TcOK(m) /\ SameTc(tc, m)
  BY <1>3, ErrorKeeps
<1>5. n \in Nat /\ Len(vals) \in Nat /\ p.height \in Nat
  BY <1>3, TcElim, SequenceElim, PointIs DEF ValuesOK
<1>6. /\ Len(tc.scopes) = p.scopes /\ tc.loop_depth = p.loops
      /\ tc.current_return_type # <<>> => p.body
      /\ p.height <= Len(vals) /\ \A i \in 1 .. Len(vals) - p.height : IsDeclaration(vals[i])
  BY <1>1 DEF Stands
<1>7. k <= p.height /\ k <= Len(vals)
  BY <1>1, <1>5, <1>6
<1> HIDE DEF m
<1>8. /\ ValuesOK(n, w) /\ Len(w) = Len(vals) - k + 1 /\ w[Len(vals) - k + 1] = x
      /\ \A i \in 1 .. Len(vals) - k : w[i] = vals[i]
  <2> HIDE DEF n
  <2>1. ValueOK(n, x)
    BY DEF n
  <2> QED
    BY <1>3, <1>7, <2>1, Replaced
<1> HIDE DEF w
<1>9. q.height <= Len(w) /\ \A i \in 1 .. Len(w) - q.height : IsDeclaration(w[i])
  <2>1. CASE q = At(p, p.height - k + 1)
    <3>1. q.height = p.height - k + 1
      BY <2>1 DEF At, Pt
    <3>2. /\ q.height <= Len(w) /\ Len(w) - q.height = Len(vals) - p.height
          /\ \A i \in 1 .. Len(vals) - p.height : i \in 1 .. Len(vals) - k
      <4> DEFINE a == p.height
                 b == Len(vals)
                 c == q.height
                 d == Len(w)
      <4>1. /\ a \in Nat /\ b \in Nat /\ a <= b /\ k <= a
            /\ c = a - k + 1 /\ d = b - k + 1
        BY <1>5, <1>6, <1>7, <1>8, <3>1
      <4> HIDE DEF a, b, c, d
      <4>2. c <= d /\ d - c = b - a /\ \A i \in 1 .. b - a : i \in 1 .. b - k
        BY <4>1
      <4> QED
        BY <4>2 DEF a, b, c, d
    <3> QED
      BY <1>6, <1>8, <3>2
  <2>2. CASE k = p.height /\ IsDeclaration(x) /\ q = At(p, 0)
    <3>1. q.height = 0
      BY <2>2 DEF At, Pt
    <3>2. \A i \in 1 .. Len(w) - 0 : i \in 1 .. Len(vals) - k \/ i = Len(vals) - k + 1
      BY <1>5, <1>8
    <3>3. 0 <= Len(w)
      BY <1>5, <1>7, <1>8
    <3> QED
      BY <1>6, <1>8, <2>2, <3>1, <3>2, <3>3
  <2> QED
    BY <1>1, <2>1, <2>2
<1>10. q.scopes = p.scopes /\ q.loops = p.loops /\ q.body = p.body
  <2>1. \A h : At(p, h).scopes = p.scopes /\ At(p, h).loops = p.loops /\ At(p, h).body = p.body
    BY DEF At, Pt
  <2> QED
    BY <1>1, <2>1
<1>11. Stands(m, w, q)
  BY <1>4, <1>6, <1>9, <1>10 DEF Stands, SameTc
<1>12. Job(n, <<>>, q, q)
  BY JobNothing
<1>13. Len(m.symbols) = n /\ m.scopes = tc.scopes /\ n <= n
  BY <1>4, <1>5 DEF SameTc
<1> HIDE DEF n
<1>14. Len(tc.symbols) = n
  BY DEF n
<1> QED
  BY <1>1, <1>2, <1>4, <1>8, <1>11, <1>12, <1>13, <1>14, Advance

-----------------------------------------------------------------------------
(* What lowering a node leads to.                                             *)

LEMMA TaskEffect ==
  ASSUME NEW t, NEW p, NEW q, Effect(t, p, q)
  PROVE  /\ t.do = "lower" => q = More(p, 1) /\ CanLower(t.n, p.scopes)
         /\ t.do = "lower_item" => p = Rest /\ q = Rest
         /\ t.do = "declare_item" => p = Rest /\ q = Rest
         /\ t.do = "end_fn" => p = Pt(t.parts, 2, 0, TRUE) /\ q = Rest
         /\ t.do = "end_global" => p = More(Rest, t.parts) /\ q = Rest
         /\ t.do \in {"make", "declare_local"} =>
              Len(t.n.args) <= p.height /\ q = At(p, p.height - Len(t.n.args) + 1)
         /\ t.do = "declare_local" => p.scopes >= 2
         /\ t.do = "enter_scope" => q = Pt(p.height, p.scopes + 1, p.loops, p.body)
         /\ t.do = "leave_scope" => p.scopes >= 2 /\ q = Pt(p.height, p.scopes - 1, p.loops, p.body)
         /\ t.do = "enter_loop" => q = Pt(p.height, p.scopes, p.loops + 1, p.body)
         /\ t.do = "leave_loop" => p.loops >= 1 /\ q = Pt(p.height, p.scopes, p.loops - 1, p.body)
         /\ t.do \in {"check_scalar", "check_lvalue", "decay", "convert", "call_args"} =>
              p.height >= 1 /\ q = p
<1>1. t.do = "lower" => q = More(p, 1) /\ CanLower(t.n, p.scopes)
  BY DEF Effect
<1>2. /\ t.do = "lower_item" => p = Rest /\ q = Rest
      /\ t.do = "declare_item" => p = Rest /\ q = Rest
  BY DEF Effect
<1>3. /\ t.do = "end_fn" => p = Pt(t.parts, 2, 0, TRUE) /\ q = Rest
      /\ t.do = "end_global" => p = More(Rest, t.parts) /\ q = Rest
  BY DEF Effect
<1>4. t.do \in {"make", "declare_local"} =>
        Len(t.n.args) <= p.height /\ q = At(p, p.height - Len(t.n.args) + 1)
  BY DEF Effect
<1>5. t.do = "declare_local" => p.scopes >= 2
  BY DEF Effect
<1>6. /\ t.do = "enter_scope" => q = Pt(p.height, p.scopes + 1, p.loops, p.body)
      /\ t.do = "leave_scope" => p.scopes >= 2 /\ q = Pt(p.height, p.scopes - 1, p.loops, p.body)
  BY DEF Effect
<1>7. /\ t.do = "enter_loop" => q = Pt(p.height, p.scopes, p.loops + 1, p.body)
      /\ t.do = "leave_loop" => p.loops >= 1 /\ q = Pt(p.height, p.scopes, p.loops - 1, p.body)
  BY DEF Effect
<1>8. t.do \in {"check_scalar", "check_lvalue", "decay", "convert", "call_args"} =>
        p.height >= 1 /\ q = p
  BY DEF Effect
<1> QED
  BY <1>1, <1>2, <1>3, <1>4, <1>5, <1>6, <1>7, <1>8

LEMMA LoweredIs ==
  ASSUME NEW t, t.do = "lower", NEW p, NEW q, Effect(t, p, q)
  PROVE  /\ q = More(p, 1)
         /\ t.n.k \in ExprKinds => t.n \in AstExpr
         /\ t.n.k \notin ExprKinds \cup {"empty"} => t.n \in AstStmt /\ p.scopes >= 2
<1>1. q = More(p, 1) /\ CanLower(t.n, p.scopes)
  BY TaskEffect
<1>2. EmptyNode.k = "empty"
  BY DEF EmptyNode, N
<1>3. "empty" \notin ExprKinds
  BY DEF ExprKinds, Arity
<1> QED
  BY <1>1, <1>2, <1>3 DEF CanLower, AstExpr, AstStmt

\* Parts in order, then the node.
LEMMA PartsJob ==
  ASSUME NEW n, NEW x, NewTask(n, Make(x)), IsSequence(x.args), NEW p \in Point,
         \A i \in 1 .. Len(x.args) : CanLower(x.args[i], p.scopes)
  PROVE  Job(n, Each(x.args) \o <<Make(x)>>, p, More(p, 1))
<1>1. Len(x.args) \in Nat
  BY SequenceElim
<1>2. Job(n, Each(x.args), p, More(p, Len(x.args)))
  BY EachJob
<1> QED
  BY <1>1, <1>2, MakeJob

\* A condition first.
LEMMA CondEachJob ==
  ASSUME NEW n, NEW xs, IsSequence(xs), xs # <<>>, xs[1] \in AstExpr, NEW p \in Point,
         \A i \in 1 .. Len(xs) : CanLower(xs[i], p.scopes)
  PROVE  Job(n, Cond(xs[1]) \o Each(Tail(xs)), p, More(p, Len(xs)))
<1> DEFINE ns == Tail(xs)
           q == More(p, 1)
           k == Len(xs)
<1>1. /\ IsSequence(ns) /\ Len(ns) = k - 1 /\ k \in Nat \ {0}
      /\ \A i \in 1 .. k - 1 : ns[i] = xs[i + 1]
  BY SequenceTail
<1>2. q \in Point /\ q.scopes = p.scopes
  BY MorePoint
<1> HIDE DEF ns, q
<1>3. \A i \in 1 .. Len(ns) : CanLower(ns[i], q.scopes)
  <2>1. \A i \in 1 .. k - 1 : i + 1 \in 1 .. k
    BY <1>1
  <2> QED
    BY <1>1, <1>2, <2>1
<1>4. Job(n, Each(ns), q, More(q, Len(ns)))
  BY <1>1, <1>2, <1>3, EachJob
<1>5. Job(n, Cond(xs[1]), p, q)
  BY CondJob DEF q
<1>6. More(q, Len(ns)) = More(p, k)
  <2>1. k - 1 \in Nat /\ 1 + (k - 1) = k
    BY <1>1
  <2> HIDE DEF k
  <2> QED
    BY <1>1, <2>1, MorePoint DEF q
<1> HIDE DEF k
<1>7. Job(n, Each(ns), q, More(p, k))
  BY <1>4, <1>6
<1>8. Job(n, Cond(xs[1]) \o Each(ns), p, More(p, k))
  BY <1>5, <1>7, JobConcat
<1> QED
  BY <1>8 DEF ns, k

LEMMA JobFour ==
  ASSUME NEW n, NEW a, NEW b, NEW c, NEW d,
         NewTask(n, a), NewTask(n, b), NewTask(n, c), NewTask(n, d),
         NEW p \in Point, NEW q \in Point, NEW r \in Point, NEW s \in Point, NEW t \in Point,
         Effect(a, p, q), Effect(b, q, r), Effect(c, r, s), Effect(d, s, t)
  PROVE  Job(n, <<a, b, c, d>>, p, t)
<1> DEFINE ts == <<a, b, c, d>>
           u == <<a, b>>
           v == <<c, d>>
           w == u \o v
<1>1. Job(n, u, p, r) /\ Job(n, v, r, t)
  BY JobTwo
<1>2. /\ IsSequence(u) /\ Len(u) = 2 /\ u[1] = a /\ u[2] = b
      /\ IsSequence(v) /\ Len(v) = 2 /\ v[1] = c /\ v[2] = d
  BY SequenceTwo
<1>3. IsSequence(ts) /\ Len(ts) = 4 /\ ts[1] = a /\ ts[2] = b /\ ts[3] = c /\ ts[4] = d
  <2>1. ts \in Seq({a, b, c, d})
    OBVIOUS
  <2> QED
    BY <2>1, SequenceIntro
<1> HIDE DEF u, v
<1>4. /\ IsSequence(w) /\ Len(w) = Len(u) + Len(v)
      /\ \A i \in 1 .. Len(u) : w[i] = u[i]
      /\ \A i \in 1 .. Len(v) : w[Len(u) + i] = v[i]
  <2>1. IsSequence(u) /\ IsSequence(v)
    BY <1>2
  <2> HIDE DEF ts
  <2> QED
    BY <2>1, SequenceConcat
<1>5. Job(n, w, p, t)
  BY <1>1, JobConcat
<1> HIDE DEF w, ts
<1>6. Len(w) = 4 /\ w[1] = a /\ w[2] = b
  BY <1>2, <1>4
<1>7. w[3] = c /\ w[4] = d
  <2>1. 1 \in 1 .. Len(v) /\ 2 \in 1 .. Len(v) /\ Len(u) + 1 = 3 /\ Len(u) + 2 = 4
    BY <1>2
  <2> QED
    BY <1>2, <1>4, <2>1
<1>8. \A i \in 1 .. Len(ts) : ts[i] = w[i]
  <2>1. \A i \in 1 .. Len(ts) : i \in {1, 2, 3, 4}
    BY <1>3
  <2> QED
    BY <1>3, <1>6, <1>7, <2>1
<1>9. ts = w
  BY <1>3, <1>4, <1>6, <1>8, SequencesEqual
<1> QED
  BY <1>5, <1>9 DEF ts

\* The four parts of a for statement.
LEMMA ForParts ==
  ASSUME NEW s \in AstStmt, s.k = "for"
  PROVE  /\ IsSequence(s.args) /\ Len(s.args) = 4
         /\ s.args[1] \in AstStmt /\ s.args[4] \in AstStmt
         /\ s.args[2] \in AstExpr \cup {EmptyNode} /\ s.args[3] \in AstExpr \cup {EmptyNode}
<1> DEFINE xs == s.args
<1>1. xs \in AstStmt \X (AstExpr \cup {EmptyNode}) \X (AstExpr \cup {EmptyNode}) \X AstStmt
  BY StmtIs DEF IsStmt
<1> HIDE DEF xs
<1>2. PICK a \in AstStmt, b \in AstExpr \cup {EmptyNode}, c \in AstExpr \cup {EmptyNode}, d \in AstStmt :
        xs = <<a, b, c, d>>
  <2> HIDE DEF AstStmt, AstExpr, EmptyNode
  <2> QED
    BY <1>1
<1>3. xs \in Seq({a, b, c, d}) /\ Len(xs) = 4 /\ xs[1] = a /\ xs[2] = b /\ xs[3] = c /\ xs[4] = d
  BY <1>2
<1>4. IsSequence(xs)
  BY <1>3, SequenceIntro
<1> QED
  BY <1>3, <1>4 DEF xs

LEMMA LoopParts ==
  ASSUME NEW s \in AstStmt
  PROVE  /\ s.k = "while" => /\ IsSequence(s.args) /\ Len(s.args) = 2
                             /\ s.args[1] \in AstExpr /\ s.args[2] \in AstStmt
         /\ s.k = "do" => /\ IsSequence(s.args) /\ Len(s.args) = 2
                          /\ s.args[1] \in AstStmt /\ s.args[2] \in AstExpr
<1> DEFINE xs == s.args
<1>1. /\ s.k = "while" => xs \in AstExpr \X AstStmt
      /\ s.k = "do" => xs \in AstStmt \X AstExpr
  BY StmtIs DEF IsStmt
<1> HIDE DEF xs
<1>2. ASSUME NEW A, NEW B, xs \in A \X B
      PROVE  IsSequence(xs) /\ Len(xs) = 2 /\ xs[1] \in A /\ xs[2] \in B
  <2>1. PICK a \in A, b \in B : xs = <<a, b>>
    BY <1>2
  <2>2. IsSequence(xs) /\ Len(xs) = 2 /\ xs[1] = a /\ xs[2] = b
    BY <2>1, SequenceTwo
  <2> QED
    BY <2>2
<1> QED
  BY <1>1, <1>2 DEF xs

LEMMA LoopJobs ==
  ASSUME NEW n, NEW e \in AstExpr, NEW s \in AstStmt, NEW p \in Point, p.scopes >= 2
  PROVE  /\ Job(n, Cond(e) \o Looping(s), p, More(p, 2))
         /\ Job(n, Looping(s) \o Cond(e), p, More(p, 2))
<1> DEFINE q == More(p, 1)
<1>1. q \in Point /\ q.scopes = p.scopes /\ More(q, 1) = More(p, 1 + 1) /\ 1 + 1 = 2
  BY MorePoint
<1>2. Job(n, Cond(e), p, q) /\ Job(n, Looping(s), p, q)
  BY CondJob, LoopingJob
<1> HIDE DEF q
<1>3. Job(n, Looping(s), q, More(q, 1)) /\ Job(n, Cond(e), q, More(q, 1))
  BY <1>1, CondJob, LoopingJob
<1>4. More(q, 1) = More(p, 2)
  BY <1>1
<1> QED
  BY <1>2, <1>3, <1>4, JobConcat

\* What a block of its own does: one scope further in, and out again.
Inside(p) == Pt(p.height, p.scopes + 1, p.loops, p.body)

LEMMA InsideIs ==
  ASSUME NEW p \in Point, p.scopes >= 1, NEW n
  PROVE  /\ Inside(p) \in Point /\ Inside(p).height = p.height
         /\ Inside(p).scopes = p.scopes + 1 /\ Inside(p).scopes >= 2
         /\ Effect(EnterScope, p, Inside(p))
         /\ \A k \in Nat : Effect(LeaveScope, More(Inside(p), k), More(p, k))
<1> DEFINE s == Inside(p)
<1>1. p.height \in Nat /\ p.scopes \in Nat /\ p.loops \in Nat /\ p.body \in BOOLEAN
  BY PointIs
<1>2. s = Pt(p.height, p.scopes + 1, p.loops, p.body)
  BY DEF Inside
<1> HIDE DEF s
<1>3. s \in Point
  BY <1>1, <1>2, PtIs
<1>4. s.height = p.height /\ s.scopes = p.scopes + 1 /\ s.loops = p.loops /\ s.body = p.body
  BY <1>2 DEF Pt
<1>5. s.scopes >= 2 /\ s.scopes - 1 = p.scopes
  BY <1>1, <1>4
<1>6. Effect(EnterScope, p, s)
  BY <1>2, EffectOfTask
<1>7. ASSUME NEW k \in Nat
      PROVE  Effect(LeaveScope, More(s, k), More(p, k))
  <2> DEFINE a == More(s, k)
             b == More(p, k)
  <2>1. a.height = s.height + k /\ a.scopes = s.scopes /\ a.loops = s.loops /\ a.body = s.body
    BY <1>3, MorePoint
  <2>2. b = Pt(p.height + k, p.scopes, p.loops, p.body)
    BY DEF More, At
  <2> HIDE DEF a, b
  <2>3. a.scopes >= 2 /\ a.scopes - 1 = p.scopes /\ a.height = p.height + k
    BY <1>4, <1>5, <2>1
  <2>4. b = Pt(a.height, a.scopes - 1, a.loops, a.body)
    BY <1>4, <2>1, <2>2, <2>3
  <2> QED
    BY <2>3, <2>4, EffectOfTask DEF a, b
<1> QED
  BY <1>3, <1>4, <1>5, <1>6, <1>7 DEF s

LEMMA ForJob ==
  ASSUME NEW n, NEW x \in AstStmt, x.k = "for", NEW p \in Point, p.scopes >= 2
  PROVE  Job(n, ForTasks(x), p, More(p, 4))
<1> DEFINE s == Inside(p)
<1>1. p.scopes >= 1
  BY PointIs
<1>2. /\ s \in Point /\ s.scopes >= 2 /\ Effect(EnterScope, p, s)
      /\ Effect(LeaveScope, More(s, 4), More(p, 4))
  BY <1>1, InsideIs
<1> HIDE DEF s
<1>3. \A k \in {1, 2, 3, 4} : More(s, k) \in Point /\ More(s, k).scopes = s.scopes
  <2>1. \A k \in Nat : More(s, k) \in Point /\ More(s, k).scopes = s.scopes
    BY <1>2, MorePoint
  <2> QED
    BY <2>1
<1>4. ASSUME NEW k \in Nat PROVE More(More(s, k), 1) = More(s, k + 1)
  BY <1>2, MorePoint
<1>5. More(More(s, 1), 1) = More(s, 2) /\ More(More(s, 2), 1) = More(s, 3) /\ More(More(s, 3), 1) = More(s, 4)
  <2>1. 1 + 1 = 2 /\ 2 + 1 = 3 /\ 3 + 1 = 4
    OBVIOUS
  <2> QED
    BY <1>4, <2>1
<1>6. /\ x.args[1] \in AstStmt /\ x.args[4] \in AstStmt
      /\ x.args[2] \in AstExpr \cup {EmptyNode} /\ x.args[3] \in AstExpr \cup {EmptyNode}
  BY ForParts
<1> DEFINE a == More(s, 1)
           b == More(s, 2)
           c == More(s, 3)
           d == More(s, 4)
           e == More(p, 4)
<1>7. a \in Point /\ b \in Point /\ c \in Point /\ d \in Point /\ e \in Point
  BY <1>3, MorePoint
<1>8. a.scopes >= 2 /\ b.scopes >= 2 /\ c.scopes >= 2
  BY <1>2, <1>3
<1>9. b = More(a, 1) /\ c = More(b, 1) /\ d = More(c, 1)
  BY <1>5
<1>10. Effect(LeaveScope, d, e)
  BY <1>2
<1>11. a = More(s, 1)
  OBVIOUS
<1> HIDE DEF a, b, c, d, e
<1>12. Job(n, <<EnterScope, Lower(x.args[1])>>, p, a)
  <2>1. Effect(Lower(x.args[1]), s, a)
    BY <1>2, <1>6, <1>11, EffectOfTask DEF CanLower
  <2> QED
    BY <1>2, <1>7, <2>1, NewTasks, JobTwo
<1>13. Job(n, OptionalCond(x.args[2]), a, b)
  BY <1>6, <1>7, <1>9, OptionalCondJob
<1>14. Job(n, <<Lower(x.args[3])>>, b, c)
  BY <1>6, <1>7, <1>9, LowerJob DEF CanLower
<1>15. Job(n, Looping(x.args[4]), c, d)
  BY <1>6, <1>7, <1>8, <1>9, LoopingJob
<1>16. Job(n, <<LeaveScope>>, d, e)
  BY <1>7, <1>10, NewTasks, JobOne
<1>17. Job(n, <<EnterScope, Lower(x.args[1])>> \o OptionalCond(x.args[2]), p, b)
  BY <1>12, <1>13, JobConcat
<1>18. Job(n, <<EnterScope, Lower(x.args[1])>> \o OptionalCond(x.args[2]) \o <<Lower(x.args[3])>>, p, c)
  BY <1>14, <1>17, JobConcat
<1>19. Job(n, <<EnterScope, Lower(x.args[1])>> \o OptionalCond(x.args[2]) \o <<Lower(x.args[3])>>
                \o Looping(x.args[4]), p, d)
  BY <1>15, <1>18, JobConcat
<1>20. Job(n, <<EnterScope, Lower(x.args[1])>> \o OptionalCond(x.args[2]) \o <<Lower(x.args[3])>>
                \o Looping(x.args[4]) \o <<LeaveScope>>, p, e)
  BY <1>16, <1>19, JobConcat
<1> QED
  BY <1>20 DEF ForTasks, e

LEMMA BlockJob ==
  ASSUME NEW n, NEW x, NewTask(n, Make(x)), x.args \in Seq(AstStmt), NEW p \in Point, p.scopes >= 2
  PROVE  Job(n, <<EnterScope>> \o Each(x.args) \o <<LeaveScope, Make(x)>>, p, More(p, 1))
<1> DEFINE s == Inside(p)
           k == Len(x.args)
           b == More(s, k)
           c == More(p, k)
           d == More(p, 1)
<1>1. IsSequence(x.args) /\ k \in Nat /\ \A i \in 1 .. k : x.args[i] \in AstStmt
  <2> HIDE DEF AstStmt
  <2> QED
    BY SequenceIntro, SequenceElim, ElementOfSeq
<1>2. p.scopes >= 1 /\ p.height \in Nat
  BY PointIs
<1> HIDE DEF k
<1>3. /\ s \in Point /\ s.scopes >= 2 /\ Effect(EnterScope, p, s) /\ Effect(LeaveScope, b, c)
  BY <1>1, <1>2, InsideIs
<1> HIDE DEF s
<1>4. b \in Point /\ c \in Point /\ d \in Point /\ c.height = p.height + k
      /\ c.scopes = p.scopes /\ c.loops = p.loops /\ c.body = p.body
  BY <1>1, <1>3, MorePoint
<1>5. d = At(c, c.height - k + 1) /\ k <= c.height
  <2>1. c.height - k + 1 = p.height + 1 /\ k <= c.height
    BY <1>1, <1>2, <1>4
  <2> HIDE DEF c
  <2> QED
    BY <1>4, <2>1 DEF More, At
<1>6. Effect(Make(x), c, d)
  BY <1>5, EffectOfTask DEF k
<1>7. Job(n, Each(x.args), s, b)
  <2>1. \A i \in 1 .. Len(x.args) : CanLower(x.args[i], s.scopes)
    BY <1>1, <1>3 DEF CanLower, k
  <2> QED
    BY <1>1, <1>3, <2>1, EachJob DEF k
<1> HIDE DEF b, c, d
<1>8. Job(n, <<EnterScope>>, p, s) /\ Job(n, <<LeaveScope, Make(x)>>, b, d)
  BY <1>3, <1>4, <1>6, NewTasks, JobOne, JobTwo
<1>9. Job(n, <<EnterScope>> \o Each(x.args), p, b)
  BY <1>7, <1>8, JobConcat
<1>10. Job(n, <<EnterScope>> \o Each(x.args) \o <<LeaveScope, Make(x)>>, p, d)
  BY <1>8, <1>9, JobConcat
<1> QED
  BY <1>10 DEF d

LEMMA OptionalIs ==
  ASSUME NEW S, NEW ns, IsOptional(ns, S)
  PROVE  /\ IsSequence(ns) /\ Len(ns) \in {0, 1} /\ (ns = <<>> <=> Len(ns) = 0)
         /\ \A i \in 1 .. Len(ns) : ns[i] \in S
<1>1. ns \in Seq(S) /\ Len(ns) <= 1
  BY DEF IsOptional
<1>2. IsSequence(ns)
  BY <1>1, SequenceIntro
<1>3. Len(ns) \in Nat /\ (ns = <<>> <=> Len(ns) = 0)
  BY <1>2, SequenceElim
<1>4. \A i \in 1 .. Len(ns) : ns[i] \in S
  BY <1>1, ElementOfSeq
<1>5. Len(ns) \in {0, 1}
  <2> DEFINE k == Len(ns)
  <2>1. k \in Nat /\ k <= 1
    BY <1>1, <1>3
  <2> HIDE DEF k
  <2>2. k \in {0, 1}
    BY <2>1
  <2> QED
    BY <2>2 DEF k
<1> QED
  BY <1>2, <1>3, <1>4, <1>5

\* An initialiser, if there is one, is lowered and converted.
LEMMA InitialiserJob ==
  ASSUME NEW n, NEW ns, IsOptional(ns, AstExpr), NEW ty, NEW p \in Point
  PROVE  Job(n, Each(ns) \o (IF ns = <<>> THEN <<>> ELSE <<Convert(ty)>>), p, More(p, Len(ns)))
<1> DEFINE q == More(p, Len(ns))
           ts == IF ns = <<>> THEN <<>> ELSE <<Convert(ty)>>
<1>1. /\ IsSequence(ns) /\ Len(ns) \in {0, 1} /\ (ns = <<>> <=> Len(ns) = 0)
      /\ \A i \in 1 .. Len(ns) : CanLower(ns[i], p.scopes)
  <2> HIDE DEF AstExpr
  <2> QED
    BY OptionalIs DEF CanLower
<1>2. Job(n, Each(ns), p, q) /\ q \in Point
  BY <1>1, EachJob
<1>3. Len(ns) \in Nat /\ p.height \in Nat /\ q.height = p.height + Len(ns)
  <2> DEFINE k == Len(ns)
  <2>1. k \in Nat
    BY <1>1
  <2> HIDE DEF k
  <2>2. More(p, k).height = p.height + k /\ p.height \in Nat
    BY <2>1, MorePoint, PointIs
  <2> QED
    BY <2>1, <2>2 DEF k
<1> HIDE DEF q
<1>4. Job(n, ts, q, q)
  <2>1. CASE ns = <<>>
    BY <1>2, <2>1, JobNothing
  <2>2. CASE ns # <<>>
    <3>1. q.height >= 1
      BY <1>1, <1>3, <2>2
    <3>2. Effect(Convert(ty), q, q)
      BY <3>1, EffectOfTask
    <3>3. Job(n, <<Convert(ty)>>, q, q)
      BY <1>2, <3>2, NewTasks, JobOne
    <3> QED
      BY <2>2, <3>3
  <2> QED
    BY <2>1, <2>2
<1> HIDE DEF ts
<1>5. Job(n, Each(ns) \o ts, p, q)
  BY <1>2, <1>4, JobConcat
<1> QED
  BY <1>5 DEF q, ts

LEMMA LocalJob ==
  ASSUME NEW n, NEW d, IsOptional(d.args, AstExpr), NEW p \in Point, p.scopes >= 2
  PROVE  Job(n, LocalTasks(d), p, More(p, 1))
<1> DEFINE k == Len(d.args)
           ts == Each(d.args) \o (IF d.args = <<>> THEN <<>> ELSE <<Convert(LowerType(d.ty))>>)
           q == More(p, k)
           r == More(p, 1)
<1>1. IsSequence(d.args) /\ k \in Nat /\ p.height \in Nat
  BY OptionalIs, SequenceElim, PointIs
<1>2. Job(n, ts, p, q)
  BY InitialiserJob
<1> HIDE DEF ts
<1>3. q \in Point /\ r \in Point /\ q.height = p.height + k
      /\ q.scopes = p.scopes /\ q.loops = p.loops /\ q.body = p.body
  BY <1>1, MorePoint
<1>4. r = At(q, q.height - k + 1) /\ k <= q.height
  <2> HIDE DEF k
  <2>1. q.height - k + 1 = p.height + 1 /\ k <= q.height
    BY <1>1, <1>3
  <2> HIDE DEF q
  <2> QED
    BY <1>3, <2>1 DEF More, At
<1>5. Effect(DeclareLocal(d), q, r)
  BY <1>3, <1>4, EffectOfTask
<1> HIDE DEF q, r
<1>6. Job(n, <<DeclareLocal(d)>>, q, r)
  BY <1>1, <1>3, <1>5, NewTasks, JobOne
<1>7. Job(n, ts \o <<DeclareLocal(d)>>, p, r)
  BY <1>2, <1>6, JobConcat
<1> QED
  BY <1>7 DEF LocalTasks, ts, r

\* The value of a return is converted to the type of the function, if it has one.
LEMMA ReturnJob ==
  ASSUME NEW n, NEW x, NewTask(n, Make(x)), IsOptional(x.args, AstExpr), x.args # <<>>,
         NEW tys, IsSequence(tys), NEW p \in Point
  PROVE  Job(n, Each(x.args) \o [i \in DOMAIN tys |-> Convert(tys[i])] \o <<Make(x)>>, p, More(p, 1))
<1> DEFINE ts == [i \in DOMAIN tys |-> Convert(tys[i])]
           q == More(p, 1)
<1>1. /\ IsSequence(x.args) /\ Len(x.args) = 1
      /\ \A i \in 1 .. Len(x.args) : CanLower(x.args[i], p.scopes)
  <2> HIDE DEF AstExpr
  <2> QED
    BY OptionalIs DEF CanLower
<1>2. Job(n, Each(x.args), p, q) /\ q \in Point
  BY <1>1, EachJob
<1>3. q.height >= 1
  <2>1. q.height = p.height + 1 /\ p.height \in Nat
    BY MorePoint, PointIs
  <2> QED
    BY <2>1
<1>4. DOMAIN tys = 1 .. Len(tys) /\ Len(tys) \in Nat
  BY SequenceElim
<1>5. ts = [i \in 1 .. Len(tys) |-> ts[i]] /\ \A i \in 1 .. Len(tys) : ts[i] = Convert(tys[i])
  BY <1>4
<1> HIDE DEF ts, q
<1>6. IsSequence(ts) /\ Len(ts) = Len(tys)
  BY <1>4, <1>5, SequenceByIndex
<1>7. \A i \in 1 .. Len(ts) : Effect(ts[i], q, q) /\ NewTask(n, ts[i])
  BY <1>3, <1>5, <1>6, EffectOfTask, NewTasks
<1>8. Runs(ts, q, q)
  BY <1>2, <1>6, <1>7, RunsIdle
<1>9. Job(n, ts, q, q)
  BY <1>6, <1>7, <1>8, JobIs
<1>10. Job(n, Each(x.args) \o ts, p, More(p, Len(x.args)))
  BY <1>1, <1>2, <1>9, JobConcat DEF q
<1>11. Job(n, Each(x.args) \o ts \o <<Make(x)>>, p, More(p, 1))
  <2>1. Len(x.args) \in Nat
    BY <1>1
  <2> HIDE DEF ts
  <2> DEFINE us == Each(x.args) \o ts
  <2>2. Job(n, us, p, More(p, Len(x.args)))
    BY <1>10
  <2> HIDE DEF us
  <2>3. Job(n, us \o <<Make(x)>>, p, More(p, 1))
    BY <2>1, <2>2, MakeJob
  <2> QED
    BY <2>3 DEF us
<1> QED
  BY <1>11 DEF ts

LEMMA OneMore ==
  ASSUME NEW p \in Point, NEW k \in Nat
  PROVE  /\ More(p, k) \in Point /\ More(p, k + 1) \in Point /\ More(p, k + 1).height >= 1
         /\ More(p, k + 1) = More(More(p, k), 1)
<1>1. More(p, k) \in Point /\ More(More(p, k), 1) = More(p, k + 1)
  BY MorePoint
<1>2. k + 1 \in Nat
  OBVIOUS
<1>3. More(p, k + 1) \in Point /\ More(p, k + 1).height = p.height + (k + 1)
  BY <1>2, MorePoint
<1>4. p.height + (k + 1) >= 1
  BY PointIs
<1> QED
  BY <1>1, <1>3, <1>4

\* Each argument becomes one value.
LEMMA ArgsJob ==
  ASSUME NEW n, NEW args, IsSequence(args), \A i \in 1 .. Len(args) : args[i] \in AstExpr,
         NEW params, NEW p \in Point
  PROVE  Job(n, ArgTasks(args, params), p, More(p, Len(args)))
<1> DEFINE Last2(i) == IF i \in DOMAIN params THEN Convert(params[i]) ELSE DecayValue
           ss == [i \in DOMAIN args |-> <<Lower(args[i]), Last2(i)>>]
           S == {k \in Nat : k <= Len(args) => Job(n, FlattenSeq(SubSeq(ss, 1, k)), p, More(p, k))}
<1>1. DOMAIN args = 1 .. Len(args) /\ Len(args) \in Nat
  BY SequenceElim
<1>2. /\ ss = [i \in 1 .. Len(args) |-> ss[i]]
      /\ \A i \in 1 .. Len(args) : ss[i] = <<Lower(args[i]), Last2(i)>>
  BY <1>1
<1>3. \A i : NewTask(n, Last2(i)) /\ \A q : q.height >= 1 => Effect(Last2(i), q, q)
  BY NewTasks, EffectOfTask
<1> HIDE DEF ss, Last2
<1>4. IsSequence(ss) /\ Len(ss) = Len(args)
  BY <1>1, <1>2, SequenceByIndex
<1>5. 0 \in S
  <2>1. SubSeq(ss, 1, 0) = <<>>
    <3>1. 1 \in 1 .. Len(ss) + 1 /\ 0 \in 1 - 1 .. Len(ss) /\ 0 - 1 + 1 = 0
      BY <1>1, <1>4
    <3>2. IsSequence(SubSeq(ss, 1, 0)) /\ Len(SubSeq(ss, 1, 0)) = 0
      BY <1>4, <3>1, SequenceSub
    <3> QED
      BY <3>2, SequenceElim
  <2>2. FlattenSeq(SubSeq(ss, 1, 0)) = <<>>
    BY <2>1, FlattenNothing
  <2>3. More(p, 0) = p
    BY MorePoint
  <2> QED
    BY <2>2, <2>3, JobNothing
<1>6. ASSUME NEW k \in Nat, k \in S
      PROVE  k + 1 \in S
  <2> SUFFICES ASSUME k + 1 <= Len(args)
               PROVE  Job(n, FlattenSeq(SubSeq(ss, 1, k + 1)), p, More(p, k + 1))
    OBVIOUS
  <2> DEFINE pre == SubSeq(ss, 1, k)
             i == k + 1
             two == <<Lower(args[i]), Last2(i)>>
             q == More(p, k)
             r == More(p, i)
  <2>1. i \in 1 .. Len(args) /\ k <= Len(args) /\ 1 \in 1 .. Len(ss) + 1 /\ k \in 1 - 1 .. Len(ss)
    BY <1>1, <1>4
  <2>2. SubSeq(ss, 1, i) = Append(pre, two)
    BY <1>2, <1>4, <2>1, PrefixGrows
  <2>3. IsSequence(pre)
    BY <1>4, <2>1, SequenceSub
  <2>4. IsSequence(two)
    BY SequenceTwo
  <2> HIDE DEF pre, two
  <2>5. FlattenSeq(Append(pre, two)) = FlattenSeq(pre) \o two
    BY <2>3, <2>4, FlattenAppend
  <2>6. Job(n, FlattenSeq(pre), p, q)
    BY <1>6, <2>1 DEF pre
  <2>7. q \in Point /\ r \in Point /\ r = More(q, 1) /\ r.height >= 1
    BY OneMore
  <2> HIDE DEF q, r
  <2>8. Effect(Lower(args[i]), q, r) /\ Effect(Last2(i), r, r)
    BY <1>3, <2>1, <2>7, EffectOfTask DEF CanLower
  <2>9. NewTask(n, Lower(args[i])) /\ NewTask(n, Last2(i))
    BY <1>3, NewTasks
  <2>10. Job(n, two, q, r)
    BY <2>7, <2>8, <2>9, JobTwo DEF two
  <2>11. Job(n, FlattenSeq(pre) \o two, p, r)
    BY <2>6, <2>10, JobConcat
  <2> QED
    BY <2>2, <2>5, <2>11 DEF r
<1>7. Nat \subseteq S
  <2> HIDE DEF S
  <2> QED
    BY <1>5, <1>6, SetInduction
<1>8. Job(n, FlattenSeq(SubSeq(ss, 1, Len(args))), p, More(p, Len(args)))
  BY <1>1, <1>7
<1>9. SubSeq(ss, 1, Len(args)) = ss
  <2> DEFINE w == SubSeq(ss, 1, Len(args))
  <2>1. 1 \in 1 .. Len(ss) + 1 /\ Len(args) \in 1 - 1 .. Len(ss) /\ Len(args) - 1 + 1 = Len(args)
        /\ \A i \in 1 .. Len(args) : 1 + i - 1 = i
    BY <1>1, <1>4
  <2>2. /\ IsSequence(w) /\ Len(w) = Len(args) - 1 + 1
        /\ \A i \in 1 .. Len(args) - 1 + 1 : w[i] = ss[1 + i - 1]
    BY <1>4, <2>1, SequenceSub
  <2> HIDE DEF w
  <2>3. Len(w) = Len(ss) /\ \A i \in 1 .. Len(w) : w[i] = ss[i]
    BY <1>4, <2>1, <2>2
  <2>4. w = ss
    BY <1>4, <2>2, <2>3, SequencesEqual
  <2> QED
    BY <2>4 DEF w
<1> QED
  BY <1>8, <1>9 DEF ArgTasks, ss, Last2

-----------------------------------------------------------------------------
(* Each action keeps the invariant.  First those that expand a node.          *)

LEMMA ExprKindIs == ExprKinds = {"int_lit", "float_lit", "char_lit", "string_lit", "ident", "paren",
                                 "member", "sizeof", "cast", "unary", "postfix", "binary", "index",
                                 "assign", "ternary", "call", "comma"}
BY DEF ExprKinds, Arity

LEMMA ArityIs ==
  ASSUME NEW e \in AstExpr
  PROVE  /\ e.k \in {"unary", "postfix", "paren", "member", "sizeof", "cast"} => Len(e.args) = 1
         /\ e.k \in {"binary", "index", "assign"} => Len(e.args) = 2
         /\ e.k = "ternary" => Len(e.args) = 3
         /\ e.k = "call" => e.args # <<>>
         /\ e.k = "unary" => e.what \in UnaryOps
<1>1. /\ \/ e.k \in DOMAIN Arity /\ Len(e.args) = Arity[e.k]
         \/ e.k \in {"call", "comma"} /\ e.args # <<>>
      /\ e.k = "unary" => e.what \in UnaryOps
  BY ExprIs DEF IsExpr
<1>2. /\ \A k \in {"unary", "postfix", "paren", "member", "sizeof", "cast"} : Arity[k] = 1
      /\ \A k \in {"binary", "index", "assign"} : Arity[k] = 2
      /\ Arity["ternary"] = 3
      /\ "call" \notin DOMAIN Arity
  BY DEF Arity
<1>3. e.k \in {"unary", "postfix", "paren", "member", "sizeof", "cast"} => Len(e.args) = 1
  BY <1>1, <1>2
<1>4. e.k \in {"binary", "index", "assign"} => Len(e.args) = 2
  BY <1>1, <1>2
<1>5. e.k = "ternary" => Len(e.args) = 3
  BY <1>1, <1>2
<1>6. e.k = "call" => e.args # <<>>
  BY <1>1, <1>2
<1> QED
  BY <1>1, <1>3, <1>4, <1>5, <1>6

LEMMA StmtTask ==
  ASSUME NEW t, t.do = "lower", NEW p, NEW q, Effect(t, p, q),
         t.n.k \in {"block", "unsafe", "if", "while", "do", "for", "expr", "decl", "return",
                    "break", "continue", "var"}
  PROVE  q = More(p, 1) /\ t.n \in AstStmt /\ IsStmt(t.n) /\ p.scopes >= 2
<1>1. t.n.k \notin ExprKinds \cup {"empty"}
  BY ExprKindIs
<1>2. q = More(p, 1) /\ t.n \in AstStmt /\ p.scopes >= 2
  BY <1>1, LoweredIs
<1> QED
  BY <1>2, StmtIs

LEMMA ExprTask ==
  ASSUME NEW t, t.do = "lower", NEW p, NEW q, Effect(t, p, q), t.n.k \in ExprKinds
  PROVE  /\ q = More(p, 1) /\ t.n \in AstExpr /\ IsExpr(t.n) /\ IsSequence(t.n.args)
         /\ \A i \in 1 .. Len(t.n.args) : t.n.args[i] \in AstExpr
<1>1. q = More(p, 1) /\ t.n \in AstExpr
  BY LoweredIs
<1> QED
  BY <1>1, ExprIs

LEMMA MakeTask ==
  ASSUME NEW n, NEW x, IsSequence(x.args), x.k \in MadeKinds, x.k = "unary" => x.what \in UnaryOps
  PROVE  NewTask(n, Make(x))
BY NewTasks

LEMMA StepBlock == ASSUME Inv, LowerBlock PROVE Inv'
<1> DEFINE x == Task.n
           ts == <<EnterScope>> \o Each(x.args) \o <<LeaveScope, Make(x)>>
<1>1. todo # <<>> /\ Task.do = "lower" /\ x.k \in {"block", "unsafe"} /\ Expand(ts)
  BY DEF LowerBlock, TakeNode, Take
<1>2. ASSUME NEW p \in Point, NEW q \in Point, Effect(Task, p, q)
      PROVE  Job(Len(tc.symbols), ts, p, q)
  <2>1. q = More(p, 1) /\ IsStmt(x) /\ p.scopes >= 2
    BY <1>1, <1>2, StmtTask
  <2>2. x.args \in Seq(AstStmt)
    BY <1>1, <2>1 DEF IsStmt
  <2>3. IsSequence(x.args)
    BY <2>2, SequenceIntro
  <2> HIDE DEF x
  <2>4. NewTask(Len(tc.symbols), Make(x))
    BY <1>1, <2>3, MakeTask, MadeKindIs
  <2> QED
    BY <2>1, <2>2, <2>4, BlockJob
<1> HIDE DEF ts
<1> QED
  BY <1>1, <1>2, Expanded

LEMMA IfParts ==
  ASSUME NEW s \in AstStmt, s.k = "if"
  PROVE  /\ IsSequence(s.args) /\ s.args # <<>> /\ s.args[1] \in AstExpr
         /\ \A i \in 1 .. Len(s.args) : s.args[i] \in AstExpr \cup AstStmt
<1> DEFINE xs == s.args
<1>1. xs \in AstExpr \X AstStmt \/ xs \in AstExpr \X AstStmt \X AstStmt
  BY StmtIs DEF IsStmt
<1> HIDE DEF xs
<1>2. CASE xs \in AstExpr \X AstStmt
  <2> HIDE DEF AstExpr, AstStmt
  <2>1. PICK a \in AstExpr, b \in AstStmt : xs = <<a, b>>
    BY <1>2
  <2>2. IsSequence(xs) /\ Len(xs) = 2 /\ xs[1] = a /\ xs[2] = b
    BY <2>1, SequenceTwo
  <2>3. xs # <<>>
    BY <2>2, SequenceElim
  <2>4. \A i \in 1 .. Len(xs) : i = 1 \/ i = 2
    BY <2>2
  <2> QED
    BY <2>2, <2>3, <2>4 DEF xs
<1>3. CASE xs \in AstExpr \X AstStmt \X AstStmt
  <2> HIDE DEF AstExpr, AstStmt
  <2>1. PICK a \in AstExpr, b \in AstStmt, c \in AstStmt : xs = <<a, b, c>>
    BY <1>3
  <2>2. xs \in Seq({a, b, c}) /\ Len(xs) = 3 /\ xs[1] = a /\ xs[2] = b /\ xs[3] = c
    BY <2>1
  <2>3. IsSequence(xs)
    BY <2>2, SequenceIntro
  <2>4. xs # <<>>
    BY <2>2, <2>3, SequenceElim
  <2>5. \A i \in 1 .. Len(xs) : i = 1 \/ i = 2 \/ i = 3
    BY <2>2
  <2> QED
    BY <2>2, <2>3, <2>4, <2>5 DEF xs
<1> QED
  BY <1>1, <1>2, <1>3

LEMMA StepIf == ASSUME Inv, LowerIf PROVE Inv'
<1> DEFINE x == Task.n
           us == Cond(x.args[1]) \o Each(Tail(x.args))
           ts == us \o <<Make(x)>>
<1>1. todo # <<>> /\ Task.do = "lower" /\ x.k = "if" /\ Expand(ts)
  BY DEF LowerIf, TakeNode, Take
<1>2. ASSUME NEW p \in Point, NEW q \in Point, Effect(Task, p, q)
      PROVE  Job(Len(tc.symbols), ts, p, q)
  <2>1. q = More(p, 1) /\ x \in AstStmt /\ p.scopes >= 2
    BY <1>1, <1>2, StmtTask
  <2> HIDE DEF x
  <2>2. /\ IsSequence(x.args) /\ x.args # <<>> /\ x.args[1] \in AstExpr
        /\ \A i \in 1 .. Len(x.args) : CanLower(x.args[i], p.scopes)
    BY <1>1, <2>1, IfParts DEF CanLower
  <2>3. NewTask(Len(tc.symbols), Make(x))
    BY <1>1, <2>2, MakeTask, MadeKindIs
  <2>4. Job(Len(tc.symbols), us, p, More(p, Len(x.args)))
    BY <2>2, CondEachJob
  <2>5. Len(x.args) \in Nat
    BY <2>2, SequenceElim
  <2> HIDE DEF us
  <2> QED
    BY <2>1, <2>3, <2>4, <2>5, MakeJob
<1> HIDE DEF ts
<1> QED
  BY <1>1, <1>2, Expanded

LEMMA StepTernary == ASSUME Inv, LowerTernary PROVE Inv'
<1> DEFINE x == Task.n
           us == Cond(x.args[1]) \o Each(Tail(x.args))
           ts == us \o <<Make(x)>>
<1>1. todo # <<>> /\ Task.do = "lower" /\ x.k = "ternary" /\ Expand(ts)
  BY DEF LowerTernary, TakeNode, Take
<1>2. ASSUME NEW p \in Point, NEW q \in Point, Effect(Task, p, q)
      PROVE  Job(Len(tc.symbols), ts, p, q)
  <2>1. /\ q = More(p, 1) /\ x \in AstExpr /\ IsSequence(x.args)
        /\ \A i \in 1 .. Len(x.args) : x.args[i] \in AstExpr
    BY <1>1, <1>2, ExprTask, ExprKindIs
  <2>2. Len(x.args) = 3
    BY <1>1, <2>1, ArityIs
  <2> HIDE DEF x
  <2>3. x.args # <<>> /\ x.args[1] \in AstExpr
    BY <2>1, <2>2, SequenceElim
  <2>4. \A i \in 1 .. Len(x.args) : CanLower(x.args[i], p.scopes)
    BY <2>1 DEF CanLower
  <2>5. NewTask(Len(tc.symbols), Make(x))
    BY <1>1, <2>1, MakeTask, MadeKindIs
  <2>6. Job(Len(tc.symbols), us, p, More(p, Len(x.args)))
    BY <2>1, <2>3, <2>4, CondEachJob
  <2>7. Len(x.args) \in Nat
    BY <2>2
  <2> HIDE DEF us
  <2> QED
    BY <2>1, <2>5, <2>6, <2>7, MakeJob
<1> HIDE DEF ts
<1> QED
  BY <1>1, <1>2, Expanded

LEMMA StepWhile == ASSUME Inv, LowerWhile PROVE Inv'
<1> DEFINE x == Task.n
           us == Cond(x.args[1]) \o Looping(x.args[2])
           ts == us \o <<Make(x)>>
<1>1. todo # <<>> /\ Task.do = "lower" /\ x.k = "while" /\ Expand(ts)
  BY DEF LowerWhile, TakeNode, Take
<1>2. ASSUME NEW p \in Point, NEW q \in Point, Effect(Task, p, q)
      PROVE  Job(Len(tc.symbols), ts, p, q)
  <2>1. q = More(p, 1) /\ x \in AstStmt /\ p.scopes >= 2
    BY <1>1, <1>2, StmtTask
  <2> HIDE DEF x
  <2>2. IsSequence(x.args) /\ Len(x.args) = 2 /\ x.args[1] \in AstExpr /\ x.args[2] \in AstStmt
    BY <1>1, <2>1, LoopParts
  <2>3. NewTask(Len(tc.symbols), Make(x))
    BY <1>1, <2>2, MakeTask, MadeKindIs
  <2>4. Job(Len(tc.symbols), us, p, More(p, 2))
    BY <2>1, <2>2, LoopJobs
  <2> HIDE DEF us
  <2>5. Job(Len(tc.symbols), us, p, More(p, Len(x.args))) /\ Len(x.args) \in Nat
    BY <2>2, <2>4
  <2> QED
    BY <2>1, <2>3, <2>5, MakeJob
<1> HIDE DEF ts
<1> QED
  BY <1>1, <1>2, Expanded

LEMMA StepDoWhile == ASSUME Inv, LowerDoWhile PROVE Inv'
<1> DEFINE x == Task.n
           us == Looping(x.args[1]) \o Cond(x.args[2])
           ts == us \o <<Make(x)>>
<1>1. todo # <<>> /\ Task.do = "lower" /\ x.k = "do" /\ Expand(ts)
  BY DEF LowerDoWhile, TakeNode, Take
<1>2. ASSUME NEW p \in Point, NEW q \in Point, Effect(Task, p, q)
      PROVE  Job(Len(tc.symbols), ts, p, q)
  <2>1. q = More(p, 1) /\ x \in AstStmt /\ p.scopes >= 2
    BY <1>1, <1>2, StmtTask
  <2> HIDE DEF x
  <2>2. IsSequence(x.args) /\ Len(x.args) = 2 /\ x.args[1] \in AstStmt /\ x.args[2] \in AstExpr
    BY <1>1, <2>1, LoopParts
  <2>3. NewTask(Len(tc.symbols), Make(x))
    BY <1>1, <2>2, MakeTask, MadeKindIs
  <2>4. Job(Len(tc.symbols), us, p, More(p, 2))
    BY <2>1, <2>2, LoopJobs
  <2> HIDE DEF us
  <2>5. Job(Len(tc.symbols), us, p, More(p, Len(x.args))) /\ Len(x.args) \in Nat
    BY <2>2, <2>4
  <2> QED
    BY <2>1, <2>3, <2>5, MakeJob
<1> HIDE DEF ts
<1> QED
  BY <1>1, <1>2, Expanded

LEMMA StepFor == ASSUME Inv, LowerFor PROVE Inv'
<1> DEFINE x == Task.n
           us == ForTasks(x)
           ts == us \o <<Make(x)>>
<1>1. todo # <<>> /\ Task.do = "lower" /\ x.k = "for" /\ Expand(ts)
  BY DEF LowerFor, TakeNode, Take
<1>2. ASSUME NEW p \in Point, NEW q \in Point, Effect(Task, p, q)
      PROVE  Job(Len(tc.symbols), ts, p, q)
  <2>1. q = More(p, 1) /\ x \in AstStmt /\ p.scopes >= 2
    BY <1>1, <1>2, StmtTask
  <2> HIDE DEF x
  <2>2. IsSequence(x.args) /\ Len(x.args) = 4
    BY <1>1, <2>1, ForParts
  <2>3. NewTask(Len(tc.symbols), Make(x))
    BY <1>1, <2>2, MakeTask, MadeKindIs
  <2>4. Job(Len(tc.symbols), us, p, More(p, 4))
    BY <1>1, <2>1, ForJob
  <2> HIDE DEF us
  <2>5. Job(Len(tc.symbols), us, p, More(p, Len(x.args))) /\ Len(x.args) \in Nat
    BY <2>2, <2>4
  <2> QED
    BY <2>1, <2>3, <2>5, MakeJob
<1> HIDE DEF ts
<1> QED
  BY <1>1, <1>2, Expanded

LEMMA StepReturn == ASSUME Inv, LowerReturn PROVE Inv'
<1> DEFINE x == Task.n
           tys == tc.current_return_type
           ts == Each(x.args) \o [i \in DOMAIN tys |-> Convert(tys[i])] \o <<Make(x)>>
<1>1. todo # <<>> /\ Task.do = "lower" /\ x.k = "return" /\ x.args # <<>> /\ Expand(ts)
  BY DEF LowerReturn, TakeNode, Take
<1>2. IsSequence(tys)
  BY TcElim DEF Inv
<1>3. ASSUME NEW p \in Point, NEW q \in Point, Effect(Task, p, q)
      PROVE  Job(Len(tc.symbols), ts, p, q)
  <2>1. q = More(p, 1) /\ x \in AstStmt /\ IsStmt(x)
    BY <1>1, <1>3, StmtTask
  <2>2. IsOptional(x.args, AstExpr)
    BY <1>1, <2>1 DEF IsStmt
  <2> HIDE DEF x, tys
  <2>3. IsSequence(x.args)
    BY <2>2, OptionalIs
  <2>4. NewTask(Len(tc.symbols), Make(x))
    BY <1>1, <2>3, MakeTask, MadeKindIs
  <2> QED
    BY <1>1, <1>2, <2>1, <2>2, <2>4, ReturnJob
<1> HIDE DEF ts
<1> QED
  BY <1>1, <1>3, Expanded

LEMMA StepLocal == ASSUME Inv, LowerLocal PROVE Inv'
<1> DEFINE x == Task.n
           ts == LocalTasks(x)
<1>1. todo # <<>> /\ Task.do = "lower" /\ x.k = "var" /\ Expand(ts)
  BY DEF LowerLocal, TakeNode, Take
<1>2. ASSUME NEW p \in Point, NEW q \in Point, Effect(Task, p, q)
      PROVE  Job(Len(tc.symbols), ts, p, q)
  <2>1. q = More(p, 1) /\ x \in AstStmt /\ IsStmt(x) /\ p.scopes >= 2
    BY <1>1, <1>2, StmtTask
  <2>2. IsOptional(x.args, AstExpr)
    BY <1>1, <2>1 DEF IsStmt
  <2> HIDE DEF x
  <2> QED
    BY <2>1, <2>2, LocalJob
<1> HIDE DEF ts
<1> QED
  BY <1>1, <1>2, Expanded

LEMMA StepParen == ASSUME Inv, LowerParen PROVE Inv'
<1> DEFINE x == Task.n
           ts == Each(x.args)
<1>1. todo # <<>> /\ Task.do = "lower" /\ x.k = "paren" /\ Expand(ts)
  BY DEF LowerParen, TakeNode, Take
<1>2. ASSUME NEW p \in Point, NEW q \in Point, Effect(Task, p, q)
      PROVE  Job(Len(tc.symbols), ts, p, q)
  <2>1. /\ q = More(p, 1) /\ x \in AstExpr /\ IsSequence(x.args)
        /\ \A i \in 1 .. Len(x.args) : x.args[i] \in AstExpr
    BY <1>1, <1>2, ExprTask, ExprKindIs
  <2>2. Len(x.args) = 1
    BY <1>1, <2>1, ArityIs
  <2> HIDE DEF x
  <2>3. \A i \in 1 .. Len(x.args) : CanLower(x.args[i], p.scopes)
    BY <2>1 DEF CanLower
  <2>4. Job(Len(tc.symbols), ts, p, More(p, Len(x.args)))
    BY <2>1, <2>3, EachJob
  <2> QED
    BY <2>1, <2>2, <2>4
<1> HIDE DEF ts
<1> QED
  BY <1>1, <1>2, Expanded

LEMMA StepParts == ASSUME Inv, LowerParts PROVE Inv'
<1> DEFINE x == Task.n
           ts == Each(x.args) \o <<Make(x)>>
<1>1. /\ todo # <<>> /\ Task.do = "lower" /\ Expand(ts)
      /\ x.k \in {"expr", "decl", "unary", "postfix", "binary", "index", "cast", "sizeof", "comma"}
  BY DEF LowerParts, TakeNode, Take
<1>2. ASSUME NEW p \in Point, NEW q \in Point, Effect(Task, p, q)
      PROVE  Job(Len(tc.symbols), ts, p, q)
  <2>1. /\ q = More(p, 1) /\ IsSequence(x.args)
        /\ \A i \in 1 .. Len(x.args) : CanLower(x.args[i], p.scopes)
        /\ x.k = "unary" => x.what \in UnaryOps
    <3>1. CASE x.k \in {"expr", "decl"}
      <4>1. q = More(p, 1) /\ IsStmt(x) /\ p.scopes >= 2
        BY <1>1, <1>2, <3>1, StmtTask
      <4>2. x.k = "expr" => x.args \in Seq(AstExpr)
        BY <4>1 DEF IsStmt
      <4>3. x.k = "decl" => x.args \in Seq(AstStmt)
        BY <4>1 DEF IsStmt
      <4> HIDE DEF x
      <4>4. CASE x.k = "expr"
        <5> HIDE DEF AstExpr
        <5> QED
          BY <4>1, <4>2, <4>4, SequenceIntro, ElementOfSeq DEF CanLower
      <4>5. CASE x.k = "decl"
        <5> HIDE DEF AstStmt
        <5> QED
          BY <4>1, <4>3, <4>5, SequenceIntro, ElementOfSeq DEF CanLower
      <4> QED
        BY <3>1, <4>4, <4>5
    <3>2. CASE x.k \notin {"expr", "decl"}
      <4>1. /\ q = More(p, 1) /\ x \in AstExpr /\ IsSequence(x.args)
            /\ \A i \in 1 .. Len(x.args) : x.args[i] \in AstExpr
        BY <1>1, <1>2, <3>2, ExprTask, ExprKindIs
      <4> HIDE DEF x
      <4> QED
        BY <4>1, ArityIs DEF CanLower
    <3> QED
      BY <3>1, <3>2
  <2> HIDE DEF x
  <2>2. NewTask(Len(tc.symbols), Make(x))
    BY <1>1, <2>1, MakeTask, MadeKindIs
  <2> QED
    BY <2>1, <2>2, PartsJob
<1> HIDE DEF ts
<1> QED
  BY <1>1, <1>2, Expanded

LEMMA StepAssign == ASSUME Inv, LowerAssign PROVE Inv'
<1> DEFINE x == Task.n
           n == Len(tc.symbols)
           a == x.args[1]
           b == x.args[2]
           ts == <<Lower(a), CheckLvalue, Lower(b), Make(x)>>
<1>1. todo # <<>> /\ Task.do = "lower" /\ x.k = "assign" /\ Expand(ts)
  BY DEF LowerAssign, TakeNode, Take
<1>2. ASSUME NEW p \in Point, NEW q \in Point, Effect(Task, p, q)
      PROVE  Job(n, ts, p, q)
  <2>1. /\ q = More(p, 1) /\ x \in AstExpr /\ IsSequence(x.args)
        /\ \A i \in 1 .. Len(x.args) : x.args[i] \in AstExpr
    BY <1>1, <1>2, ExprTask, ExprKindIs
  <2>2. Len(x.args) = 2
    BY <1>1, <2>1, ArityIs
  <2> HIDE DEF x
  <2>3. a \in AstExpr /\ b \in AstExpr
    BY <2>1, <2>2
  <2> HIDE DEF a, b, n
  <2> DEFINE r == More(p, 1)
             s == More(p, 2)
  <2>4. /\ r \in Point /\ s \in Point /\ r.height >= 1 /\ s = More(r, 1)
        /\ r.height = p.height + 1 /\ s.height = p.height + 2 /\ p.height \in Nat
        /\ s.scopes = p.scopes /\ s.loops = p.loops /\ s.body = p.body
    <3>1. /\ r \in Point /\ r.height = p.height + 1 /\ More(r, 1) = More(p, 1 + 1)
          /\ s \in Point /\ s.height = p.height + 2
          /\ s.scopes = p.scopes /\ s.loops = p.loops /\ s.body = p.body
      BY MorePoint
    <3>2. p.height \in Nat /\ p.height + 1 >= 1 /\ 1 + 1 = 2
      BY PointIs
    <3> QED
      BY <3>1, <3>2
  <2>5. r = At(s, s.height - 2 + 1) /\ 2 <= s.height
    <3>1. s.height - 2 + 1 = p.height + 1 /\ 2 <= s.height
      BY <2>4
    <3> HIDE DEF s
    <3> QED
      BY <2>4, <3>1 DEF More, At
  <2>6. Effect(Lower(a), p, r)
    BY <2>3, EffectOfTask DEF CanLower
  <2> HIDE DEF r, s
  <2>7. Effect(CheckLvalue, r, r) /\ Effect(Lower(b), r, s)
    BY <2>3, <2>4, EffectOfTask DEF CanLower
  <2>8. Effect(Make(x), s, r)
    <3>1. Len(x.args) <= s.height /\ r = At(s, s.height - Len(x.args) + 1)
      BY <2>2, <2>5
    <3> QED
      BY <3>1, EffectOfTask
  <2>9. NewTask(n, Make(x))
    BY <1>1, <2>1, MakeTask, MadeKindIs
  <2>10. NewTask(n, Lower(a)) /\ NewTask(n, CheckLvalue) /\ NewTask(n, Lower(b))
    BY NewTasks
  <2>11. Job(n, <<Lower(a), CheckLvalue, Lower(b), Make(x)>>, p, r)
    BY <2>4, <2>6, <2>7, <2>8, <2>9, <2>10, JobFour
  <2> QED
    BY <2>1, <2>11 DEF r
<1> HIDE DEF ts
<1> QED
  BY <1>1, <1>2, Expanded

LEMMA StepCall == ASSUME Inv, LowerCall PROVE Inv'
<1> DEFINE x == Task.n
           n == Len(tc.symbols)
           ts == <<Lower(x.args[1]), CallArgs(x)>>
<1>1. todo # <<>> /\ Task.do = "lower" /\ x.k = "call" /\ Expand(ts)
  BY DEF LowerCall, TakeNode, Take
<1>2. ASSUME NEW p \in Point, NEW q \in Point, Effect(Task, p, q)
      PROVE  Job(n, ts, p, q)
  <2>1. /\ q = More(p, 1) /\ x \in AstExpr /\ IsSequence(x.args)
        /\ \A i \in 1 .. Len(x.args) : x.args[i] \in AstExpr
    BY <1>1, <1>2, ExprTask, ExprKindIs
  <2>2. x.args # <<>>
    BY <1>1, <2>1, ArityIs
  <2> HIDE DEF x
  <2>3. x.args[1] \in AstExpr
    BY <2>1, <2>2, SequenceElim
  <2>4. q.height >= 1
    <3>1. q.height = p.height + 1
      <4>1. 1 \in Nat
        OBVIOUS
      <4>2. More(p, 1).height = p.height + 1
        BY <4>1, MorePoint
      <4> QED
        BY <2>1, <4>2
    <3>2. p.height \in Nat
      BY PointIs
    <3> QED
      BY <3>1, <3>2
  <2>5. Effect(Lower(x.args[1]), p, q) /\ Effect(CallArgs(x), q, q)
    BY <2>1, <2>3, <2>4, EffectOfTask DEF CanLower
  <2>6. NewTask(n, Lower(x.args[1])) /\ NewTask(n, CallArgs(x))
    BY <1>1, <2>1, NewTasks
  <2> QED
    BY <2>5, <2>6, JobTwo
<1> HIDE DEF ts
<1> QED
  BY <1>1, <1>2, Expanded

-----------------------------------------------------------------------------
(* Actions that make one value.                                               *)

LEMMA FreshValue ==
  ASSUME NEW p \in Point, NEW q, q = More(p, 1)
  PROVE  0 <= p.height /\ q = At(p, p.height - 0 + 1)
<1>1. p.height \in Nat /\ 0 <= p.height /\ p.height - 0 + 1 = p.height + 1
  BY PointIs
<1> QED
  BY <1>1 DEF More

\* The last value is replaced.
LEMMA SameHeight ==
  ASSUME NEW p \in Point, p.height >= 1
  PROVE  1 <= p.height /\ p = At(p, p.height - 1 + 1)
<1>1. p.height \in Nat /\ 1 <= p.height /\ p.height - 1 + 1 = p.height
  BY PointIs
<1>2. p = At(p, p.height)
  BY PointIs DEF At
<1> QED
  BY <1>1, <1>2

LEMMA StepReturnVoid == ASSUME Inv, LowerReturnVoid PROVE Inv'
<1> DEFINE x == Task.n
           errors == ErrorIf(\E t \in Range(tc.current_return_type) : t # VoidType, "E0403")
<1>1. todo # <<>> /\ Task.do = "lower" /\ x.k = "return" /\ Yield(0, x, errors)
  BY DEF LowerReturnVoid, TakeNode, Take
<1>2. ASSUME NEW p \in Point, NEW q \in Point, Effect(Task, p, q)
      PROVE  0 <= p.height /\ q = At(p, p.height - 0 + 1)
  BY <1>1, <1>2, LoweredIs, FreshValue
<1>3. ValueOK(Len(tc.symbols), x)
  BY <1>1 DEF ValueOK
<1> HIDE DEF errors
<1> QED
  BY <1>1, <1>2, <1>3, Yielded

LEMMA StepJump == ASSUME Inv, LowerJump PROVE Inv'
<1> DEFINE x == Task.n
           errors == ErrorIf(tc.loop_depth = 0, "E0405")
<1>1. todo # <<>> /\ Task.do = "lower" /\ x.k \in {"break", "continue"} /\ Yield(0, x, errors)
  BY DEF LowerJump, TakeNode, Take
<1>2. ASSUME NEW p \in Point, NEW q \in Point, Effect(Task, p, q)
      PROVE  0 <= p.height /\ q = At(p, p.height - 0 + 1)
  BY <1>1, <1>2, LoweredIs, FreshValue
<1>3. ValueOK(Len(tc.symbols), x)
  BY <1>1 DEF ValueOK
<1> HIDE DEF errors
<1> QED
  BY <1>1, <1>2, <1>3, Yielded

LEMMA StepEmpty == ASSUME Inv, LowerEmpty PROVE Inv'
<1> DEFINE x == Task.n
<1>1. todo # <<>> /\ Task.do = "lower" /\ x.k = "empty" /\ Yield(0, x, <<>>)
  BY DEF LowerEmpty, TakeNode, Take
<1>2. ASSUME NEW p \in Point, NEW q \in Point, Effect(Task, p, q)
      PROVE  0 <= p.height /\ q = At(p, p.height - 0 + 1)
  BY <1>1, <1>2, LoweredIs, FreshValue
<1>3. ValueOK(Len(tc.symbols), x)
  BY <1>1 DEF ValueOK
<1> QED
  BY <1>1, <1>2, <1>3, Yielded

LEMMA StepLiteral == ASSUME Inv, LowerLiteral PROVE Inv'
<1> DEFINE x == Task.n
           y == [x EXCEPT !.ty = LiteralType(x)]
<1>1. /\ todo # <<>> /\ Task.do = "lower" /\ Yield(0, y, <<>>)
      /\ x.k \in {"int_lit", "float_lit", "char_lit", "string_lit"}
  BY DEF LowerLiteral, TakeNode, Take
<1>2. ASSUME NEW p \in Point, NEW q \in Point, Effect(Task, p, q)
      PROVE  0 <= p.height /\ q = At(p, p.height - 0 + 1)
  BY <1>1, <1>2, LoweredIs, FreshValue
<1>3. PICK p \in Point, q \in Point : Effect(Task, p, q)
  BY <1>1, Now
<1>4. IsNode(x)
  BY <1>1, <1>3, ExprTask, ExprKindIs DEF IsExpr
<1>5. ValueOK(Len(tc.symbols), y)
  <2> DEFINE ty == LiteralType(x)
  <2>1. x = [k |-> x.k, what |-> x.what, args |-> x.args, ty |-> x.ty]
    BY <1>4 DEF IsNode, N
  <2> HIDE DEF x, ty
  <2>2. y.k = x.k
    BY <2>1
  <2> QED
    BY <1>1, <2>2 DEF ValueOK
<1> HIDE DEF y
<1> QED
  BY <1>1, <1>2, <1>5, Yielded

LEMMA StepIdent == ASSUME Inv, LowerIdent PROVE Inv'
<1> DEFINE x == Task.n
           found == Lookup(tc, x.what)
           y == IF found = <<>> THEN ErrorNode
                ELSE N("ref", found[1], <<>>, tc.symbols[found[1]].ty)
           errors == IF found = <<>> THEN <<"E0401">> ELSE <<>>
<1>1. todo # <<>> /\ Task.do = "lower" /\ x.k = "ident" /\ Yield(0, y, errors)
  <2>1. /\ todo # <<>> /\ Task.do = "lower" /\ x.k = "ident"
        /\ IF found = <<>> THEN Yield(0, ErrorNode, <<"E0401">>)
           ELSE Yield(0, N("ref", found[1], <<>>, tc.symbols[found[1]].ty), <<>>)
    BY DEF LowerIdent, TakeNode, Take
  <2>2. CASE found = <<>>
    BY <2>1, <2>2
  <2>3. CASE found # <<>>
    BY <2>1, <2>3
  <2> QED
    BY <2>2, <2>3
<1>2. ASSUME NEW p \in Point, NEW q \in Point, Effect(Task, p, q)
      PROVE  0 <= p.height /\ q = At(p, p.height - 0 + 1)
  BY <1>1, <1>2, LoweredIs, FreshValue
<1>3. TcOK(tc)
  BY DEF Inv
<1>4. ValueOK(Len(tc.symbols), y)
  <2>1. CASE found = <<>>
    <3>1. y = ErrorNode
      BY <2>1
    <3>2. ErrorNode.k = "error"
      BY DEF ErrorNode, N
    <3> HIDE DEF y
    <3> QED
      BY <3>1, <3>2 DEF ValueOK
  <2>2. CASE found # <<>>
    <3>1. PICK id \in 1 .. Len(tc.symbols) : found = <<id>>
      BY <1>3, <2>2, LookupIs
    <3>2. found[1] = id
      BY <3>1
    <3> DEFINE ty == tc.symbols[found[1]].ty
    <3>3. y = N("ref", found[1], <<>>, ty)
      BY <2>2
    <3> HIDE DEF y, found, ty
    <3>4. y.what = id
      BY <3>2, <3>3 DEF N
    <3> QED
      BY <3>4 DEF ValueOK
  <2> QED
    BY <2>1, <2>2
<1> HIDE DEF y, errors
<1> QED
  BY <1>1, <1>2, <1>4, Yielded

LEMMA StepMember == ASSUME Inv, LowerMember PROVE Inv'
<1>1. todo # <<>> /\ Task.do = "lower" /\ Yield(0, ErrorNode, <<"E0405">>)
  BY DEF LowerMember, TakeNode, Take
<1>2. ASSUME NEW p \in Point, NEW q \in Point, Effect(Task, p, q)
      PROVE  0 <= p.height /\ q = At(p, p.height - 0 + 1)
  BY <1>1, <1>2, LoweredIs, FreshValue
<1>3. ErrorNode.k = "error"
  BY DEF ErrorNode, N
<1>4. ValueOK(Len(tc.symbols), ErrorNode)
  BY <1>3 DEF ValueOK
<1> QED
  BY <1>1, <1>2, <1>4, Yielded

LEMMA StepMake == ASSUME Inv, MakeNode PROVE Inv'
<1> DEFINE x == Task.n
           parts == Len(x.args)
           made == Made(x, TopValues(parts))
           y == made.x
           errors == made.errors
<1>1. todo # <<>> /\ Task.do = "make" /\ Yield(parts, y, errors)
  BY DEF MakeNode, Take
<1>2. TaskOK(Len(tc.symbols), Task)
  BY <1>1, Now
<1>3. /\ IsSequence(x.args) /\ x.k \in MadeKinds
      /\ x.k = "unary" => x.what \in UnaryOps
  BY <1>1, <1>2 DEF TaskOK
<1>4. parts \in Nat
  BY <1>3, SequenceElim
<1>5. y.k \notin {"ref", "fn", "var"}
  <2> HIDE DEF x
  <2> QED
    BY <1>3, MadeIs
<1>6. ASSUME NEW p \in Point, NEW q \in Point, Effect(Task, p, q)
      PROVE  parts <= p.height /\ q = At(p, p.height - parts + 1)
  BY <1>1, <1>6, TaskEffect
<1> HIDE DEF parts, y, errors
<1>7. ValueOK(Len(tc.symbols), y)
  BY <1>5 DEF ValueOK
<1> QED
  BY <1>1, <1>4, <1>6, <1>7, Yielded

-----------------------------------------------------------------------------
(* Actions on the last value.                                                 *)

LEMMA TopTask ==
  ASSUME Inv, todo # <<>>,
         Task.do \in {"check_scalar", "check_lvalue", "decay", "convert", "call_args"}
  PROVE  /\ ValueOK(Len(tc.symbols), Top) /\ ValueOK(Len(tc.symbols), Decayed(Top))
         /\ \A t : ValueOK(Len(tc.symbols), ConvertTo(Top, t).x)
         /\ Len(vals) >= 1
         /\ \A p, q \in Point : Effect(Task, p, q) => 1 <= p.height /\ q = At(p, p.height - 1 + 1)
<1>1. PICK p \in Point, q \in Point : Stands(tc, vals, p) /\ Effect(Task, p, q)
  BY Now
<1>2. p.height >= 1
  BY <1>1, TaskEffect
<1>3. p.height <= Len(vals) /\ ValuesOK(Len(tc.symbols), vals)
  BY <1>1 DEF Stands, Inv
<1>4. Len(vals) \in Nat /\ p.height \in Nat
  BY <1>3, SequenceElim, PointIs DEF ValuesOK
<1>5. Len(vals) >= 1
  BY <1>2, <1>3, <1>4
<1>6. ValueOK(Len(tc.symbols), Top)
  BY <1>3, <1>5, TopIs DEF Top
<1>7. ValueOK(Len(tc.symbols), Decayed(Top)) /\ \A t : ValueOK(Len(tc.symbols), ConvertTo(Top, t).x)
  BY <1>6, ConvertedOK
<1>8. ASSUME NEW a \in Point, NEW b \in Point, Effect(Task, a, b)
      PROVE  1 <= a.height /\ b = At(a, a.height - 1 + 1)
  <2>1. a.height >= 1 /\ b = a
    BY <1>8, TaskEffect
  <2> QED
    BY <2>1, SameHeight
<1> QED
  BY <1>5, <1>6, <1>7, <1>8

LEMMA StepTop ==
  ASSUME Inv, ScalarAction \/ LvalueAction \/ DecayAction \/ ConvertAction
  PROVE  Inv'
<1>1. CASE ScalarAction
  <2> DEFINE x == Decayed(Top)
             errors == ErrorIf(~IsScalar(x.ty) /\ ~IsError(x.ty), "E0405")
  <2>1. todo # <<>> /\ Task.do = "check_scalar" /\ Yield(1, x, errors)
    BY <1>1 DEF ScalarAction, Take
  <2>2. ValueOK(Len(tc.symbols), x)
    BY <2>1, TopTask
  <2>3. \A p, q \in Point : Effect(Task, p, q) => 1 <= p.height /\ q = At(p, p.height - 1 + 1)
    BY <2>1, TopTask
  <2> HIDE DEF x, errors
  <2> QED
    BY <2>1, <2>2, <2>3, Yielded
<1>2. CASE LvalueAction
  <2> DEFINE errors == ErrorIf(~IsLvalue(Top), "E0406")
  <2>1. todo # <<>> /\ Task.do = "check_lvalue" /\ Yield(1, Top, errors)
    BY <1>2 DEF LvalueAction, Take
  <2>2. ValueOK(Len(tc.symbols), Top)
    BY <2>1, TopTask
  <2>3. \A p, q \in Point : Effect(Task, p, q) => 1 <= p.height /\ q = At(p, p.height - 1 + 1)
    BY <2>1, TopTask
  <2> HIDE DEF errors
  <2> QED
    BY <2>1, <2>2, <2>3, Yielded
<1>3. CASE DecayAction
  <2> DEFINE x == Decayed(Top)
  <2>1. todo # <<>> /\ Task.do = "decay" /\ Yield(1, x, <<>>)
    BY <1>3 DEF DecayAction, Take
  <2>2. ValueOK(Len(tc.symbols), x)
    BY <2>1, TopTask
  <2>3. \A p, q \in Point : Effect(Task, p, q) => 1 <= p.height /\ q = At(p, p.height - 1 + 1)
    BY <2>1, TopTask
  <2> HIDE DEF x
  <2> QED
    BY <2>1, <2>2, <2>3, Yielded
<1>4. CASE ConvertAction
  <2> DEFINE r == ConvertTo(Top, Task.ty)
             x == r.x
             errors == r.errors
  <2>1. todo # <<>> /\ Task.do = "convert" /\ Yield(1, x, errors)
    BY <1>4 DEF ConvertAction, Take
  <2>2. ValueOK(Len(tc.symbols), x)
    BY <2>1, TopTask
  <2>3. \A p, q \in Point : Effect(Task, p, q) => 1 <= p.height /\ q = At(p, p.height - 1 + 1)
    BY <2>1, TopTask
  <2> HIDE DEF x, errors
  <2> QED
    BY <2>1, <2>2, <2>3, Yielded
<1> QED
  BY <1>1, <1>2, <1>3, <1>4

LEMMA StepNotAFunction == ASSUME Inv, NotAFunction PROVE Inv'
<1> DEFINE t == Decayed(Top).ty
           errors == ErrorIf(~IsError(t), "E0405")
<1>1. todo # <<>> /\ Task.do = "call_args" /\ Yield(1, ErrorNode, errors)
  BY DEF NotAFunction, Take
<1>2. ErrorNode.k = "error"
  BY DEF ErrorNode, N
<1>3. ValueOK(Len(tc.symbols), ErrorNode)
  BY <1>2 DEF ValueOK
<1>4. \A p, q \in Point : Effect(Task, p, q) => 1 <= p.height /\ q = At(p, p.height - 1 + 1)
  BY <1>1, TopTask
<1> HIDE DEF errors
<1> QED
  BY <1>1, <1>3, <1>4, Yielded

\* The arguments, and then the call in place of its callee.
LEMMA CallJob ==
  ASSUME NEW n, NEW x \in AstExpr, x.k = "call", NEW params, NEW p \in Point, p.height >= 1
  PROVE  Job(n, ArgTasks(Tail(x.args), params) \o <<Make(x)>>, p, p)
<1> DEFINE args == Tail(x.args)
           k == Len(x.args)
           q == More(p, Len(args))
           ts == ArgTasks(args, params)
<1>1. IsSequence(x.args) /\ x.args # <<>> /\ \A i \in 1 .. k : x.args[i] \in AstExpr
  BY ExprIs, ArityIs
<1>2. /\ IsSequence(args) /\ Len(args) = k - 1 /\ k \in Nat \ {0}
      /\ \A i \in 1 .. k - 1 : args[i] = x.args[i + 1]
  BY <1>1, SequenceTail
<1> HIDE DEF args
<1>3. \A i \in 1 .. Len(args) : args[i] \in AstExpr
  <2>1. \A i \in 1 .. k - 1 : i + 1 \in 1 .. k
    BY <1>2
  <2> HIDE DEF k
  <2> QED
    BY <1>1, <1>2, <2>1
<1>4. Job(n, ts, p, q)
  BY <1>2, <1>3, ArgsJob
<1> HIDE DEF ts
<1>5. Len(args) \in Nat /\ p.height \in Nat
  BY <1>2, PointIs
<1>6. q \in Point /\ q.height = p.height + Len(args) /\ q.scopes = p.scopes
      /\ q.loops = p.loops /\ q.body = p.body
  BY <1>5, MorePoint
<1> HIDE DEF q
<1>7. k <= q.height /\ p = At(q, q.height - k + 1)
  <2> HIDE DEF k
  <2>1. k <= q.height /\ q.height - k + 1 = p.height
    BY <1>2, <1>5, <1>6
  <2>2. p = Pt(p.height, p.scopes, p.loops, p.body)
    BY PointIs
  <2> QED
    BY <1>6, <2>1, <2>2 DEF At
<1>8. Effect(Make(x), q, p)
  BY <1>7, EffectOfTask
<1>9. NewTask(n, Make(x))
  BY <1>1, MakeTask, MadeKindIs
<1>10. Job(n, <<Make(x)>>, q, p)
  BY <1>6, <1>8, <1>9, JobOne
<1>11. Job(n, ts \o <<Make(x)>>, p, p)
  BY <1>4, <1>10, JobConcat
<1> QED
  BY <1>11 DEF ts, args

LEMMA StepArgs == ASSUME Inv, LowerArgs PROVE Inv'
<1> DEFINE x == Task.n
           n == Len(tc.symbols)
           callee == Decayed(Top)
           called == Callable(callee.ty)
           ts == ArgTasks(Tail(x.args), Tail(called[1].of)) \o <<Make(x)>>
           m == Error(tc, ArityErrors(Tail(x.args), called[1]))
           w == Append(SubSeq(vals, 1, Len(vals) - 1), callee)
<1>1. /\ todo # <<>> /\ Task.do = "call_args" /\ vals' = w /\ tc' = m /\ Then(ts)
      /\ module' = module
  BY DEF LowerArgs, Take, Below
<1>2. PICK p \in Point, q \in Point :
        Stands(tc, vals, p) /\ Effect(Task, p, q) /\ Runs(Tail(todo), q, Rest)
  BY <1>1, Now
<1>3. p.height >= 1 /\ q = p
  BY <1>1, <1>2, TaskEffect
<1>4. TaskOK(n, Task)
  BY <1>1, Now
<1>5. x \in AstExpr /\ x.k = "call"
  BY <1>1, <1>4 DEF TaskOK
<1>6. Job(n, ts, p, p)
  <2> HIDE DEF x, called, n
  <2> QED
    BY <1>3, <1>5, CallJob
<1>7. ValueOK(n, callee) /\ Len(vals) >= 1
  BY <1>1, TopTask
<1>8. TcOK(tc) /\ ValuesOK(n, vals)
  BY DEF Inv
<1>9. TcOK(m) /\ SameTc(tc, m)
  BY <1>8, ErrorKeeps
<1>10. n \in Nat /\ Len(vals) \in Nat /\ 1 <= Len(vals) /\ 1 \in Nat
  BY <1>7, <1>8, TcElim, SequenceElim DEF ValuesOK
<1> HIDE DEF m, callee, ts
<1>11. /\ ValuesOK(n, w) /\ Len(w) = Len(vals) - 1 + 1
       /\ \A i \in 1 .. Len(vals) - 1 : w[i] = vals[i]
  <2> DEFINE k == 1
             u == Append(SubSeq(vals, 1, Len(vals) - k), callee)
  <2>1. k \in Nat /\ k <= Len(vals)
    BY <1>10
  <2> HIDE DEF n, k
  <2>2. /\ ValuesOK(n, u) /\ Len(u) = Len(vals) - k + 1
        /\ \A i \in 1 .. Len(vals) - k : u[i] = vals[i]
    BY <1>7, <1>8, <2>1, Replaced
  <2> QED
    BY <2>2 DEF k
<1> HIDE DEF w
<1>12. Len(m.symbols) = n /\ m.scopes = tc.scopes /\ n <= n
  BY <1>9, <1>10 DEF SameTc
<1>13. Stands(m, w, p)
  <2>1. /\ Len(tc.scopes) = p.scopes /\ tc.loop_depth = p.loops
        /\ tc.current_return_type # <<>> => p.body
        /\ p.height <= Len(vals) /\ \A i \in 1 .. Len(vals) - p.height : IsDeclaration(vals[i])
    BY <1>2 DEF Stands
  <2> DEFINE a == p.height
             b == Len(vals)
  <2>2. a \in Nat /\ b \in Nat /\ a >= 1
    BY <1>3, <1>10, PointIs
  <2>3. Len(w) = b
    <3> HIDE DEF a
    <3>1. b - 1 + 1 = b
      BY <2>2
    <3> HIDE DEF b
    <3> QED
      BY <1>11, <3>1 DEF b
  <2> HIDE DEF a, b
  <2>4. \A i \in 1 .. b - a : i \in 1 .. b - 1
    BY <2>2
  <2>5. \A i \in 1 .. b - a : IsDeclaration(w[i])
    BY <1>11, <2>1, <2>4 DEF a, b
  <2> QED
    BY <1>9, <2>1, <2>3, <2>5 DEF Stands, SameTc, a, b
<1> HIDE DEF n
<1>14. Len(tc.symbols) = n
  BY DEF n
<1> QED
  BY <1>1, <1>2, <1>3, <1>6, <1>9, <1>11, <1>12, <1>13, <1>14, Advance

-----------------------------------------------------------------------------
(* Scopes and loops.                                                          *)

LEMMA StepScope == ASSUME Inv, ScopeAction PROVE Inv'
<1> DEFINE n == Len(tc.symbols)
<1>1. /\ todo # <<>> /\ Task.do \in {"enter_scope", "leave_scope"} /\ Then(<<>>)
      /\ vals' = vals /\ module' = module
      /\ Task.do = "enter_scope" => tc' = PushScope(tc)
      /\ Task.do = "leave_scope" => tc' = PopScope(tc)
  BY DEF ScopeAction, Take, Update
<1>2. PICK p \in Point, q \in Point :
        Stands(tc, vals, p) /\ Effect(Task, p, q) /\ Runs(Tail(todo), q, Rest)
  BY <1>1, Now
<1>3. TcOK(tc) /\ ValuesOK(n, vals) /\ n \in Nat /\ p.scopes \in Nat
  BY TcElim, PointIs DEF Inv
<1>4. Len(tc.scopes) = p.scopes
  BY <1>2 DEF Stands
<1>5. /\ TcOK(tc') /\ tc'.symbols = tc.symbols /\ tc'.scopes[1] = tc.scopes[1]
      /\ Len(tc'.scopes) = q.scopes
      /\ tc'.current_return_type = tc.current_return_type /\ tc'.loop_depth = tc.loop_depth
      /\ q.height = p.height /\ q.loops = p.loops /\ q.body = p.body
  <2>1. CASE Task.do = "enter_scope"
    <3>1. q = Pt(p.height, p.scopes + 1, p.loops, p.body)
      BY <1>2, <2>1, TaskEffect
    <3>2. q.scopes = p.scopes + 1 /\ q.height = p.height /\ q.loops = p.loops /\ q.body = p.body
      BY <3>1 DEF Pt
    <3> DEFINE m == PushScope(tc)
    <3>3. /\ TcOK(m) /\ m.symbols = tc.symbols /\ m.scopes[1] = tc.scopes[1]
          /\ Len(m.scopes) = Len(tc.scopes) + 1
          /\ m.current_return_type = tc.current_return_type /\ m.loop_depth = tc.loop_depth
      BY <1>3, PushKeeps
    <3>4. tc' = m
      BY <1>1, <2>1
    <3> HIDE DEF m
    <3> QED
      BY <1>4, <3>2, <3>3, <3>4
  <2>2. CASE Task.do = "leave_scope"
    <3>1. p.scopes >= 2 /\ q = Pt(p.height, p.scopes - 1, p.loops, p.body)
      BY <1>2, <2>2, TaskEffect
    <3>2. q.scopes = p.scopes - 1 /\ q.height = p.height /\ q.loops = p.loops /\ q.body = p.body
      BY <3>1 DEF Pt
    <3> DEFINE m == PopScope(tc)
    <3>3. /\ TcOK(m) /\ m.symbols = tc.symbols /\ m.scopes[1] = tc.scopes[1]
          /\ Len(m.scopes) = Len(tc.scopes) - 1
          /\ m.current_return_type = tc.current_return_type /\ m.loop_depth = tc.loop_depth
      BY <1>3, <1>4, <3>1, PopKeeps
    <3>4. tc' = m
      BY <1>1, <2>2
    <3> HIDE DEF m
    <3> QED
      BY <1>4, <3>2, <3>3, <3>4
  <2> QED
    BY <1>1, <2>1, <2>2
<1>6. Stands(tc', vals', q)
  BY <1>1, <1>2, <1>5 DEF Stands
<1>7. Job(n, <<>>, q, q)
  BY JobNothing
<1>8. Len(tc'.symbols) = n /\ n <= n
  BY <1>3, <1>5
<1>9. Task.do # "declare_item"
  BY <1>1
<1> HIDE DEF n
<1>10. Len(tc.symbols) = n
  BY DEF n
<1> QED
  BY <1>1, <1>2, <1>3, <1>5, <1>6, <1>7, <1>8, <1>9, <1>10, Advance

LEMMA StepLoop == ASSUME Inv, LoopAction PROVE Inv'
<1> DEFINE n == Len(tc.symbols)
           d == IF Task.do = "enter_loop" THEN tc.loop_depth + 1 ELSE tc.loop_depth - 1
           m == [tc EXCEPT !.loop_depth = d]
<1>1. /\ todo # <<>> /\ Task.do \in {"enter_loop", "leave_loop"} /\ Then(<<>>)
      /\ vals' = vals /\ module' = module /\ tc' = m
  <2>1. CASE Take("enter_loop") /\ Update([tc EXCEPT !.loop_depth = @ + 1])
    BY <2>1 DEF Take, Update
  <2>2. CASE Take("leave_loop") /\ Update([tc EXCEPT !.loop_depth = @ - 1])
    BY <2>2 DEF Take, Update
  <2> QED
    BY <2>1, <2>2 DEF LoopAction
<1>2. PICK p \in Point, q \in Point :
        Stands(tc, vals, p) /\ Effect(Task, p, q) /\ Runs(Tail(todo), q, Rest)
  BY <1>1, Now
<1>3. TcOK(tc) /\ ValuesOK(n, vals) /\ n \in Nat
  BY TcElim DEF Inv
<1>4. tc.loop_depth = p.loops
  BY <1>2 DEF Stands
<1>5. d = q.loops /\ q.height = p.height /\ q.scopes = p.scopes /\ q.body = p.body
  <2>1. CASE Task.do = "enter_loop"
    <3>1. q = Pt(p.height, p.scopes, p.loops + 1, p.body)
      BY <1>2, <2>1, TaskEffect
    <3>2. q.scopes = p.scopes /\ q.height = p.height /\ q.loops = p.loops + 1 /\ q.body = p.body
      BY <3>1 DEF Pt
    <3> QED
      BY <1>4, <2>1, <3>2
  <2>2. CASE Task.do = "leave_loop"
    <3>1. q = Pt(p.height, p.scopes, p.loops - 1, p.body)
      BY <1>2, <2>2, TaskEffect
    <3>2. q.scopes = p.scopes /\ q.height = p.height /\ q.loops = p.loops - 1 /\ q.body = p.body
      BY <3>1 DEF Pt
    <3> QED
      BY <1>4, <2>2, <3>2
  <2> QED
    BY <1>1, <2>1, <2>2
<1> HIDE DEF d
<1>6. /\ TcOK(m) /\ m.symbols = tc.symbols /\ m.scopes = tc.scopes
      /\ m.current_return_type = tc.current_return_type /\ m.loop_depth = d
  BY <1>3, LoopKeeps
<1> HIDE DEF m
<1>7. Stands(m, vals, q)
  BY <1>2, <1>5, <1>6 DEF Stands
<1>8. Job(n, <<>>, q, q)
  BY JobNothing
<1>9. Len(m.symbols) = n /\ n <= n
  BY <1>3, <1>6
<1>10. Task.do # "declare_item"
  BY <1>1
<1> HIDE DEF n
<1>11. Len(tc.symbols) = n
  BY DEF n
<1> QED
  BY <1>1, <1>2, <1>3, <1>6, <1>7, <1>8, <1>9, <1>10, <1>11, Advance

-----------------------------------------------------------------------------
(* Declarations in functions.                                                 *)

LEMMA StepFinishLocal == ASSUME Inv, FinishLocal PROVE Inv'
<1> DEFINE x == Task.n
           n == Len(tc.symbols)
           k == Len(x.args)
           ty == LowerType(x.ty)
           m == Introduce(tc, x.what, "LocalVar", ty)
           y == N("var", NextSymbol(tc), TopValues(k), ty)
           w == Append(SubSeq(vals, 1, Len(vals) - k), y)
<1>1. /\ todo # <<>> /\ Task.do = "declare_local" /\ vals' = w /\ tc' = m /\ Then(<<>>)
      /\ module' = module
  BY DEF FinishLocal, Take, Below
<1>2. PICK p \in Point, q \in Point :
        Stands(tc, vals, p) /\ Effect(Task, p, q) /\ Runs(Tail(todo), q, Rest)
  BY <1>1, Now
<1>3. TaskOK(n, Task)
  BY <1>1, Now
<1>4. k \in Nat
  <2>1. IsSequence(x.args)
    BY <1>1, <1>3 DEF TaskOK
  <2> QED
    BY <2>1, SequenceElim
<1>5. k <= p.height /\ q = At(p, p.height - k + 1) /\ p.scopes >= 2
  BY <1>1, <1>2, TaskEffect
<1>6. TcOK(tc) /\ ValuesOK(n, vals) /\ n \in Nat
  BY TcElim DEF Inv
<1>7. Len(vals) \in Nat /\ p.height \in Nat
  BY <1>6, SequenceElim, PointIs DEF ValuesOK
<1>8. /\ Len(tc.scopes) = p.scopes /\ tc.loop_depth = p.loops
      /\ tc.current_return_type # <<>> => p.body
      /\ p.height <= Len(vals) /\ \A i \in 1 .. Len(vals) - p.height : IsDeclaration(vals[i])
  BY <1>2 DEF Stands
<1>9. /\ TcOK(m) /\ Len(m.symbols) = NextSymbol(tc) /\ Len(m.scopes) = Len(tc.scopes)
      /\ m.scopes[1] = tc.scopes[1]
      /\ m.current_return_type = tc.current_return_type /\ m.loop_depth = tc.loop_depth
  BY <1>5, <1>6, <1>8, IntroduceKeeps
<1>10. NextSymbol(tc) = n + 1
  BY DEF NextSymbol
<1>11. y.what = n + 1
  <2> DEFINE args == TopValues(k)
  <2> HIDE DEF args, ty
  <2>1. y = N("var", NextSymbol(tc), args, ty)
    BY DEF args
  <2> HIDE DEF y
  <2> QED
    BY <1>10, <2>1 DEF N
<1> HIDE DEF m, y, k, n
<1>12. ValuesOK(n + 1, vals) /\ ValueOK(n + 1, y) /\ n <= n + 1 /\ n + 1 \in Nat
  <2>1. n <= n + 1 /\ n + 1 \in 1 .. n + 1 /\ n + 1 \in Nat
    BY <1>6
  <2> QED
    BY <1>6, <1>11, <2>1, StillOK DEF ValueOK
<1>13. k <= Len(vals)
  BY <1>4, <1>5, <1>7, <1>8
<1>14. /\ ValuesOK(n + 1, w) /\ Len(w) = Len(vals) - k + 1
       /\ \A i \in 1 .. Len(vals) - k : w[i] = vals[i]
  BY <1>4, <1>12, <1>13, Replaced
<1> HIDE DEF w
<1>15. q.height <= Len(w) /\ \A i \in 1 .. Len(w) - q.height : IsDeclaration(w[i])
  <2>1. q.height = p.height - k + 1
    BY <1>5 DEF At, Pt
  <2> DEFINE a == p.height
             b == Len(vals)
             c == q.height
             d == Len(w)
  <2>2. a \in Nat /\ b \in Nat /\ a <= b /\ k <= a /\ c = a - k + 1 /\ d = b - k + 1
    BY <1>5, <1>7, <1>8, <1>14, <2>1
  <2> HIDE DEF a, b, c, d
  <2>3. c <= d /\ d - c = b - a /\ \A i \in 1 .. b - a : i \in 1 .. b - k
    BY <1>4, <2>2
  <2> QED
    BY <1>8, <1>14, <2>3 DEF a, b, c, d
<1>16. q.scopes = p.scopes /\ q.loops = p.loops /\ q.body = p.body
  BY <1>5 DEF At, Pt
<1>17. Stands(m, w, q)
  BY <1>8, <1>9, <1>15, <1>16 DEF Stands
<1>18. Job(n + 1, <<>>, q, q)
  BY JobNothing
<1>19. Len(m.symbols) = n + 1 /\ Len(tc.symbols) = n
  BY <1>9, <1>10 DEF n
<1> QED
  BY <1>1, <1>2, <1>9, <1>12, <1>14, <1>17, <1>18, <1>19, Advance

-----------------------------------------------------------------------------
(* Items.                                                                     *)

LEMMA RestIs ==
  /\ Rest \in Point /\ Rest.height = 0 /\ Rest.scopes = 1 /\ Rest.loops = 0 /\ Rest.body = FALSE
  /\ \A p : At(p, 0) = Pt(0, p.scopes, p.loops, p.body)
BY DEF Rest, Pt, Point, At

\* The tasks that end an item.
LEMMA EndTasks ==
  ASSUME NEW n, NEW h, IsNode(h), h.what \in 1 .. n, NEW k \in Nat
  PROVE  /\ h.k = "fn" => /\ NewTask(n, EndFn(h, k))
                          /\ Effect(EndFn(h, k), Pt(k, 2, 0, TRUE), Rest)
         /\ h.k = "var" => /\ NewTask(n, EndGlobal(h, k))
                           /\ Effect(EndGlobal(h, k), More(Rest, k), Rest)
<1>1. ASSUME h.k = "fn"
      PROVE  NewTask(n, EndFn(h, k)) /\ Effect(EndFn(h, k), Pt(k, 2, 0, TRUE), Rest)
  <2> DEFINE t == EndFn(h, k)
  <2>1. t.do = "end_fn" /\ t.n = h /\ t.parts = k
    BY DEF EndFn
  <2> HIDE DEF t
  <2>2. NewTask(n, t)
    BY <1>1, <2>1 DEF NewTask, TaskOK
  <2>3. Effect(t, Pt(k, 2, 0, TRUE), Rest)
    BY <2>1 DEF Effect
  <2> QED
    BY <2>2, <2>3 DEF t
<1>2. ASSUME h.k = "var"
      PROVE  NewTask(n, EndGlobal(h, k)) /\ Effect(EndGlobal(h, k), More(Rest, k), Rest)
  <2> DEFINE t == EndGlobal(h, k)
  <2>1. t.do = "end_global" /\ t.n = h /\ t.parts = k
    BY DEF EndGlobal
  <2> HIDE DEF t
  <2>2. NewTask(n, t)
    BY <1>2, <2>1 DEF NewTask, TaskOK
  <2>3. Effect(t, More(Rest, k), Rest)
    BY <2>1 DEF Effect
  <2> QED
    BY <2>2, <2>3 DEF t
<1> QED
  BY <1>1, <1>2

\* An item has been declared by the time it is lowered.
LEMMA ItemTask ==
  ASSUME Inv, todo # <<>>, Task.do = "lower_item"
  PROVE  /\ IsItem(Task.n)
         /\ \E id \in 1 .. Len(tc.symbols) : Lookup(tc, Task.n.what) = <<id>>
         /\ SymbolOf(Task.n) \in 1 .. Len(tc.symbols)
         /\ \A p, q : Effect(Task, p, q) => p = Rest /\ q = Rest
<1> DEFINE x == Task.n
<1>1. TcOK(tc) /\ TaskOK(Len(tc.symbols), Task) /\ Len(todo) \in Nat \ {0} /\ Task = todo[1]
  BY Now DEF Inv
<1>2. IsItem(x)
  BY <1>1 DEF TaskOK
<1>3. DOMAIN tc.scopes[1] = Names
  BY NoneToDeclare
<1>4. x.what \in Names
  <2>1. 1 \in 1 .. Len(todo)
    BY <1>1
  <2>2. todo[1].do = "lower_item" => todo[1].n.what \in Names
    BY <2>1 DEF Inv, FirstPass
  <2> QED
    BY <1>1, <2>2
<1>5. 1 \in 1 .. Len(tc.scopes)
  <2>1. Len(tc.scopes) \in Nat \ {0}
    BY <1>1, TcElim
  <2> QED
    BY <2>1
<1>6. PICK id \in 1 .. Len(tc.symbols) : Lookup(tc, x.what) = <<id>>
  BY <1>1, <1>3, <1>4, <1>5, LookupIs
<1>7. <<id>>[1] = id
  OBVIOUS
<1>8. SymbolOf(x) = id
  BY <1>6, <1>7 DEF SymbolOf
<1>9. \A p, q : Effect(Task, p, q) => p = Rest /\ q = Rest
  BY TaskEffect
<1> QED
  BY <1>2, <1>6, <1>8, <1>9

LEMMA StepSkipFn == ASSUME Inv, SkipFn PROVE Inv'
<1>1. todo # <<>> /\ Task.do = "lower_item" /\ Expand(<<>>)
  BY DEF SkipFn, Take
<1>2. ASSUME NEW p \in Point, NEW q \in Point, Effect(Task, p, q)
      PROVE  Job(Len(tc.symbols), <<>>, p, q)
  BY <1>1, <1>2, ItemTask, JobNothing
<1> QED
  BY <1>1, <1>2, Expanded

LEMMA StepLowerGlobal == ASSUME Inv, LowerGlobal PROVE Inv'
<1> DEFINE x == Task.n
           n == Len(tc.symbols)
           sym == SymbolOf(x)
           ty == tc.symbols[sym].ty
           k == Len(x.args)
           h == N("var", sym, <<>>, ty)
           us == Each(x.args) \o (IF x.args = <<>> THEN <<>> ELSE <<Convert(ty)>>)
           ts == us \o <<EndGlobal(h, k)>>
<1>1. todo # <<>> /\ Task.do = "lower_item" /\ x.k = "var" /\ Expand(ts)
  BY DEF LowerGlobal, Take
<1>2. IsItem(x) /\ sym \in 1 .. n
  BY <1>1, ItemTask
<1>3. IsOptional(x.args, AstExpr)
  BY <1>1, <1>2 DEF IsItem
<1>4. k \in Nat
  BY <1>3, OptionalIs, SequenceElim
<1>5. IsNode(h) /\ h.k = "var" /\ h.what = sym
  BY DEF N, IsNode
<1>6. Job(n, us, Rest, More(Rest, k))
  BY <1>3, InitialiserJob, RestIs
<1>7. NewTask(n, EndGlobal(h, k)) /\ Effect(EndGlobal(h, k), More(Rest, k), Rest)
  <2> HIDE DEF h, k, sym, n
  <2> QED
    BY <1>2, <1>4, <1>5, EndTasks
<1>8. More(Rest, k) \in Point /\ Rest \in Point
  BY <1>4, MorePoint, RestIs
<1> HIDE DEF h, k, us, n
<1>9. Job(n, <<EndGlobal(h, k)>>, More(Rest, k), Rest)
  BY <1>7, <1>8, JobOne
<1>10. Job(n, ts, Rest, Rest)
  BY <1>6, <1>9, JobConcat
<1>11. ASSUME NEW p \in Point, NEW q \in Point, Effect(Task, p, q)
       PROVE  Job(n, ts, p, q)
  BY <1>1, <1>10, <1>11, ItemTask
<1> HIDE DEF ts
<1> QED
  BY <1>1, <1>11, Expanded DEF n

LEMMA StepFinishGlobal == ASSUME Inv, FinishGlobal PROVE Inv'
<1> DEFINE h == Task.n
           k == Task.parts
           args == TopValues(k)
           x == [h EXCEPT !.args = args]
<1>1. todo # <<>> /\ Task.do = "end_global" /\ Yield(k, x, <<>>)
  BY DEF FinishGlobal, Take
<1>2. TaskOK(Len(tc.symbols), Task)
  BY <1>1, Now
<1>3. IsNode(h) /\ h.k = "var" /\ h.what \in 1 .. Len(tc.symbols) /\ k \in Nat
  BY <1>1, <1>2 DEF TaskOK
<1>4. x.k = "var" /\ x.what = h.what
  <2>1. h = [k |-> h.k, what |-> h.what, args |-> h.args, ty |-> h.ty]
    BY <1>3 DEF IsNode, N
  <2> HIDE DEF h, args
  <2> QED
    BY <1>3, <2>1
<1> HIDE DEF x
<1>5. ValueOK(Len(tc.symbols), x) /\ IsDeclaration(x)
  BY <1>3, <1>4 DEF ValueOK, IsDeclaration
<1>6. ASSUME NEW p \in Point, NEW q \in Point, Effect(Task, p, q)
      PROVE  k <= p.height /\ k = p.height /\ IsDeclaration(x) /\ q = At(p, 0)
  <2>1. p = More(Rest, k) /\ q = Rest
    BY <1>1, <1>6, TaskEffect
  <2> HIDE DEF k
  <2>2. p.height = 0 + k /\ p.scopes = 1 /\ p.loops = 0 /\ p.body = FALSE
    BY <1>3, <2>1, MorePoint, RestIs
  <2>3. 0 + k = k /\ k <= k
    BY <1>3
  <2>4. q = At(p, 0)
    BY <2>1, <2>2, RestIs DEF Rest
  <2> QED
    BY <1>5, <2>2, <2>3, <2>4
<1> QED
  BY <1>1, <1>3, <1>5, <1>6, Yielded

LEMMA StepFinishFn == ASSUME Inv, FinishFn PROVE Inv'
<1> DEFINE h == Task.n
           k == Task.parts
           n == Len(tc.symbols)
           args == h.args \o TopValues(k)
           x == [h EXCEPT !.args = args]
           o == [tc EXCEPT !.current_return_type = <<>>]
           m == PopScope(o)
           w == Append(SubSeq(vals, 1, Len(vals) - k), x)
<1>1. /\ todo # <<>> /\ Task.do = "end_fn" /\ vals' = w /\ tc' = m /\ Then(<<>>)
      /\ module' = module
  BY DEF FinishFn, Take, Below
<1>2. PICK p \in Point, q \in Point :
        Stands(tc, vals, p) /\ Effect(Task, p, q) /\ Runs(Tail(todo), q, Rest)
  BY <1>1, Now
<1>3. TaskOK(n, Task)
  BY <1>1, Now
<1>4. IsNode(h) /\ h.k = "fn" /\ h.what \in 1 .. n /\ k \in Nat
  BY <1>1, <1>3 DEF TaskOK
<1>5. p = Pt(k, 2, 0, TRUE) /\ q = Rest
  BY <1>1, <1>2, TaskEffect
<1>6. x.k = "fn" /\ x.what = h.what
  <2>1. h = [k |-> h.k, what |-> h.what, args |-> h.args, ty |-> h.ty]
    BY <1>4 DEF IsNode, N
  <2> HIDE DEF h, args
  <2> QED
    BY <1>4, <2>1
<1> HIDE DEF x, k
<1>7. p.height = k /\ p.scopes = 2 /\ p.loops = 0
  BY <1>5 DEF Pt
<1>8. /\ Len(tc.scopes) = 2 /\ tc.loop_depth = 0
      /\ k <= Len(vals) /\ \A i \in 1 .. Len(vals) - k : IsDeclaration(vals[i])
  BY <1>2, <1>7 DEF Stands
<1>9. TcOK(tc) /\ ValuesOK(n, vals) /\ n \in Nat
  BY TcElim DEF Inv
<1>10. /\ TcOK(o) /\ o.symbols = tc.symbols /\ o.scopes = tc.scopes
       /\ o.current_return_type = <<>> /\ o.loop_depth = tc.loop_depth
  <2>1. IsSequence(<<>>) /\ Len(<<>>) <= 1
    BY SequenceEmpty
  <2> QED
    BY <1>9, <2>1, ReturnTypeKeeps
<1> HIDE DEF o
<1>11. /\ TcOK(m) /\ m.symbols = o.symbols /\ m.scopes[1] = o.scopes[1]
       /\ Len(m.scopes) = Len(o.scopes) - 1
       /\ m.current_return_type = o.current_return_type /\ m.loop_depth = o.loop_depth
  <2>1. Len(o.scopes) >= 2
    <3>1. o.scopes = tc.scopes
      BY <1>10
    <3>2. Len(o.scopes) = 2
      BY <1>8, <3>1, Zenon
    <3> QED
      BY <3>2
  <2> QED
    BY <1>10, <2>1, PopKeeps
<1> HIDE DEF m
<1>12. ValueOK(n, x) /\ IsDeclaration(x)
  BY <1>4, <1>6 DEF ValueOK, IsDeclaration
<1>13. /\ ValuesOK(n, w) /\ Len(w) = Len(vals) - k + 1 /\ w[Len(vals) - k + 1] = x
       /\ \A i \in 1 .. Len(vals) - k : w[i] = vals[i]
  <2> HIDE DEF n
  <2> QED
    BY <1>4, <1>8, <1>9, <1>12, Replaced
<1> HIDE DEF w
<1>14. 0 <= Len(w) /\ \A i \in 1 .. Len(w) - 0 : IsDeclaration(w[i])
  <2> DEFINE b == Len(vals)
  <2>1. b \in Nat
    BY <1>9, SequenceElim DEF ValuesOK
  <2> HIDE DEF b
  <2>2. Len(w) = b - k + 1 /\ k <= b
    BY <1>8, <1>13 DEF b
  <2>3. 0 <= Len(w) /\ \A i \in 1 .. Len(w) - 0 : i \in 1 .. b - k \/ i = b - k + 1
    BY <1>4, <2>1, <2>2
  <2> QED
    BY <1>8, <1>12, <1>13, <2>3 DEF b
<1>15. Stands(m, w, Rest)
  <2>1. Len(m.scopes) = 1 /\ m.loop_depth = 0 /\ m.current_return_type = <<>>
    BY <1>8, <1>10, <1>11
  <2> QED
    BY <1>14, <2>1, RestIs DEF Stands
<1>16. Job(n, <<>>, Rest, Rest)
  BY JobNothing, RestIs
<1>17. Len(m.symbols) = n /\ Len(tc.symbols) = n /\ n <= n /\ m.scopes[1] = tc.scopes[1]
  BY <1>9, <1>10, <1>11
<1> HIDE DEF n
<1>18. Rest \in Point /\ Task.do # "declare_item"
  BY <1>1, RestIs
<1> QED
  BY <1>1, <1>2, <1>5, <1>11, <1>13, <1>15, <1>16, <1>17, <1>18, Advance

\* The parameters of a function, declared one after the other in a new scope.
DeclaredIn(d, m, ps, n) ==
  d = [i \in 0 .. n |-> IF i = 0 THEN PushScope(m) ELSE DeclareParam(d[i - 1], ps[i])]

LEMMA DeclaredAt ==
  ASSUME NEW d, NEW m, NEW ps, NEW n \in Nat, DeclaredIn(d, m, ps, n)
  PROVE  d[0] = PushScope(m) /\ \A i \in Nat : i + 1 <= n => d[i + 1] = DeclareParam(d[i], ps[i + 1])
<1> DEFINE F(i) == IF i = 0 THEN PushScope(m) ELSE DeclareParam(d[i - 1], ps[i])
<1>1. d = [i \in 0 .. n |-> F(i)]
  BY DEF DeclaredIn
<1>2. \A i \in 0 .. n : d[i] = F(i)
  <2> HIDE DEF F
  <2> QED
    BY <1>1
<1>3. d[0] = PushScope(m)
  <2>1. 0 \in 0 .. n
    OBVIOUS
  <2> QED
    BY <1>2, <2>1
<1>4. ASSUME NEW i \in Nat, i + 1 <= n
      PROVE  d[i + 1] = DeclareParam(d[i], ps[i + 1])
  <2>1. i + 1 \in 0 .. n /\ i + 1 # 0 /\ (i + 1) - 1 = i
    BY <1>4
  <2>2. d[i + 1] = F(i + 1)
    <3> HIDE DEF F
    <3> QED
      BY <1>2, <2>1
  <2>3. F(i + 1) = DeclareParam(d[(i + 1) - 1], ps[i + 1])
    BY <2>1
  <2> QED
    BY <2>1, <2>2, <2>3
<1> QED
  BY <1>3, <1>4

LEMMA DeclaredExists ==
  ASSUME NEW m, NEW ps
  PROVE  \A n \in Nat : \E d : DeclaredIn(d, m, ps, n)
<1> DEFINE S == {n \in Nat : \E d : DeclaredIn(d, m, ps, n)}
<1>1. 0 \in S
  <2> DEFINE d == [i \in 0 .. 0 |-> PushScope(m)]
  <2>1. \A i \in 0 .. 0 : i = 0
    OBVIOUS
  <2>2. d = [i \in 0 .. 0 |-> IF i = 0 THEN PushScope(m) ELSE DeclareParam(d[i - 1], ps[i])]
    BY <2>1
  <2> HIDE DEF d
  <2>3. DeclaredIn(d, m, ps, 0)
    BY <2>2 DEF DeclaredIn
  <2> QED
    BY <2>3
<1>2. ASSUME NEW n \in Nat, n \in S
      PROVE  n + 1 \in S
  <2>1. PICK d : DeclaredIn(d, m, ps, n)
    BY <1>2
  <2> DEFINE F(f, i) == IF i = 0 THEN PushScope(m) ELSE DeclareParam(f[i - 1], ps[i])
             e == [i \in 0 .. n + 1 |-> F(d, i)]
  <2>2. d = [i \in 0 .. n |-> F(d, i)]
    BY <2>1 DEF DeclaredIn
  <2>3. \A i \in 0 .. n : d[i] = F(d, i) /\ e[i] = F(d, i)
    <3>1. \A i \in 0 .. n : i \in 0 .. n + 1
      OBVIOUS
    <3> HIDE DEF F
    <3> QED
      BY <2>2, <3>1
  <2>4. \A i \in 0 .. n : e[i] = d[i]
    <3> HIDE DEF F, e
    <3> QED
      BY <2>3
  <2>5. \A i \in 0 .. n + 1 : F(e, i) = F(d, i)
    <3> HIDE DEF e
    <3>1. ASSUME NEW i \in 0 .. n + 1, i # 0 PROVE e[i - 1] = d[i - 1]
      <4>1. i - 1 \in 0 .. n
        BY <3>1
      <4> QED
        BY <2>4, <4>1
    <3>2. ASSUME NEW i \in 0 .. n + 1 PROVE F(e, i) = F(d, i)
      <4>1. CASE i = 0
        BY <4>1
      <4>2. CASE i # 0
        BY <3>1, <4>2
      <4> QED
        BY <4>1, <4>2
    <3> QED
      BY <3>2
  <2>6. e = [i \in 0 .. n + 1 |-> F(e, i)]
    <3>1. e = [i \in 0 .. n + 1 |-> F(d, i)]
      OBVIOUS
    <3> HIDE DEF F, e
    <3> QED
      BY <2>5, <3>1
  <2> HIDE DEF e
  <2>7. DeclaredIn(e, m, ps, n + 1)
    BY <2>6 DEF DeclaredIn
  <2> QED
    BY <2>7
<1>3. Nat \subseteq S
  <2> HIDE DEF S
  <2> QED
    BY <1>1, <1>2, SetInduction
<1> QED
  BY <1>3

\* A function's own scope lies over those that were there.
Over(m, o) ==
  /\ TcOK(o) /\ Len(m.symbols) <= Len(o.symbols)
  /\ Len(o.scopes) = Len(m.scopes) + 1 /\ o.scopes[1] = m.scopes[1]
  /\ o.current_return_type = m.current_return_type /\ o.loop_depth = m.loop_depth

LEMMA ParamKeeps ==
  ASSUME NEW m, TcOK(m), NEW o, Over(m, o), NEW x
  PROVE  Over(m, DeclareParam(o, x))
<1> DEFINE p == DeclareParam(o, x)
           ty == LowerType(x.ty)
<1>1. Len(m.symbols) \in Nat /\ Len(o.symbols) \in Nat /\ Len(m.scopes) \in Nat \ {0}
  BY TcElim DEF Over
<1>2. Len(o.scopes) >= 2
  BY <1>1 DEF Over
<1>3. /\ TcOK(p) /\ Len(p.symbols) = Len(o.symbols) + 1 /\ Len(p.scopes) = Len(o.scopes)
      /\ p.scopes[1] = o.scopes[1]
      /\ p.current_return_type = o.current_return_type /\ p.loop_depth = o.loop_depth
  <2>1. CASE x.what = ""
    <3> DEFINE name == ""
               kind == "Param"
    <3>1. p = Intern(o, name, kind, ty)
      BY <2>1 DEF DeclareParam
    <3> HIDE DEF p, ty, name, kind
    <3>2. TcOK(o)
      BY DEF Over
    <3>3. /\ TcOK(p) /\ Len(p.symbols) = Len(o.symbols) + 1 /\ p.scopes = o.scopes
          /\ p.current_return_type = o.current_return_type /\ p.loop_depth = o.loop_depth
      BY <3>1, <3>2, InternKeeps
    <3> QED
      BY <3>3
  <2>2. CASE x.what # ""
    <3>1. p = Introduce(o, x.what, "Param", ty)
      BY <2>2 DEF DeclareParam
    <3> HIDE DEF p, ty
    <3>2. TcOK(o)
      BY DEF Over
    <3>3. /\ TcOK(p) /\ Len(p.symbols) = NextSymbol(o) /\ Len(p.scopes) = Len(o.scopes)
          /\ p.scopes[1] = o.scopes[1]
          /\ p.current_return_type = o.current_return_type /\ p.loop_depth = o.loop_depth
      BY <1>2, <3>1, <3>2, IntroduceKeeps
    <3> QED
      BY <3>3 DEF NextSymbol
  <2> QED
    BY <2>1, <2>2
<1>4. Len(m.symbols) <= Len(o.symbols) + 1
  BY <1>1 DEF Over
<1> HIDE DEF p
<1>5. Over(m, p)
  BY <1>3, <1>4 DEF Over
<1> QED
  BY <1>5 DEF p

LEMMA DeclaredOver ==
  ASSUME NEW m, TcOK(m), NEW ps, NEW n \in Nat, NEW d, DeclaredIn(d, m, ps, n)
  PROVE  Over(m, d[n])
<1> DEFINE S == {i \in Nat : i <= n => Over(m, d[i])}
<1>1. 0 \in S
  <2>1. Over(m, PushScope(m))
    <3> DEFINE o == PushScope(m)
    <3>1. /\ TcOK(o) /\ o.symbols = m.symbols /\ o.scopes[1] = m.scopes[1]
          /\ Len(o.scopes) = Len(m.scopes) + 1
          /\ o.current_return_type = m.current_return_type /\ o.loop_depth = m.loop_depth
      BY PushKeeps
    <3>2. Len(m.symbols) <= Len(m.symbols)
      BY TcElim
    <3> HIDE DEF o
    <3>3. Over(m, o)
      BY <3>1, <3>2 DEF Over
    <3> QED
      BY <3>3 DEF o
  <2> QED
    BY <2>1, DeclaredAt
<1>2. ASSUME NEW i \in Nat, i \in S
      PROVE  i + 1 \in S
  <2> SUFFICES ASSUME i + 1 <= n
               PROVE  Over(m, d[i + 1])
    OBVIOUS
  <2>1. Over(m, d[i])
    <3>1. i <= n
      OBVIOUS
    <3> QED
      BY <1>2, <3>1
  <2>2. d[i + 1] = DeclareParam(d[i], ps[i + 1])
    BY DeclaredAt
  <2> QED
    BY <2>1, <2>2, ParamKeeps
<1>3. Nat \subseteq S
  <2> HIDE DEF S
  <2> QED
    BY <1>1, <1>2, SetInduction
<1> QED
  BY <1>3

LEMMA StepLowerFn == ASSUME Inv, LowerFn PROVE Inv'
<1> DEFINE f == Task.n
           sym == SymbolOf(f)
           ps == ParamsOf(f)
           body == BodyOf(f)
           params == [i \in DOMAIN ps |->
                        N("var", NextSymbol(tc) + i - 1, <<>>, LowerType(ps[i].ty))]
           d == CHOOSE d : DeclaredIn(d, tc, ps, Len(ps))
           o == d[Len(ps)]
           ret == tc.symbols[sym].ty.of[1]
           m == IF body = <<>> THEN o ELSE [o EXCEPT !.current_return_type = <<ret>>]
           k == Len(body)
           h == N("fn", sym, <<N("params", "", params, NoType)>>, [ret |-> ret, arity |-> f.ty.arity])
           ts == Each(body) \o <<EndFn(h, k)>>
           n == Len(m.symbols)
           r == Pt(0, 2, 0, TRUE)
<1>1. /\ todo # <<>> /\ Task.do = "lower_item" /\ f.k = "fn" /\ tc' = m /\ Then(ts)
      /\ module' = module /\ vals' = vals
  BY DEF LowerFn, Take, DeclaredIn
<1>2. IsItem(f) /\ sym \in 1 .. Len(tc.symbols)
  BY <1>1, ItemTask
<1>3. IsOptional(body, AstStmt) /\ ps \in Seq(AstStmt)
  BY <1>1, <1>2 DEF IsItem
<1>4. Len(ps) \in Nat
  BY <1>3, SequenceIntro, SequenceElim
<1>5. PICK p \in Point, q \in Point :
        Stands(tc, vals, p) /\ Effect(Task, p, q) /\ Runs(Tail(todo), q, Rest)
  BY <1>1, Now
<1>6. p = Rest /\ q = Rest
  BY <1>1, <1>5, ItemTask
<1>7. TcOK(tc) /\ ValuesOK(Len(tc.symbols), vals) /\ Len(tc.symbols) \in Nat
  BY TcElim DEF Inv
<1>8. Over(tc, o)
  <2>1. \E e : DeclaredIn(e, tc, ps, Len(ps))
    BY <1>4, DeclaredExists
  <2>2. DeclaredIn(d, tc, ps, Len(ps))
    BY <2>1
  <2> HIDE DEF d
  <2> QED
    BY <1>4, <1>7, <2>2, DeclaredOver
<1> HIDE DEF d, o, ps, params, ret, f, sym
<1>9. /\ TcOK(m) /\ m.symbols = o.symbols /\ m.scopes = o.scopes /\ m.loop_depth = o.loop_depth
  <2>1. TcOK(o)
    BY <1>8 DEF Over
  <2>2. CASE body = <<>>
    BY <2>1, <2>2
  <2>3. CASE body # <<>>
    <3> DEFINE c == <<ret>>
    <3>1. IsSequence(c) /\ Len(c) <= 1
      BY SequenceOne
    <3>2. m = [o EXCEPT !.current_return_type = c]
      BY <2>3
    <3> HIDE DEF c, m
    <3> QED
      BY <2>1, <3>1, <3>2, ReturnTypeKeeps
  <2> QED
    BY <2>2, <2>3
<1> HIDE DEF m
<1>10. /\ Len(tc.symbols) <= n /\ n \in Nat /\ m.scopes[1] = tc.scopes[1]
       /\ Len(m.scopes) = Len(tc.scopes) + 1 /\ m.loop_depth = tc.loop_depth
  BY <1>8, <1>9, TcElim DEF Over
<1>11. r \in Point /\ r.height = 0 /\ r.scopes = 2 /\ r.loops = 0 /\ r.body = TRUE
  BY DEF Point, Pt
<1>12. More(r, k) = Pt(k, 2, 0, TRUE) /\ k \in Nat
  <2>1. k \in Nat
    BY <1>3, OptionalIs, SequenceElim
  <2>2. r.height = 0
    BY <1>11
  <2> HIDE DEF k, r
  <2>3. r.height + k = k
    BY <2>1, <2>2
  <2> QED
    BY <1>11, <2>1, <2>3 DEF More, At
<1>13. Job(n, Each(body), r, More(r, k))
  <2>1. IsSequence(body) /\ \A i \in 1 .. Len(body) : body[i] \in AstStmt
    BY <1>3, OptionalIs
  <2> HIDE DEF r, n
  <2>2. \A i \in 1 .. Len(body) : CanLower(body[i], r.scopes)
    BY <1>11, <2>1 DEF CanLower
  <2> QED
    BY <1>11, <2>1, <2>2, EachJob
<1>14. IsNode(h) /\ h.k = "fn" /\ h.what = sym
  BY DEF IsNode, N
<1> HIDE DEF h, k, n, body, r
<1>15. NewTask(n, EndFn(h, k)) /\ Effect(EndFn(h, k), More(r, k), Rest)
  <2>1. sym \in 1 .. n
    BY <1>2, <1>7, <1>10
  <2> QED
    BY <1>12, <1>14, <2>1, EndTasks
<1>16. Job(n, <<EndFn(h, k)>>, More(r, k), Rest)
  <2>1. More(r, k) \in Point /\ Rest \in Point
    BY <1>11, <1>12, MorePoint, RestIs
  <2> QED
    BY <1>15, <2>1, JobOne
<1>17. Job(n, ts, r, Rest)
  BY <1>13, <1>16, JobConcat DEF k
<1>18. Stands(m, vals, r)
  <2>1. /\ Len(tc.scopes) = 1 /\ tc.loop_depth = 0
        /\ 0 <= Len(vals) /\ \A i \in 1 .. Len(vals) - 0 : IsDeclaration(vals[i])
    BY <1>5, <1>6, RestIs DEF Stands
  <2>2. Len(m.scopes) = 2 /\ m.loop_depth = 0
    BY <1>10, <2>1
  <2> QED
    BY <1>11, <2>1, <2>2 DEF Stands
<1>19. ValuesOK(n, vals)
  BY <1>7, <1>10, StillOK
<1> HIDE DEF ts
<1>20. Len(m.symbols) = n
  BY DEF n
<1> QED
  BY <1>1, <1>5, <1>6, <1>9, <1>10, <1>11, <1>17, <1>18, <1>19, <1>20, Advance

-----------------------------------------------------------------------------
(* The first pass.                                                            *)

\* A name is declared, in the only scope there is.
LEMMA Declared ==
  ASSUME Inv, todo # <<>>, Task.do = "declare_item", NEW m, Update(m), TcOK(m),
         Len(tc.symbols) <= Len(m.symbols), Len(m.scopes) = Len(tc.scopes),
         m.loop_depth = tc.loop_depth, m.current_return_type = tc.current_return_type,
         DOMAIN m.scopes[1] = DOMAIN tc.scopes[1] \cup {Task.n.what}
  PROVE  Inv'
<1> DEFINE n == Len(m.symbols)
           rest == Tail(todo)
           l == Len(todo)
<1>1. PICK p \in Point, q \in Point :
        Stands(tc, vals, p) /\ Effect(Task, p, q) /\ Runs(Tail(todo), q, Rest)
  BY Now
<1>2. p = Rest /\ q = Rest
  BY <1>1, TaskEffect
<1>3. /\ IsSequence(todo) /\ IsSequence(rest) /\ l \in Nat \ {0} /\ Task = todo[1]
      /\ Len(rest) = l - 1 /\ \A i \in 1 .. l - 1 : rest[i] = todo[i + 1]
  BY Now, SequenceTail
<1>4. tc' = m /\ module' = module /\ vals' = vals /\ todo' = rest
  <2>1. <<>> \o rest = rest
    <3> HIDE DEF rest
    <3>1. /\ IsSequence(<<>>) /\ Len(<<>>) = 0
      BY SequenceEmpty
    <3> DEFINE u == <<>> \o rest
    <3>2. /\ IsSequence(u) /\ Len(u) = Len(<<>>) + Len(rest)
          /\ \A i \in 1 .. Len(rest) : u[Len(<<>>) + i] = rest[i]
      BY <1>3, <3>1, SequenceConcat
    <3> HIDE DEF u
    <3>3. Len(rest) \in Nat
      BY <1>3, SequenceElim
    <3>4. Len(u) = Len(rest) /\ \A i \in 1 .. Len(rest) : u[i] = rest[i]
      BY <3>1, <3>2, <3>3
    <3>5. u = rest
      BY <1>3, <3>2, <3>4, SequencesEqual
    <3> QED
      BY <3>5 DEF u
  <2> QED
    BY <2>1 DEF Update, Then
<1> HIDE DEF rest, l
<1>5. TcOK(tc) /\ ValuesOK(Len(tc.symbols), vals) /\ Len(tc.symbols) \in Nat /\ n \in Nat
      /\ module \in Modules
  BY TcElim DEF Inv
<1>6. /\ \A i \in 1 .. l : TaskOK(Len(tc.symbols), todo[i])
      /\ \A j \in ToDeclare(todo) : \A i \in 1 .. j : i \in ToDeclare(todo)
      /\ DOMAIN tc.scopes[1] \cup {todo[i].n.what : i \in ToDeclare(todo)} = Names
      /\ \A i \in 1 .. l : todo[i].do = "lower_item" => todo[i].n.what \in Names
  BY DEF Inv, FirstPass, l
<1> HIDE DEF n
<1>7. \A i \in 1 .. l : TaskOK(n, todo[i])
  <2>1. Len(tc.symbols) <= n
    BY DEF n
  <2> QED
    BY <1>5, <1>6, <2>1, StillOK
<1>8. \A i \in 1 .. Len(rest) : i + 1 \in 1 .. l /\ rest[i] = todo[i + 1]
  BY <1>3
<1>9. \A i : i \in ToDeclare(rest) <=> i \in 1 .. Len(rest) /\ i + 1 \in ToDeclare(todo)
  BY <1>8 DEF ToDeclare, l
<1>10. FirstPass(m, rest)
  <2>1. ASSUME NEW j \in ToDeclare(rest), NEW i \in 1 .. j
        PROVE  i \in ToDeclare(rest)
    <3>1. j \in 1 .. Len(rest) /\ j + 1 \in ToDeclare(todo)
      BY <1>9
    <3>2. i + 1 \in 1 .. j + 1 /\ i \in 1 .. Len(rest)
      BY <1>3, <3>1
    <3> QED
      BY <1>6, <1>9, <3>1, <3>2
  <2>2. {todo[i].n.what : i \in ToDeclare(todo)}
          = {rest[i].n.what : i \in ToDeclare(rest)} \cup {Task.n.what}
    <3>1. 1 \in ToDeclare(todo)
      BY <1>3 DEF ToDeclare, l
    <3>2. ASSUME NEW i \in ToDeclare(todo), i # 1
          PROVE  i - 1 \in ToDeclare(rest) /\ rest[i - 1] = todo[i]
      <4>1. i \in 1 .. l
        BY DEF ToDeclare, l
      <4>2. i - 1 \in 1 .. Len(rest) /\ (i - 1) + 1 = i
        BY <1>3, <3>2, <4>1
      <4> QED
        BY <1>8, <1>9, <4>2
    <3>3. ASSUME NEW i \in ToDeclare(rest)
          PROVE  i + 1 \in ToDeclare(todo) /\ rest[i] = todo[i + 1]
      BY <1>8, <1>9
    <3> DEFINE A == {todo[i].n.what : i \in ToDeclare(todo)}
               B == {rest[i].n.what : i \in ToDeclare(rest)}
    <3>4. ASSUME NEW y \in A PROVE y \in B \cup {Task.n.what}
      <4>1. PICK i \in ToDeclare(todo) : y = todo[i].n.what
        OBVIOUS
      <4>2. CASE i = 1
        BY <1>3, <4>1, <4>2
      <4>3. CASE i # 1
        BY <3>2, <4>1, <4>3
      <4> QED
        BY <4>2, <4>3
    <3>5. ASSUME NEW y \in B PROVE y \in A
      <4>1. PICK i \in ToDeclare(rest) : y = rest[i].n.what
        OBVIOUS
      <4> QED
        BY <3>3, <4>1
    <3>6. Task.n.what \in A
      BY <1>3, <3>1
    <3> HIDE DEF A, B
    <3>7. A = B \cup {Task.n.what}
      BY <3>4, <3>5, <3>6
    <3> QED
      BY <3>7 DEF A, B
  <2>3. DOMAIN m.scopes[1] \cup {rest[i].n.what : i \in ToDeclare(rest)} = Names
    <3> DEFINE A == {todo[i].n.what : i \in ToDeclare(todo)}
               B == {rest[i].n.what : i \in ToDeclare(rest)}
               C == DOMAIN tc.scopes[1]
               D == DOMAIN m.scopes[1]
    <3>1. A = B \cup {Task.n.what} /\ C \cup A = Names /\ D = C \cup {Task.n.what}
      BY <1>6, <2>2
    <3> HIDE DEF A, B, C, D
    <3>2. D \cup B = Names
      BY <3>1
    <3> QED
      BY <3>2 DEF B, D
  <2>4. \A i \in 1 .. Len(rest) : rest[i].do = "lower_item" => rest[i].n.what \in Names
    BY <1>6, <1>8
  <2> QED
    BY <2>1, <2>3, <2>4 DEF FirstPass
<1>11. Stands(m, vals, Rest)
  BY <1>1, <1>2 DEF Stands
<1>12. Names' = Names
  BY <1>4 DEF Names
<1>13. FirstPass(tc, todo)'
  BY <1>4, <1>10, <1>12 DEF FirstPass, ToDeclare
<1>14. ValuesOK(n, vals) /\ \A i \in 1 .. Len(rest) : TaskOK(n, rest[i])
  <2>1. Len(tc.symbols) <= n
    BY DEF n
  <2> QED
    BY <1>5, <1>7, <1>8, <2>1, StillOK
<1>15. Stands(m, vals, Rest) /\ Runs(rest, Rest, Rest) /\ Rest \in Point
  BY <1>1, <1>2, <1>11, RestIs DEF rest
<1>16. (\E a \in Point : Stands(tc, vals, a) /\ Runs(todo, a, Rest))'
  BY <1>4, <1>15
<1> QED
  BY <1>3, <1>4, <1>5, <1>13, <1>14, <1>16 DEF Inv, n

LEMMA StepDeclareGlobal == ASSUME Inv, DeclareGlobal PROVE Inv'
<1> DEFINE x == Task.n
           ty == LowerType(x.ty)
           m == Introduce(tc, x.what, "GlobalVar", ty)
<1>1. todo # <<>> /\ Task.do = "declare_item" /\ Update(m)
  BY DEF DeclareGlobal, Take
<1>2. TcOK(tc) /\ Len(tc.scopes) = 1 /\ Len(tc.symbols) \in Nat
  <2>1. PICK p \in Point, q \in Point : Stands(tc, vals, p) /\ Effect(Task, p, q)
    BY <1>1, Now
  <2>2. p = Rest
    BY <1>1, <2>1, TaskEffect
  <2>3. TcOK(tc)
    BY DEF Inv
  <2> QED
    BY <2>1, <2>2, <2>3, TcElim, RestIs DEF Stands
<1>3. /\ TcOK(m) /\ Len(m.symbols) = NextSymbol(tc) /\ Len(m.scopes) = Len(tc.scopes)
      /\ DOMAIN m.scopes[1] = DOMAIN tc.scopes[1] \cup {x.what}
      /\ m.current_return_type = tc.current_return_type /\ m.loop_depth = tc.loop_depth
  BY <1>2, IntroduceKeeps
<1> HIDE DEF m
<1>4. Len(tc.symbols) <= Len(m.symbols)
  BY <1>2, <1>3 DEF NextSymbol
<1> QED
  BY <1>1, <1>3, <1>4, Declared

LEMMA StepDeclareFn == ASSUME Inv, DeclareFn PROVE Inv'
<1> DEFINE f == Task.n
           ty == FunctionType(f)
           found == Lookup(tc, f.what)
           a == Introduce(tc, f.what, "Function", ty)
           errors == ErrorIf(tc.symbols[found[1]].ty # ty, "E0402")
           b == Error(tc, errors)
           m == IF found = <<>> THEN a ELSE b
<1>1. todo # <<>> /\ Task.do = "declare_item" /\ Update(m)
  BY DEF DeclareFn, Take
<1>2. TcOK(tc) /\ Len(tc.scopes) = 1 /\ Len(tc.symbols) \in Nat
  <2>1. PICK p \in Point, q \in Point : Stands(tc, vals, p) /\ Effect(Task, p, q)
    BY <1>1, Now
  <2>2. p = Rest
    BY <1>1, <2>1, TaskEffect
  <2>3. TcOK(tc)
    BY DEF Inv
  <2> QED
    BY <2>1, <2>2, <2>3, TcElim, RestIs DEF Stands
<1>3. /\ TcOK(a) /\ Len(a.symbols) = NextSymbol(tc) /\ Len(a.scopes) = Len(tc.scopes)
      /\ DOMAIN a.scopes[1] = DOMAIN tc.scopes[1] \cup {f.what}
      /\ a.current_return_type = tc.current_return_type /\ a.loop_depth = tc.loop_depth
  BY <1>2, IntroduceKeeps
<1>4. TcOK(b) /\ SameTc(tc, b)
  BY <1>2, ErrorKeeps
<1>5. CASE found = <<>>
  <2>1. m = a
    BY <1>5
  <2> HIDE DEF a, m
  <2>2. Len(tc.symbols) <= Len(m.symbols)
    BY <1>2, <1>3, <2>1 DEF NextSymbol
  <2> QED
    BY <1>1, <1>3, <2>1, <2>2, Declared
<1>6. CASE found # <<>>
  <2>1. m = b
    BY <1>6
  <2>2. PICK i \in 1 .. Len(tc.scopes) : f.what \in DOMAIN tc.scopes[i]
    BY <1>2, <1>6, LookupIs
  <2>3. i = 1
    BY <1>2
  <2>4. DOMAIN tc.scopes[1] = DOMAIN tc.scopes[1] \cup {f.what}
    BY <2>2, <2>3
  <2> HIDE DEF b, m, found
  <2>5. Len(tc.symbols) <= Len(m.symbols) /\ m.scopes = tc.scopes /\ TcOK(m)
        /\ m.loop_depth = tc.loop_depth /\ m.current_return_type = tc.current_return_type
    BY <1>2, <1>4, <2>1 DEF SameTc
  <2>6. DOMAIN m.scopes[1] = DOMAIN tc.scopes[1] \cup {f.what}
    BY <2>4, <2>5
  <2> QED
    BY <1>1, <2>5, <2>6, Declared
<1> QED
  BY <1>5, <1>6

-----------------------------------------------------------------------------
(* The beginning.                                                             *)

\* The invariant is first true: check() has a scope, every item is still to be
\* declared, and then every item is to be lowered.
LEMMA InitInv == Init => Inv
<1> SUFFICES ASSUME Init
             PROVE  Inv
  OBVIOUS
<1> DEFINE n == Len(module)
           a == [i \in DOMAIN module |-> DeclareItem(module[i])]
           b == [i \in DOMAIN module |-> LowerItem(module[i])]
<1>1. module \in Modules /\ tc = New /\ vals = <<>> /\ todo = a \o b
  BY DEF Init
<1>2. IsSequence(module) /\ \A i \in 1 .. n : IsItem(module[i])
  <2>1. module \in Seq(Range(module)) /\ \A d \in Range(module) : IsItem(d)
    BY <1>1, AstAssumption
  <2>2. IsSequence(module)
    BY <2>1, SequenceIntro
  <2>3. \A i \in 1 .. n : module[i] \in Range(module)
    BY <2>2, SequenceElim
  <2> QED
    BY <2>1, <2>2, <2>3
<1>3. n \in Nat /\ DOMAIN module = 1 .. n
  BY <1>2, SequenceElim
<1>4. IsSequence(a) /\ Len(a) = n /\ \A i \in 1 .. n : a[i] = DeclareItem(module[i])
  <2>1. a = [i \in 1 .. n |-> a[i]] /\ \A i \in 1 .. n : a[i] = DeclareItem(module[i])
    BY <1>3
  <2> HIDE DEF a, n
  <2> QED
    BY <1>3, <2>1, SequenceByIndex
<1>5. IsSequence(b) /\ Len(b) = n /\ \A i \in 1 .. n : b[i] = LowerItem(module[i])
  <2>1. b = [i \in 1 .. n |-> b[i]] /\ \A i \in 1 .. n : b[i] = LowerItem(module[i])
    BY <1>3
  <2> HIDE DEF b, n
  <2> QED
    BY <1>3, <2>1, SequenceByIndex
<1> HIDE DEF a, b
<1>6. /\ IsSequence(todo) /\ Len(todo) = n + n
      /\ \A i \in 1 .. n : todo[i] = DeclareItem(module[i])
      /\ \A i \in 1 .. n : todo[n + i] = LowerItem(module[i])
  <2>1. /\ IsSequence(a \o b) /\ Len(a \o b) = Len(a) + Len(b)
        /\ \A i \in 1 .. Len(a) : (a \o b)[i] = a[i]
        /\ \A i \in 1 .. Len(b) : (a \o b)[Len(a) + i] = b[i]
    <3>1. IsSequence(a) /\ IsSequence(b)
      BY <1>4, <1>5
    <3> HIDE DEF n
    <3> QED
      BY <3>1, SequenceConcat
  <2> HIDE DEF n
  <2> QED
    BY <1>1, <1>4, <1>5, <2>1
<1>7. \A i : /\ DeclareItem(module[i]).do = "declare_item" /\ DeclareItem(module[i]).n = module[i]
             /\ LowerItem(module[i]).do = "lower_item" /\ LowerItem(module[i]).n = module[i]
  BY DEF DeclareItem, LowerItem
<1> HIDE DEF n
<1>8. \A i \in 1 .. n : todo[i].do = "declare_item" /\ todo[i].n = module[i]
  BY <1>6, <1>7
<1>9. ASSUME NEW i \in 1 .. Len(todo), i \notin 1 .. n
      PROVE  /\ i - n \in 1 .. n
             /\ todo[i].do = "lower_item" /\ todo[i].n = module[i - n]
  <2>1. i - n \in 1 .. n /\ n + (i - n) = i
    BY <1>3, <1>6, <1>9
  <2>2. todo[i] = LowerItem(module[i - n])
    BY <1>6, <2>1
  <2> QED
    BY <1>7, <2>1, <2>2
<1>10. ASSUME NEW i \in 1 .. Len(todo)
       PROVE  /\ todo[i].do \in {"declare_item", "lower_item"} /\ IsItem(todo[i].n)
              /\ todo[i].n.what \in Names
  <2>1. \A j \in 1 .. n : module[j].what \in Names
    BY DEF Names, n
  <2> QED
    BY <1>2, <1>8, <1>9, <2>1 DEF n
<1>11. TcOK(tc) /\ Len(tc.symbols) = 0 /\ Len(tc.scopes) = 1 /\ tc.scopes[1] = NoNames
       /\ tc.loop_depth = 0 /\ tc.current_return_type = <<>>
  <2>1. /\ tc.symbols = <<>> /\ tc.scopes = <<NoNames>> /\ tc.current_return_type = <<>>
        /\ tc.loop_depth = 0
        /\ tc = [symbols |-> tc.symbols, scopes |-> tc.scopes, diagnostics |-> tc.diagnostics,
                 current_return_type |-> tc.current_return_type, loop_depth |-> tc.loop_depth]
    BY <1>1 DEF New
  <2>2. /\ IsSequence(<<>>) /\ Len(<<>>) = 0
        /\ IsSequence(<<NoNames>>) /\ Len(<<NoNames>>) = 1 /\ <<NoNames>>[1] = NoNames
        /\ <<NoNames>> # <<>>
    BY SequenceEmpty, SequenceOne
  <2>3. Range(NoNames) = {}
    BY DEF Range, NoNames
  <2>4. \A i \in 1 .. Len(tc.scopes) : Range(tc.scopes[i]) \subseteq 1 .. Len(tc.symbols)
    <3>1. ASSUME NEW i \in 1 .. Len(tc.scopes)
          PROVE  Range(tc.scopes[i]) = {}
      BY <2>1, <2>2, <2>3
    <3> QED
      BY <3>1
  <2>5. IsSequence(tc.current_return_type) /\ Len(tc.current_return_type) <= 1
    BY <2>1, <2>2
  <2> QED
    BY <2>1, <2>2, <2>4, <2>5 DEF TcOK
<1>12. ToDeclare(todo) = 1 .. n
  <2>1. \A i : i \in ToDeclare(todo) <=> i \in 1 .. Len(todo) /\ todo[i].do = "declare_item"
    BY DEF ToDeclare
  <2>2. \A i \in 1 .. n : i \in 1 .. Len(todo)
    BY <1>3, <1>6
  <2> QED
    BY <1>8, <1>9, <2>1, <2>2
<1>13. FirstPass(tc, todo)
  <2>1. \A j \in ToDeclare(todo) : \A i \in 1 .. j : i \in ToDeclare(todo)
    BY <1>3, <1>12
  <2>2. DOMAIN tc.scopes[1] \cup {todo[i].n.what : i \in ToDeclare(todo)} = Names
    <3>1. DOMAIN tc.scopes[1] = {}
      BY <1>11 DEF NoNames
    <3>2. {todo[i].n.what : i \in ToDeclare(todo)} = Names
      BY <1>8, <1>12 DEF Names, n
    <3> QED
      BY <3>1, <3>2
  <2> QED
    BY <1>10, <2>1, <2>2 DEF FirstPass
<1>14. ValuesOK(Len(tc.symbols), vals)
  BY <1>1, SequenceEmpty DEF ValuesOK
<1>15. \A i \in 1 .. Len(todo) : TaskOK(Len(tc.symbols), todo[i])
  BY <1>10 DEF TaskOK
<1>16. Stands(tc, vals, Rest)
  BY <1>1, <1>11, RestIs, SequenceEmpty DEF Stands
<1>17. Runs(todo, Rest, Rest)
  <2>1. \A i \in 1 .. Len(todo) : Effect(todo[i], Rest, Rest)
    BY <1>10 DEF Effect
  <2> QED
    BY <1>6, <2>1, RestIs, RunsIdle
<1> QED
  BY <1>1, <1>6, <1>11, <1>13, <1>14, <1>15, <1>16, <1>17, RestIs DEF Inv

\* Every step keeps the invariant.
LEMMA StepInv == Inv /\ [Next]_vars => Inv'
<1> SUFFICES ASSUME Inv, [Next]_vars
             PROVE  Inv'
  OBVIOUS
<1>1. CASE DeclareFn \/ DeclareGlobal
  BY <1>1, StepDeclareFn, StepDeclareGlobal
<1>2. CASE LowerFn \/ SkipFn \/ FinishFn \/ LowerGlobal \/ FinishGlobal
  BY <1>2, StepLowerFn, StepSkipFn, StepFinishFn, StepLowerGlobal, StepFinishGlobal
<1>3. CASE LowerBlock \/ LowerIf \/ LowerWhile \/ LowerDoWhile \/ LowerFor
  BY <1>3, StepBlock, StepIf, StepWhile, StepDoWhile, StepFor
<1>4. CASE LowerReturn \/ LowerReturnVoid \/ LowerJump \/ LowerEmpty
  BY <1>4, StepReturn, StepReturnVoid, StepJump, StepEmpty
<1>5. CASE LowerLocal \/ FinishLocal
  BY <1>5, StepLocal, StepFinishLocal
<1>6. CASE LowerLiteral \/ LowerIdent \/ LowerMember \/ LowerParen \/ LowerParts
  BY <1>6, StepLiteral, StepIdent, StepMember, StepParen, StepParts
<1>7. CASE LowerAssign \/ LowerTernary \/ LowerCall \/ LowerArgs \/ NotAFunction
  BY <1>7, StepAssign, StepTernary, StepCall, StepArgs, StepNotAFunction
<1>8. CASE MakeNode \/ ScopeAction \/ LoopAction
  BY <1>8, StepMake, StepScope, StepLoop
<1>9. CASE ScalarAction \/ LvalueAction \/ DecayAction \/ ConvertAction
  BY <1>9, StepTop
<1>10. CASE Terminating \/ UNCHANGED vars
  <2>1. module' = module /\ tc' = tc /\ todo' = todo /\ vals' = vals
    BY <1>10 DEF Terminating, vars
  <2>2. Names' = Names
    BY <2>1 DEF Names
  <2>3. FirstPass(tc, todo)' = FirstPass(tc, todo)
    BY <2>1, <2>2 DEF FirstPass, ToDeclare
  <2>4. (\E p \in Point : Stands(tc, vals, p) /\ Runs(todo, p, Rest))'
    BY <2>1 DEF Inv
  <2> QED
    BY <2>1, <2>3, <2>4 DEF Inv
<1> QED
  BY <1>1, <1>2, <1>3, <1>4, <1>5, <1>6, <1>7, <1>8, <1>9, <1>10 DEF Next

-----------------------------------------------------------------------------
(* What the invariant says of the checker.                                    *)

\* The ids are those of symbols and there is a scope.
LEMMA InvTypeOK == Inv => TypeOK
<1> SUFFICES ASSUME Inv
             PROVE  TypeOK
  OBVIOUS
<1>1. TcOK(tc) /\ ValuesOK(Len(tc.symbols), vals)
  BY DEF Inv
<1>2. PICK p \in Point : Stands(tc, vals, p)
  BY DEF Inv
<1>3. tc.loop_depth \in Nat
  BY <1>2, PointIs DEF Stands
<1>4. DOMAIN tc.symbols = 1 .. Len(tc.symbols)
  BY <1>1, SequenceElim DEF TcOK
<1>5. \A s \in Range(tc.scopes) : Range(s) \subseteq DOMAIN tc.symbols
  <2>1. \A s : s \in Range(tc.scopes) <=> \E i \in 1 .. Len(tc.scopes) : tc.scopes[i] = s
    BY <1>1, SequenceElim DEF TcOK
  <2> QED
    BY <1>1, <1>4, <2>1 DEF TcOK
<1>6. \A x \in Range(vals) : x.k \in {"ref", "fn", "var"} => x.what \in DOMAIN tc.symbols
  <2>1. \A x : x \in Range(vals) <=> \E i \in 1 .. Len(vals) : vals[i] = x
    BY <1>1, SequenceElim DEF ValuesOK
  <2> QED
    BY <1>1, <1>4, <2>1 DEF ValuesOK, ValueOK
<1> QED
  BY <1>1, <1>3, <1>5, <1>6 DEF TypeOK, TcOK

\* Between two items the checker is at rest and has declared every name.
LEMMA InvIndependent == Inv => ItemsAreIndependent
<1> SUFFICES ASSUME Inv, Done \/ Task.do = "lower_item"
             PROVE  /\ Len(tc.scopes) = 1
                    /\ DOMAIN tc.scopes[1] = {item.what : item \in Range(module)}
                    /\ tc.loop_depth = 0
                    /\ tc.current_return_type = <<>>
                    /\ \A x \in Range(vals) : x.k \in {"fn", "var"}
  BY DEF ItemsAreIndependent
<1>1. Stands(tc, vals, Rest) /\ DOMAIN tc.scopes[1] = Names
  <2>1. CASE todo = <<>>
    <3>1. Len(todo) = 0
      BY <2>1, SequenceEmpty
    <3>2. PICK p \in Point : Stands(tc, vals, p) /\ Runs(todo, p, Rest)
      BY DEF Inv
    <3>3. p = Rest
      BY <3>1, <3>2 DEF Runs
    <3>4. ToDeclare(todo) = {}
      BY <3>1 DEF ToDeclare
    <3>5. DOMAIN tc.scopes[1] \cup {todo[i].n.what : i \in ToDeclare(todo)} = Names
      BY DEF Inv, FirstPass
    <3> QED
      BY <3>2, <3>3, <3>4, <3>5
  <2>2. CASE todo # <<>>
    <3>1. Task.do = "lower_item"
      BY <2>2 DEF Done
    <3>2. PICK p \in Point, q \in Point : Stands(tc, vals, p) /\ Effect(Task, p, q)
      BY <2>2, Now
    <3>3. p = Rest
      BY <2>2, <3>1, <3>2, ItemTask
    <3>4. DOMAIN tc.scopes[1] = Names
      BY <2>2, <3>1, NoneToDeclare
    <3> QED
      BY <3>2, <3>3, <3>4
  <2> QED
    BY <2>1, <2>2
<1>2. Names = {item.what : item \in Range(module)}
  <2>1. module \in Seq(Range(module))
    BY AstAssumption DEF Inv
  <2>2. \A x : x \in Range(module) <=> \E i \in 1 .. Len(module) : module[i] = x
    BY <2>1, SequenceIntro, SequenceElim
  <2> QED
    BY <2>2 DEF Names
<1>3. IsSequence(vals) /\ Len(vals) \in Nat
  BY SequenceElim DEF Inv, ValuesOK
<1>4. /\ Len(tc.scopes) = 1 /\ tc.loop_depth = 0 /\ tc.current_return_type = <<>>
      /\ \A i \in 1 .. Len(vals) - 0 : vals[i].k \in {"fn", "var"}
  BY <1>1, RestIs DEF Stands, IsDeclaration
<1>5. \A x \in Range(vals) : x.k \in {"fn", "var"}
  <2>1. \A x : x \in Range(vals) <=> \E i \in 1 .. Len(vals) : vals[i] = x
    BY <1>3, SequenceElim
  <2>2. Len(vals) - 0 = Len(vals)
    BY <1>3
  <2> QED
    BY <1>4, <2>1, <2>2
<1> QED
  BY <1>1, <1>2, <1>4, <1>5

-----------------------------------------------------------------------------
(* The theorems.                                                              *)

(***************************************************************************)
(* The invariant holds of every module of the AST: what is left to do      *)
(* always fits the scopes, the loops, the function and the values at hand, *)
(* so no pending code finds a value or a scope missing.                    *)
(***************************************************************************)
THEOREM Invariance == Spec => []Inv
<1> QED
  BY InitInv, StepInv, PTL DEF Spec

(***************************************************************************)
(* The symbol table is never indexed with an id it does not have, and      *)
(* there is always a scope to declare in: the panics at lib.rs:86 and in   *)
(* SymbolTable::get cannot happen, whatever the module and its errors.     *)
(***************************************************************************)
THEOREM TypeCorrect == Spec => []TypeOK
<1> QED
  BY Invariance, InvTypeOK, PTL

(***************************************************************************)
(* Every item is checked from the same state: the global scope with every  *)
(* name of the module, outside of every function and loop, however the     *)
(* bodies before it nest and whatever is wrong with them.                  *)
(***************************************************************************)
THEOREM EveryItemIsIndependent == Spec => []ItemsAreIndependent
<1> QED
  BY Invariance, InvIndependent, PTL
=============================================================================
