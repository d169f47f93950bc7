---------------------------- MODULE OwnerMeaning ----------------------------
(***************************************************************************)
(* What ownership means in the source (SPEC.md: linear, moved on call and  *)
(* assignment): on which paths of a function an owner is used after it has *)
(* been given away.  Conditions may go either way.                         *)
(*                                                                         *)
(* A path's history is the set of the owners that have been given away, of *)
(* those that were used after that and of those that were read or written  *)
(* through but not given away.  Run and Follow map a set of histories to   *)
(* their continuations.  The operators are recursive: only TLC uses this   *)
(* module.                                                                 *)
(***************************************************************************)
EXTENDS SafeC, HirParts

Beginning == [given |-> {}, misused |-> {}, kept |-> {}]

Use(h, x) == [h EXCEPT !.misused = IF x \in h.given THEN @ \cup {x} ELSE @]
GiveAway(h, x) == [Use(h, x) EXCEPT !.given = @ \cup {x}]
Keep(h, x) == [Use(h, x) EXCEPT !.kept = @ \cup {x}]
Renew(h, x) == [h EXCEPT !.given = @ \ {x}]

-----------------------------------------------------------------------------
(* Expressions.  With `gives`, the value goes to a new owner.                 *)

Part(e, gives) == [e |-> e, gives |-> gives]
Parts(es, gives) == [i \in DOMAIN es |-> Part(es[i], gives)]

\* What an expression that only says where to write evaluates.
TargetParts(e) ==
  IF e.k = "ref" \/ (e.k = "deref" /\ e.args[1].k = "ref") THEN <<>> ELSE Parts(e.args, FALSE)

\* The orders in which the parts of an expression can be evaluated.
Orders(e, gives) ==
  CASE e.k = "call" -> {Parts(e.args, TRUE)}
    [] e.k = "assign" /\ e.what = "=" -> {Append(TargetParts(e.args[1]), Part(e.args[2], TRUE))}
    [] e.k = "comma" -> {<<Part(e.args[1], FALSE), Part(e.args[2], gives)>>}
    [] e.k = "ternary" -> {<<Part(e.args[1], FALSE), Part(e.args[i], gives)>> : i \in {2, 3}}
    [] e.k = "logical" -> {Parts(<<e.args[1]>>, FALSE), Parts(e.args, FALSE)}
    [] e.k = "deref" /\ e.args[1].k = "ref" /\ gives -> {<<>>}
    [] OTHER -> {Parts(e.args, FALSE)}

Written(target, h) ==
  CASE target.k = "ref" -> Renew(h, target.what)
    [] target.k \in {"deref", "index"} /\ target.args[1].own /\ target.args[1].k = "ref" ->
         Keep(h, target.args[1].what)
    [] OTHER -> h

\* What the expression itself does, its parts evaluated.  An assignment that is
\* given away leaves its value in two owners.
Effect(e, gives, h) ==
  CASE e.k = "ref" /\ e.own -> IF gives THEN GiveAway(h, e.what) ELSE Keep(h, e.what)
    [] e.k = "deref" /\ e.args[1].k = "ref" /\ e.args[1].own -> Use(h, e.args[1].what)
    [] e.k \in {"assign", "pre", "post"} ->
         IF gives /\ e.args[1].own /\ e.args[1].k = "ref"
         THEN Keep(Written(e.args[1], h), e.args[1].what) ELSE Written(e.args[1], h)
    [] OTHER -> h

RECURSIVE Run(_, _, _)
RunAll(parts, H) == FoldLeft(LAMBDA S, p : Run(p.e, S, p.gives), H, parts)
Run(e, H, gives) ==
  {Effect(e, gives, h) : h \in UNION {RunAll(parts, H) : parts \in Orders(e, gives)}}

-----------------------------------------------------------------------------
(* Statements, in terms of expressions, declarations, jumps and loops.        *)

Evaluate(e, gives) == [k |-> "evaluate", e |-> e, gives |-> gives]
Evaluations(es, gives) == [i \in DOMAIN es |-> Evaluate(es[i], gives)]
Bind(x) == [k |-> "bind", sym |-> x]
Leave(to) == [k |-> "jump", to |-> to]
Loop(before, asks, inner, after) ==
  [k |-> "loop", before |-> Parts(before, FALSE), asks |-> asks, body |-> inner,
   after |-> Parts(after, FALSE)]

\* The sequences that a statement may be.
Sequences(s) ==
  CASE s.k = "compound" -> {s.body}
    [] s.k = "expr" -> {<<Evaluate(s.e, FALSE)>>}
    [] s.k = "decl" ->
         {FlattenSeq([i \in DOMAIN s.ds |-> Append(Evaluations(s.ds[i].init, TRUE), Bind(s.ds[i].sym))])}
    [] s.k = "if" -> {<<Evaluate(s.c, FALSE), s.then>>, <<Evaluate(s.c, FALSE)>> \o s.else}
    [] s.k = "while" -> {<<Loop(<<s.c>>, "before", s.body, <<>>)>>}
    [] s.k = "do_while" -> {<<Loop(<<>>, "after", s.body, <<s.c>>)>>}
    [] s.k = "for" ->
         {Append(s.init, Loop(s.cond, IF s.cond = <<>> THEN "never" ELSE "before", s.body, s.step))}
    [] s.k = "return" -> {Append(Evaluations(s.value, TRUE), Leave("return"))}
    [] s.k \in {"break", "continue"} -> {<<Leave(s.k)>>}
    [] s.k = "empty" -> {<<>>}

\* The histories of the paths that go on after a statement, of those that leave
\* it by a jump, and of those that may stay in it forever.
Paths(H) == [next |-> H, break |-> {}, continue |-> {}, return |-> {}, forever |-> {}]
Union(ps) == [j \in DOMAIN Paths({}) |-> UNION {p[j] : p \in ps}]

RECURSIVE Follow(_, _)
FollowAll(ss, H) ==
  FoldLeft(LAMBDA p, s : Union({[p EXCEPT !.next = {}], Follow(s, p.next)}), Paths(H), ss)

\* One round of a loop, whose paths so far are l; those at its entry are in
\* l.continue.
Round(s, l) ==
  LET before == RunAll(s.before, l.continue)
      round == Follow(s.body, before)
      after == RunAll(s.after, round.next \cup round.continue)
      exits == CASE s.asks = "before" -> before [] s.asks = "after" -> after [] s.asks = "never" -> {}
  IN Union({l, Paths(round.break \cup exits),
            [round EXCEPT !.next = {}, !.break = {}, !.continue = after]})

\* Going round often enough finds nothing new.
Rounds == [i \in 1 .. Cardinality(body.owners) + 2 |-> i]

Left(l) == [l EXCEPT !.continue = {}, !.forever = @ \cup l.continue]

Follow(s, H) ==
  CASE s.k = "evaluate" -> Paths(Run(s.e, H, s.gives))
    [] s.k = "bind" -> Paths({Renew(h, s.sym) : h \in H})
    [] s.k = "jump" -> [Paths({}) EXCEPT ![s.to] = H]
    [] s.k = "loop" -> Left(FoldLeft(LAMBDA l, i : Round(s, l), [Paths({}) EXCEPT !.continue = H], Rounds))
    [] OTHER -> Union({FollowAll(ss, H) : ss \in Sequences(s)})

Histories == LET p == FollowAll(fn.body, {Beginning}) IN UNION {p[j] : j \in DOMAIN p}

-----------------------------------------------------------------------------
(* Properties.                                                                *)

Misused(H) == {me.sym_to_local[x] : x \in UNION {h.misused : h \in H}}
Reported == {d.local : d \in diags}

\* No block of the body has two predecessors.
NoJoin == \A b, c \in Check!Blocks : Check!SuccSet(b) \cap Check!SuccSet(c) # {} => b = c

(***************************************************************************)
(* From the source to the report.  In a function that reads its owners     *)
(* only to give them away, every owner that is reported is used after it   *)
(* was given away on some path of the source, and where control flow does  *)
(* not join, every such owner is reported.                                 *)
(***************************************************************************)
MisusesAre(H) ==
  (\A h \in H : h.kept = {}) =>
    /\ Reported \subseteq Misused(H)
    /\ checked = "done" /\ NoJoin => Misused(H) \subseteq Reported

ReportsAreTheMisuses == checked \in {"done", "cut"} => MisusesAre(Histories)

\* What an expression writes, if it writes.
Targets(e) == IF e.k \in {"assign", "pre", "post"} THEN {e.args[1]} ELSE {}

\* The variables of the function.
Variables ==
  Range([i \in DOMAIN fn.params |-> fn.params[i].sym])
    \cup UNION {{d.sym : d \in Range(s.ds)} : s \in {t \in StmtsOf({fn}) : t.k = "decl"}}

HasPlace(e) == e.k \in {"deref", "index"} \/ (e.k = "ref" /\ e.what \in Variables)

(***************************************************************************)
(* "typeck guarantees an lvalue here" (build.rs:704, 723): the expects     *)
(* fail in no function that writes only its own variables and what is      *)
(* behind pointers.  Each of them has its local when it is written,        *)
(* wherever it was declared: as a parameter, in a block, in the head of a  *)
(* for.  They do fail where a global variable, a decayed array (a cast) or *)
(* what is no lvalue at all is written.                                    *)
(***************************************************************************)
PanicsOnlyWithoutPlace ==
  pc = "panic" => \E e \in UNION {Targets(x) : x \in ExprsOf({fn})} : ~HasPlace(e)

-----------------------------------------------------------------------------
(* What the repository says, and the code does not do.                        *)

\* SPEC.md:108: an owner is moved on call and assignment.  What is reported
\* has been given away before.
OnlyMisusesAreReported == checked \in {"done", "cut"} => Reported \subseteq Misused(Histories)
=============================================================================
