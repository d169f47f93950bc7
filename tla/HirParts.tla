------------------------------ MODULE HirParts ------------------------------
(***************************************************************************)
(* The expressions and statements in HIR functions, as MirBuild has them:  *)
(* values for its constants HirExpr and HirStmt.  They are collected level *)
(* by level, the parts of all nodes of a level at once.                    *)
(* The operators are recursive: only TLC uses this module.                 *)
(***************************************************************************)
EXTENDS SequencesExt

\* What the sequences parts(x), x in S, contain.
PartsIn(S, parts(_)) ==
  LET longest == Max({0} \cup {Len(parts(x)) : x \in S}) IN
  {parts(p[1])[p[2]] : p \in {q \in S \X (1 .. longest) : q[2] <= Len(parts(q[1]))}}

\* The statements and the expressions that are parts of a statement.
StmtParts(s) ==
  CASE s.k = "compound" -> s.body
    [] s.k = "if" -> <<s.then>> \o s.else
    [] s.k \in {"while", "do_while"} -> <<s.body>>
    [] s.k = "for" -> <<s.body>> \o s.init
    [] OTHER -> <<>>

ExprParts(s) ==
  CASE s.k = "expr" -> <<s.e>>
    [] s.k = "decl" -> FlattenSeq([i \in DOMAIN s.ds |-> s.ds[i].init])
    [] s.k \in {"if", "while", "do_while"} -> <<s.c>>
    [] s.k = "for" -> s.cond \o s.step
    [] s.k = "return" -> s.value
    [] OTHER -> <<>>

RECURSIVE StmtsFrom(_), ExprsFrom(_)
StmtsFrom(S) == IF S = {} THEN {} ELSE S \cup StmtsFrom(PartsIn(S, StmtParts))
ExprsFrom(S) ==
  IF S = {} THEN {} ELSE S \cup ExprsFrom(PartsIn(S, LAMBDA e : e.args))

StmtsOf(programs) == StmtsFrom(PartsIn(programs, LAMBDA f : f.body))
ExprsOf(programs) == ExprsFrom(PartsIn(StmtsOf(programs), ExprParts))
=============================================================================
