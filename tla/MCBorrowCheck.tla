--------------------------- MODULE MCBorrowCheck ---------------------------
(***************************************************************************)
(* Bodies for BorrowCheck: the control-flow graphs that the MIR builder    *)
(* makes of small functions, with every placement of a few statements.     *)
(***************************************************************************)
EXTENDS BorrowCheck

\* `p` and `q` are owner parameters.
MCLocal == 0 .. 10
p == 1
q == 2

-----------------------------------------------------------------------------
(* Statements. *)

Stmt(reads, dest) == [reads |-> reads, dest |-> dest, storage |-> {}]
Mv(l) == [mode |-> "Move", local |-> l]
Cp(l) == [mode |-> "Copy", local |-> l]
Whole(l) == [local |-> l, projected |-> FALSE]
Deref(l) == [local |-> l, projected |-> TRUE]

Consume(l) == Stmt(<<Constant, Mv(l)>>, {})       \* consume(p);
Assign(d, l) == Stmt(<<Mv(l)>>, {Whole(d)})       \* q = p;  p = identity(p);
Take2(k, l) == Stmt(<<Constant, Mv(k), Mv(l)>>, {})  \* take2(p, q);  take2(p, p);
Make(l) == Stmt(<<>>, {Whole(l)})                 \* p = make();
Load(l) == Stmt(<<Cp(l)>>, {})                    \* x = *p;
Store(l) == Stmt(<<>>, {Deref(l)})                \* *p = 1;
Declare(l) == [reads |-> <<>>, dest |-> {}, storage |-> {l}]

\* What a block of a one-owner function does.
OneOwner == {<<>>, <<Consume(p)>>, <<Load(p)>>, <<Make(p)>>, <<Assign(p, p)>>}
FewOfOneOwner == {<<>>, <<Consume(p)>>, <<Load(p)>>, <<Make(p)>>}

\* What a block of a function with two owners does.
TwoOwners == {<<>>, <<Take2(p, q)>>, <<Assign(q, p)>>, <<Make(p), Load(q)>>}

\* What the body of a loop does that declares q.
DeclaresQ == {<<Declare(q), Consume(q)>>, <<Declare(q), Assign(q, p), Load(q)>>,
              <<Declare(q), Make(q), Take2(q, q)>>}

-----------------------------------------------------------------------------
(* Control-flow graphs, as the successors of each block. *)

Straight == [b \in {0} |-> <<>>]
IfElse == (0 :> <<1, 2>>) @@ (1 :> <<3>>) @@ (2 :> <<3>>) @@ (3 :> <<>>)
IfReturn == (0 :> <<1, 2>>) @@ (1 :> <<>>) @@ (2 :> <<3>>) @@ (3 :> <<>>)
IfReturnElseReturn == (0 :> <<1, 2>>) @@ (1 :> <<>>) @@ (2 :> <<>>) @@ (3 :> <<>>)
While == (0 :> <<1>>) @@ (1 :> <<2, 3>>) @@ (2 :> <<1>>) @@ (3 :> <<>>)
DoWhile == (0 :> <<1>>) @@ (1 :> <<2>>) @@ (2 :> <<1, 3>>) @@ (3 :> <<>>)
For == (0 :> <<1>>) @@ (1 :> <<2, 4>>) @@ (2 :> <<3>>) @@ (3 :> <<1>>) @@ (4 :> <<>>)

\* while (c) { if (d) break; ... }
WhileBreak == (0 :> <<1>>) @@ (1 :> <<2, 3>>) @@ (2 :> <<4, 5>>) @@ (3 :> <<>>)
              @@ (4 :> <<3>>) @@ (5 :> <<6>>) @@ (6 :> <<1>>)

\* while (c) { if (d) return; else return; ... }: block 6 is dead
WhileDead == (0 :> <<1>>) @@ (1 :> <<2, 3>>) @@ (2 :> <<4, 5>>) @@ (3 :> <<>>)
             @@ (4 :> <<>>) @@ (5 :> <<>>) @@ (6 :> <<1>>)

\* if (c) ...; if (d) ...;
IfThenIf == (0 :> <<1, 2>>) @@ (1 :> <<3>>) @@ (2 :> <<3>>) @@ (3 :> <<4, 5>>)
            @@ (4 :> <<6>>) @@ (5 :> <<6>>) @@ (6 :> <<>>)

\* The bodies with graph g whose blocks in `where` do something of `stmts` and
\* branch on one of `conds`; the other blocks are empty.
BodiesOf(g, where, stmts, conds, owners) ==
  {[size |-> Cardinality(DOMAIN g),
    blocks |-> [b \in DOMAIN g |->
                  [stmts |-> IF b \in where THEN f[b] ELSE <<>>,
                   cond |-> IF b \in where /\ Len(g[b]) = 2 THEN c ELSE <<>>,
                   succs |-> g[b]]],
    owners |-> owners,
    argCount |-> 1] : f \in [where -> stmts], c \in conds}

Conds == {<<>>, <<Mv(p)>>}

\* With one owner: every small graph, exhaustively.
SmallBodies == UNION {BodiesOf(g, 0 .. 3, OneOwner, Conds, {p}) :
                        g \in {IfElse, IfReturn, IfReturnElseReturn, While, DoWhile}}

\* ... and the larger graphs with the statements where they matter.
LargerBodies ==
  BodiesOf(For, {0, 2, 3, 4}, FewOfOneOwner, {<<>>}, {p})
  \cup BodiesOf(WhileBreak, {2, 3, 4, 6}, FewOfOneOwner, {<<>>}, {p})
  \cup BodiesOf(WhileDead, {1, 3, 6}, FewOfOneOwner, Conds, {p})
  \cup BodiesOf(IfThenIf, {1, 2, 4, 6}, FewOfOneOwner, {<<>>}, {p})

\* With two owners, q uninitialized at entry.
TwoOwnerBodies ==
  BodiesOf(Straight, {0}, {<<s, t, u>> : s, t, u \in {Take2(p, q), Assign(q, p), Make(p), Load(q), Store(p)}},
           {<<>>}, {p, q})
  \cup {[m EXCEPT !.blocks[2].stmts = d] :
          m \in BodiesOf(While, {0, 1, 3}, FewOfOneOwner, Conds, {p, q}), d \in DeclaresQ}
  \cup UNION {BodiesOf(g, 1 .. 3, TwoOwners, Conds, {p, q}) : g \in {IfElse, While}}

\* if (c1) b(1)  if (c2) b(2) ... with k owners p1 .. pk, where b(i) is what
\* stmts[i] says: the blocks are 3i - 2 (then), 3i - 1 (else) and 3i (join).
IfChain(k, stmts) ==
  [size |-> 3 * k + 1,
   blocks |-> [b \in 0 .. 3 * k |->
     [stmts |-> IF b % 3 = 1 THEN stmts[(b + 2) \div 3] ELSE <<>>,
      cond |-> <<>>,
      succs |-> CASE b % 3 = 0 -> IF b = 3 * k THEN <<>> ELSE <<b + 1, b + 2>>
                  [] b % 3 = 1 -> <<b + 2>>
                  [] OTHER -> <<b + 1>>]],
   owners |-> 1 .. k,
   argCount |-> k]

\* Chains too long for the iteration limit; in the second every owner is used
\* after its move.
LongChains ==
  {IfChain(10, s) :
     s \in {[i \in 1 .. 10 |-> <<Consume(i)>>],
            [i \in 1 .. 10 |-> IF i % 2 = 0 THEN <<Take2(i, i)>> ELSE <<Consume(i), Load(i)>>]}}

MCBodies == SmallBodies \cup LargerBodies \cup TwoOwnerBodies \cup LongChains

-----------------------------------------------------------------------------
(* The bodies of the other run. *)

\* if (c) ... else ...; with one owner
IfElseBodies == BodiesOf(IfElse, 0 .. 3, OneOwner, Conds, {p})

=============================================================================
