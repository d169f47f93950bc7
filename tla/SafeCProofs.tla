---------------------------- MODULE SafeCProofs -----------------------------
(***************************************************************************)
(* What the builder hands over is a body as the borrow checker expects it, *)
(* so that what is proved of the checker for every body holds of the       *)
(* bodies of every program.                                                *)
(***************************************************************************)
EXTENDS SafeC, MirBuildProofs

B == INSTANCE BorrowCheckProofs WITH pc <- checked, Local <- 0 .. MaxLocal, Bodies <- {}

-----------------------------------------------------------------------------
(* SafeC's instance of the checker is that of its proofs.                     *)

LEMMA SameChecker == Check!Next <=> B!Next
BY DEF
    Check!Next, B!Next, Check!CutOff, B!CutOff, Check!FinishBlock, B!FinishBlock,
    Check!Finished, B!Finished, Check!Pop, B!Pop, Check!Stop, B!Stop, Check!WalkStatement,
    B!WalkStatement, Check!Front, B!Front, Check!MaxIters, B!MaxIters, Check!AfterReads,
    B!AfterReads, Check!Blocks, B!Blocks, Check!Cond, B!Cond, Check!JoinStates, B!JoinStates,
    Check!NoState, B!NoState, Check!PushSuccs, B!PushSuccs, Check!Reports, B!Reports,
    Check!Stmts, B!Stmts, Check!SuccSet, B!SuccSet, Check!Succs, B!Succs, Check!vars, B!vars,
    Check!Last, B!Last, Check!AfterStatement, B!AfterStatement, Check!StateAtRead,
    B!StateAtRead, Check!JoinLocal, B!JoinLocal, Check!PushSucc, B!PushSucc, Check!Range,
    B!Range

LEMMA Assumptions ==
  /\ B!LocalAssumption /\ B!BodiesAssumption /\ B!NoBlockAssumption
BY NumbersAssumption
DEF B!LocalAssumption, B!BodiesAssumption, B!NoBlockAssumption

-----------------------------------------------------------------------------
(* The invariant.                                                             *)

\* check_body's variables before it is called.
Waiting ==
  /\ visited = {} /\ iters = 0 /\ cur = NoBlock /\ ip = 1 /\ state = B!NoState
  /\ already = FALSE /\ moved_at = [l \in 0 .. MaxLocal |-> NoSpan] /\ diags = {}

SafeCInv ==
  /\ fn \in Programs
  /\ Inv
  /\ \/ checked = "waiting" /\ Waiting
     \/ checked # "waiting" /\ pc = "done" /\ B!Inv

LEMMA BuilderBegins == Init => Inv
BY InitInv

LEMMA BuilderSteps == Inv /\ [Next]_vars => Inv'
BY StepInv

LEMMA CheckerBegins == (B!Begun => B!Inv)'
BY B!BeginInv, Assumptions, PTL

LEMMA CheckerSteps == B!Inv /\ [B!Next]_(B!vars) => B!Inv'
BY B!StepInv, Assumptions

-----------------------------------------------------------------------------
(* The body that is handed over.                                              *)

LEMMA SequenceOf ==
  ASSUME NEW n \in Nat, NEW S, NEW g, g = [i \in 1 .. n |-> g[i]], \A i \in 1 .. n : g[i] \in S
  PROVE  g \in Seq(S)
BY SequenceByIndex, SequenceOver

\* The locals are those the checker knows.
Fits == Len(me.locals) <= MaxLocal + 1

LEMMA PlaceFits ==
  ASSUME BuilderOK(me), Fits, NEW pl, PlaceIn(me, pl)
  PROVE  pl.local \in 0 .. MaxLocal /\ PlaceOf(pl) \in B!Place
<1>1. Len(me.locals) \in Nat
  BY BuilderIs
<1>2. pl.local \in 0 .. Len(me.locals) - 1
  BY DEF PlaceIn, IsPlaceOf, Locals
<1>3. pl.local \in 0 .. MaxLocal
  BY <1>1, <1>2, NumbersAssumption DEF Fits
<1> QED
  BY <1>3 DEF PlaceOf, B!Place

LEMMA OperandFits ==
  ASSUME BuilderOK(me), Fits, NEW o, OperandIn(me, o)
  PROVE  OperandOf(o) \in B!Operand
<1>1. CASE o = Const(o.const)
  <2>1. o.mode = "Const"
    BY <1>1 DEF Const
  <2> QED
    BY <2>1 DEF OperandOf, B!Operand, B!Constant, Check!Constant
<1>2. CASE PlaceIn(me, o.place) /\ o \in {Copy(o.place), Move(o.place)}
  <2>1. o.mode \in {"Copy", "Move"} /\ o.place.local \in 0 .. MaxLocal
    BY <1>2, PlaceFits DEF Copy, Move
  <2> QED
    BY <2>1 DEF OperandOf, B!Operand
<1> QED
  BY <1>1, <1>2 DEF OperandIn

LEMMA OperandsFit ==
  ASSUME BuilderOK(me), Fits, NEW os, IsSequence(os), \A i \in 1 .. Len(os) : OperandIn(me, os[i])
  PROVE  OperandsOf(os) \in Seq(B!Operand)
<1>1. Len(os) \in Nat /\ DOMAIN os = 1 .. Len(os)
  BY SequenceElim
<1> DEFINE r == OperandsOf(os)
<1>2. r = [i \in 1 .. Len(os) |-> r[i]] /\ \A i \in 1 .. Len(os) : r[i] \in B!Operand
  BY <1>1, OperandFits DEF OperandsOf
<1> HIDE DEF r
<1>3. r \in Seq(B!Operand)
  BY <1>1, <1>2, SequenceOf
<1> QED
  BY <1>3 DEF r

LEMMA StatementFits ==
  ASSUME BuilderOK(me), Fits, NEW s, StatementIn(me, s)
  PROVE  StatementOf(s) \in B!Statement
<1>1. /\ IsSequence(s.reads) /\ \A i \in 1 .. Len(s.reads) : OperandIn(me, s.reads[i])
      /\ IsSequence(s.dest) /\ \A i \in 1 .. Len(s.dest) : PlaceIn(me, s.dest[i])
      /\ IsSequence(s.of) /\ \A i \in 1 .. Len(s.of) : PlaceIn(me, s.of[i])
  BY DEF StatementIn
<1>2. OperandsOf(s.reads) \in Seq(B!Operand)
  BY <1>1, OperandsFit
<1>3. \A pl \in Range(s.dest) \cup Range(s.of) : PlaceIn(me, pl)
  BY <1>1, SequenceElim
<1>4. /\ \A pl \in Range(s.dest) : PlaceOf(pl) \in B!Place
      /\ \A pl \in Range(s.of) : pl.local \in 0 .. MaxLocal
  BY <1>3, PlaceFits
<1> QED
  BY <1>2, <1>4 DEF StatementOf, B!Statement

LEMMA BlockFits ==
  ASSUME BuilderOK(me), Fits, NEW b, BlockIn(me, b)
  PROVE  B!IsBlock(BlockOf(b), Len(me.blocks))
<1>1. IsSequence(b.stmts) /\ \A i \in 1 .. Len(b.stmts) : StatementIn(me, b.stmts[i])
  BY DEF BlockIn
<1>2. Len(b.stmts) \in Nat /\ DOMAIN b.stmts = 1 .. Len(b.stmts)
  BY <1>1, SequenceElim
<1> DEFINE r == [i \in DOMAIN b.stmts |-> StatementOf(b.stmts[i])]
<1>3. r \in Seq(B!Statement)
  <2>1. r = [i \in 1 .. Len(b.stmts) |-> r[i]] /\ \A i \in 1 .. Len(b.stmts) : r[i] \in B!Statement
    BY <1>1, <1>2, StatementFits
  <2> HIDE DEF r
  <2> QED
    BY <1>2, <2>1, SequenceOf
<1>4. /\ IsSequence(b.term.cond) /\ \A i \in 1 .. Len(b.term.cond) : OperandIn(me, b.term.cond[i])
      /\ b.term.to \in Seq(Blocks(me)) /\ Len(b.term.to) <= 2
  <2>1. CASE b.term \in {Unreachable, Return}
    <3>1. b.term.to = <<>> /\ b.term.cond = <<>>
      BY <2>1 DEF Unreachable, Return
    <3> QED
      BY <3>1, SequenceEmpty, EmptySeq
  <2>2. ASSUME NEW c \in Blocks(me), b.term = Goto(c)
        PROVE  <1>4!1 /\ <1>4!2
    <3>1. b.term.to = <<c>> /\ b.term.cond = <<>>
      BY <2>2 DEF Goto
    <3>2. <<c>> \in Seq(Blocks(me)) /\ Len(<<c>>) = 1
      OBVIOUS
    <3> QED
      BY <3>1, <3>2, SequenceEmpty
  <2>3. ASSUME NEW o, NEW b1 \in Blocks(me), NEW b2 \in Blocks(me), OperandIn(me, o),
               b.term = SwitchInt(o, b1, b2)
        PROVE  <1>4!1 /\ <1>4!2
    <3>1. b.term.to = <<b1, b2>> /\ b.term.cond = <<o>>
      BY <2>3 DEF SwitchInt
    <3>2. <<b1, b2>> \in Seq(Blocks(me)) /\ Len(<<b1, b2>>) = 2
      OBVIOUS
    <3> QED
      BY <2>3, <3>1, <3>2, SequenceOne
  <2>4. TermIn(me, b.term)
    BY DEF BlockIn
  <2> QED
    BY <2>1, <2>2, <2>3, <2>4 DEF TermIn
<1>5. OperandsOf(b.term.cond) \in Seq(B!Operand)
  BY <1>4, OperandsFit
<1> QED
  BY <1>3, <1>4, <1>5 DEF BlockOf, B!IsBlock, Blocks

LEMMA BodyFits ==
  ASSUME fn \in Programs, BuilderOK(me), Fits
  PROVE  B!IsBody(BodyOf(fn, me))
<1>1. Len(me.blocks) \in Nat \ {0} /\ Len(me.locals) \in Nat
  BY BuilderIs
<1>2. \A i \in 1 .. Len(me.blocks) : BlockIn(me, me.blocks[i])
  BY DEF BuilderOK
<1>3. ASSUME NEW b \in 0 .. Len(me.blocks) - 1
      PROVE  B!IsBlock(BlockOf(me.blocks[b + 1]), Len(me.blocks))
  <2>1. b + 1 \in 1 .. Len(me.blocks)
    BY <1>1
  <2> QED
    BY <1>2, <2>1, BlockFits
<1>4. Len(fn.params) \in Nat
  BY HirAssumption DEF IsFunction
<1>5. {l \in 0 .. Len(me.locals) - 1 : me.locals[l + 1].own} \subseteq 0 .. MaxLocal
  BY <1>1, NumbersAssumption DEF Fits
<1> QED
  BY <1>1, <1>3, <1>4, <1>5 DEF BodyOf, B!IsBody

-----------------------------------------------------------------------------
(* Every step keeps the invariant.                                            *)

LEMMA SafeCBegins == SafeCInit => SafeCInv
<1> SUFFICES ASSUME SafeCInit PROVE SafeCInv
  OBVIOUS
<1>1. Init /\ fn \in Programs
  BY DEF SafeCInit, Init
<1>2. Inv
  BY <1>1, BuilderBegins
<1>3. Waiting /\ checked = "waiting"
  BY DEF SafeCInit, Waiting, Check!NoState, B!NoState
<1> QED
  BY <1>1, <1>2, <1>3 DEF SafeCInv

\* check_body's setup is that of the checker.
LEMMA HandedOver ==
  ASSUME SafeCInv, CheckBody
  PROVE  B!Begun' /\ checked' # "waiting" /\ pc = "done" /\ UNCHANGED vars
<1>1. Waiting /\ fn \in Programs /\ BuilderOK(me) /\ Fits
  BY DEF SafeCInv, CheckBody, Inv, Fits
<1>2. /\ body' = BodyOf(fn, me)
      /\ in_state' = [b \in 0 .. body'.size - 1 |-> IF b = 0 THEN B!EntryState(body') ELSE B!NoState]
      /\ worklist' = <<0>>
      /\ checked' = IF body'.owners = {} THEN "done" ELSE "run"
      /\ UNCHANGED <<vars, visited, iters, cur, ip, state, already, moved_at, diags>>
  BY DEF CheckBody, Check!EntryState, B!EntryState, Check!NoState, B!NoState
<1>3. B!IsBody(body')
  BY <1>1, <1>2, BodyFits
<1>4. B!Start'
  BY <1>1, <1>2 DEF Waiting, B!Start, B!Blocks
<1> QED
  BY <1>2, <1>3, <1>4 DEF B!Begun, CheckBody

LEMMA SafeCSteps == SafeCInv /\ [SafeCNext]_safeCVars => SafeCInv'
<1> SUFFICES ASSUME SafeCInv, [SafeCNext]_safeCVars PROVE SafeCInv'
  OBVIOUS
<1>1. CASE Lower
  <2>1. checked = "waiting" /\ Waiting
    BY <1>1 DEF SafeCInv, Lower
  <2>2. Next
    BY <1>1 DEF Lower
  <2>3. Inv'
    BY <2>2, BuilderSteps DEF SafeCInv
  <2>4. fn' = fn
    BY <2>2, FunctionStays
  <2>5. UNCHANGED checkVars
    BY <1>1 DEF Lower
  <2>6. Waiting' /\ checked' = "waiting"
    BY <2>1, <2>5 DEF Waiting, checkVars, B!NoState
  <2> QED
    BY <2>3, <2>4, <2>6 DEF SafeCInv
<1>2. CASE CheckBody
  <2>1. B!Inv' /\ checked' # "waiting" /\ pc = "done" /\ UNCHANGED vars
    BY <1>2, HandedOver, CheckerBegins
  <2>2. Inv' /\ fn' = fn /\ pc' = pc
    BY <2>1, BuilderSteps DEF SafeCInv, vars
  <2> QED
    BY <2>1, <2>2 DEF SafeCInv
<1>3. CASE Walk
  <2>1. checked = "run" /\ B!Next /\ UNCHANGED vars
    BY <1>3, SameChecker DEF Walk
  <2>2. Inv' /\ fn' = fn /\ pc' = pc
    BY <2>1, BuilderSteps DEF SafeCInv, vars
  <2>3. B!Inv'
    BY <2>1, CheckerSteps DEF SafeCInv
  <2>4. checked' # "waiting"
    BY <2>3 DEF B!Inv, B!ExactInv, B!SoundInv, B!TypeInv, B!TypeOK
  <2> QED
    BY <2>1, <2>2, <2>3, <2>4 DEF SafeCInv
<1>4. CASE Terminating \/ UNCHANGED safeCVars
  <2>1. UNCHANGED vars /\ UNCHANGED checkVars
    BY <1>4 DEF Terminating, safeCVars
  <2>2. Inv' /\ fn' = fn /\ pc' = pc
    BY <2>1, BuilderSteps DEF SafeCInv, vars
  <2>3. B!Inv => B!Inv'
    BY <2>1, CheckerSteps DEF checkVars, B!vars
  <2>4. (Waiting => Waiting') /\ checked' = checked
    BY <2>1 DEF Waiting, checkVars, B!NoState
  <2> QED
    BY <2>2, <2>3, <2>4 DEF SafeCInv
<1> QED
  BY <1>1, <1>2, <1>3, <1>4 DEF SafeCNext

LEMMA SafeCInvariant == SafeCSpec => []SafeCInv
BY SafeCBegins, SafeCSteps, PTL DEF SafeCSpec

-----------------------------------------------------------------------------
(* What -fsafe-c promises of every function.                                  *)

(***************************************************************************)
(* The checker does not touch the builder: the steps of -fsafe-c are those *)
(* of the builder, or leave its variables alone (check_body borrows the    *)
(* finished body, borrowck lib.rs:60).  What holds of the builder holds    *)
(* under -fsafe-c.                                                         *)
(***************************************************************************)
THEOREM BuilderIsUndisturbed == SafeCSpec => Spec
<1>1. SafeCInit => Init
  BY DEF SafeCInit
<1>2. [SafeCNext]_safeCVars => [Next]_vars
  <2>1. Lower => Next
    BY DEF Lower
  <2>2. CheckBody \/ Walk \/ Terminating \/ UNCHANGED safeCVars => UNCHANGED vars
    BY DEF CheckBody, Walk, Terminating, safeCVars, vars
  <2> QED
    BY <2>1, <2>2 DEF SafeCNext
<1> QED
  BY <1>1, <1>2, PTL DEF SafeCSpec, Spec

(***************************************************************************)
(* The body that reaches the borrow checker, or was built by the time the  *)
(* checker runs, has all blocks patched, no open loop and no operand left: *)
(* the checker never walks the Unreachable of new_block (build.rs:113).    *)
(***************************************************************************)
THEOREM HandsOverClosedBlocks == SafeCSpec => []EveryBlockClosed
BY BuilderIsUndisturbed, BodiesAreClosed

(***************************************************************************)
(* Whatever the function is, the checker's promises hold of its MIR: its   *)
(* indices stay in range, every report is a use after a move on some path  *)
(* of the control-flow graph, each is made once, a drained worklist leaves *)
(* the exact solution and has visited the reachable blocks, uses after a   *)
(* move within one block are reported and, where control flow does not     *)
(* join, all are (check_body, borrowck lib.rs:60-162).                     *)
(***************************************************************************)
ChecksEveryBody == checked # "waiting" => B!Correct

THEOREM ChecksAreCorrect == SafeCSpec => []ChecksEveryBody
<1>1. SafeCInv => ChecksEveryBody
  BY B!InvCorrect, Assumptions DEF SafeCInv, ChecksEveryBody
<1> QED
  BY <1>1, SafeCInvariant, PTL

=============================================================================
