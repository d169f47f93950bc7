------------------------- MODULE BorrowCheckProofs -------------------------
(***************************************************************************)
(* Theorems about BorrowCheck, for every set of locals and every body.     *)
(***************************************************************************)
EXTENDS BorrowCheck, TLAPS

-----------------------------------------------------------------------------
(* Lemmas about the operators of the specification. *)

LEMMA LengthType ==
  ASSUME NEW S, NEW s \in Seq(S)
  PROVE  Len(s) \in Nat /\ DOMAIN s = 1 .. Len(s) /\ \A k \in 1 .. Len(s) : s[k] \in S
OBVIOUS

\* The join of two states of a local is one of the two.
LEMMA JoinIsOneOf ==
  ASSUME NEW a \in LocalState, NEW b \in LocalState
  PROVE  /\ JoinLocal(a, b) \in {a, b}
         /\ JoinLocal(a, b) = "Moved" <=> "Moved" \in {a, b}
BY DEF JoinLocal, LocalState

LEMMA JoinType ==
  ASSUME NEW m1 \in StateMap, NEW m2 \in StateMap
  PROVE  /\ JoinStates(m1, m2) \in StateMap
         /\ \A l \in Local : JoinStates(m1, m2)[l] = JoinLocal(m1[l], m2[l])
BY JoinIsOneOf DEF JoinStates, StateMap

LEMMA ReadType ==
  ASSUME NEW st \in StateMap, NEW reads, NEW k
  PROVE  StateAtRead(st, reads, k) \in StateMap
BY DEF StateAtRead, StateMap, LocalState

LEMMA AfterReadsType ==
  ASSUME NEW st \in StateMap, NEW reads
  PROVE  AfterReads(st, reads) \in StateMap
BY ReadType DEF AfterReads

LEMMA AfterStatementType ==
  ASSUME NEW st \in StateMap, NEW s
  PROVE  AfterStatement(st, s) \in StateMap
<1>1. AfterReads(st, s.reads) \in StateMap
  BY AfterReadsType
<1> QED
  BY <1>1 DEF AfterStatement, StateMap, LocalState

\* What IsBody says of the block b of the body under check.
LEMMA BlockType ==
  ASSUME IsBody(body), NEW b \in Blocks
  PROVE  /\ Stmts(b) \in Seq(Statement)
         /\ Cond(b) \in Seq(Operand)
         /\ Succs(b) \in Seq(Blocks)
         /\ Len(Succs(b)) \in 0 .. 2
         /\ SuccSet(b) \subseteq Blocks
         /\ body.owners \subseteq Local
         /\ 0 \in Blocks
         /\ \A i \in 1 .. NSteps(b) : Reads(b, i) \in Seq(Operand)
<1>1. IsBlock(body.blocks[b], body.size) /\ body.size \in Nat \ {0}
  BY DEF IsBody, Blocks
<1>2. /\ Stmts(b) \in Seq(Statement)
      /\ Cond(b) \in Seq(Operand)
      /\ Succs(b) \in Seq(Blocks)
      /\ Len(Succs(b)) <= 2
  BY <1>1 DEF IsBlock, Stmts, Cond, Succs, Blocks
<1>3. Len(Succs(b)) \in 0 .. 2
  <2>1. Len(Succs(b)) \in Nat
    BY <1>2, LengthType
  <2>2. \A n \in Nat : n <= 2 => n \in 0 .. 2
    OBVIOUS
  <2>3. Len(Succs(b)) <= 2
    BY <1>2
  <2> QED
    BY <2>1, <2>2, <2>3, Zenon
<1>4. SuccSet(b) \subseteq Blocks
  BY <1>2 DEF SuccSet, Range
<1>5. \A i \in 1 .. NSteps(b) : Reads(b, i) \in Seq(Operand)
  <2> SUFFICES ASSUME NEW i \in 1 .. NSteps(b)
               PROVE  Reads(b, i) \in Seq(Operand)
    OBVIOUS
  <2>1. i <= Len(Stmts(b)) => Stmts(b)[i] \in Statement
    BY <1>2 DEF NSteps
  <2> QED
    BY <1>2, <2>1 DEF Reads, Statement
<1> QED
  BY <1>1, <1>2, <1>3, <1>4, <1>5 DEF IsBody, Blocks

-----------------------------------------------------------------------------
(* Pushing the successors. *)

LEMMA PushSuccType ==
  ASSUME NEW B, NEW wl \in Seq(B), IsInjective(wl), NEW out, NEW s \in B
  PROVE  /\ PushSucc(wl, out, s) \in Seq(B)
         /\ IsInjective(PushSucc(wl, out, s))
         /\ Range(wl) \subseteq Range(PushSucc(wl, out, s))
         /\ Range(PushSucc(wl, out, s)) \subseteq Range(wl) \cup {s}
         /\ ~already \/ JoinStates(in_state[s], out) # in_state[s]
              => s \in Range(PushSucc(wl, out, s))
<1>1. CASE PushSucc(wl, out, s) = wl
  <2>1. ~already \/ JoinStates(in_state[s], out) # in_state[s] => s \in Range(wl)
    <3> SUFFICES ASSUME ~already \/ JoinStates(in_state[s], out) # in_state[s]
                 PROVE  s \in Range(wl)
      OBVIOUS
    <3>1. CASE s \notin Range(wl)
      <4>1. wl = Append(wl, s)
        BY <1>1, <3>1 DEF PushSucc
      <4>2. Len(Append(wl, s)) = Len(wl) + 1 /\ Len(wl) \in Nat
        OBVIOUS
      <4> QED
        BY <4>1, <4>2
    <3> QED
      BY <3>1
  <2> QED
    BY <1>1, <2>1
<1>2. CASE /\ PushSucc(wl, out, s) = Append(wl, s)
           /\ s \notin Range(wl)
  <2> DEFINE app == Append(wl, s)
  <2>1. /\ app \in Seq(B)
        /\ DOMAIN app = 1 .. Len(wl) + 1
        /\ DOMAIN wl = 1 .. Len(wl)
        /\ Len(wl) \in Nat
        /\ \A k \in 1 .. Len(wl) : app[k] = wl[k]
        /\ app[Len(wl) + 1] = s
    OBVIOUS
  <2> HIDE DEF app
  <2>2. IsInjective(app)
    BY <1>2, <2>1 DEF IsInjective, Range
  <2>3. Range(wl) \subseteq Range(app)
    BY <2>1 DEF Range
  <2>4. Range(app) \subseteq Range(wl) \cup {s}
    BY <2>1 DEF Range
  <2>5. s \in Range(app)
    BY <2>1 DEF Range
  <2> QED
    BY <1>2, <2>1, <2>2, <2>3, <2>4, <2>5 DEF app
<1> QED
  BY <1>1, <1>2 DEF PushSucc

\* The worklist after all the successors of block b are pushed.
LEMMA PushSuccsType ==
  ASSUME IsBody(body), NEW b \in Blocks,
         worklist \in Seq(Blocks), IsInjective(worklist), NEW out
  PROVE  /\ PushSuccs(out, Succs(b)) \in Seq(Blocks)
         /\ IsInjective(PushSuccs(out, Succs(b)))
         /\ Range(worklist) \subseteq Range(PushSuccs(out, Succs(b)))
         /\ Range(PushSuccs(out, Succs(b))) \subseteq Range(worklist) \cup SuccSet(b)
         /\ \A s \in SuccSet(b) :
              ~already \/ JoinStates(in_state[s], out) # in_state[s]
                => s \in Range(PushSuccs(out, Succs(b)))
<1> DEFINE ss == Succs(b)
<1>0. /\ ss \in Seq(Blocks) /\ Len(ss) \in 0 .. 2
      /\ DOMAIN ss = 1 .. Len(ss)
      /\ \A k \in 1 .. Len(ss) : ss[k] \in Blocks
  BY BlockType, LengthType
<1>1. CASE Len(ss) = 0
  <2>1. SuccSet(b) = {}
    BY <1>0, <1>1 DEF SuccSet, Range
  <2>2. PushSuccs(out, ss) = worklist
    BY <1>1 DEF PushSuccs
  <2> QED
    BY <2>1, <2>2
<1>2. CASE Len(ss) = 1
  <2>1. SuccSet(b) = {ss[1]} /\ ss[1] \in Blocks
    <3>1. DOMAIN ss = {1}
      BY <1>0, <1>2
    <3> QED
      BY <1>0, <1>2, <3>1 DEF SuccSet, Range
  <2>2. PushSuccs(out, ss) = PushSucc(worklist, out, ss[1])
    BY <1>2 DEF PushSuccs
  <2> QED
    BY <2>1, <2>2, PushSuccType
<1>3. CASE Len(ss) = 2
  <2>1. SuccSet(b) = {ss[1], ss[2]} /\ ss[1] \in Blocks /\ ss[2] \in Blocks
    <3>1. DOMAIN ss = {1, 2}
      BY <1>0, <1>3
    <3> QED
      BY <1>0, <1>3, <3>1 DEF SuccSet, Range
  <2> DEFINE w1 == PushSucc(worklist, out, ss[1])
             w2 == PushSucc(w1, out, ss[2])
  <2>2. PushSuccs(out, ss) = w2
    BY <1>3 DEF PushSuccs
  <2>3. /\ w1 \in Seq(Blocks) /\ IsInjective(w1)
        /\ Range(worklist) \subseteq Range(w1)
        /\ Range(w1) \subseteq Range(worklist) \cup {ss[1]}
        /\ ~already \/ JoinStates(in_state[ss[1]], out) # in_state[ss[1]]
             => ss[1] \in Range(w1)
    BY <2>1, PushSuccType
  <2> HIDE DEF w1
  <2>4. /\ w2 \in Seq(Blocks) /\ IsInjective(w2)
        /\ Range(w1) \subseteq Range(w2)
        /\ Range(w2) \subseteq Range(w1) \cup {ss[2]}
        /\ ~already \/ JoinStates(in_state[ss[2]], out) # in_state[ss[2]]
             => ss[2] \in Range(w2)
    BY <2>1, <2>3, PushSuccType
  <2> HIDE DEF w2
  <2> QED
    BY <2>1, <2>2, <2>3, <2>4
<1> QED
  BY <1>0, <1>1, <1>2, <1>3

\* Popping leaves the other elements where they are.
LEMMA FrontType ==
  ASSUME NEW B, NEW wl \in Seq(B), IsInjective(wl), wl # <<>>
  PROVE  /\ Last(wl) \in B
         /\ Front(wl) \in Seq(B)
         /\ IsInjective(Front(wl))
         /\ Range(Front(wl)) = Range(wl) \ {Last(wl)}
<1>1. /\ Len(wl) \in Nat \ {0}
      /\ DOMAIN wl = 1 .. Len(wl)
      /\ \A k \in 1 .. Len(wl) : wl[k] \in B
  OBVIOUS
<1> DEFINE pp == Front(wl)
<1>2. /\ pp \in Seq(B)
      /\ Len(pp) = Len(wl) - 1
      /\ DOMAIN pp = 1 .. Len(wl) - 1
      /\ \A k \in 1 .. Len(wl) - 1 : pp[k] = wl[k]
  BY <1>1 DEF Front
<1> HIDE DEF pp
<1>3. IsInjective(pp)
  BY <1>1, <1>2 DEF IsInjective
<1>4. Range(pp) = Range(wl) \ {Last(wl)}
  BY <1>1, <1>2 DEF Range, IsInjective, Last
<1> QED
  BY <1>1, <1>2, <1>3, <1>4 DEF Last, pp

LEMMA LastInRange ==
  ASSUME NEW B, NEW wl \in Seq(B), wl # <<>>
  PROVE  Last(wl) \in Range(wl)
<1>1. Len(wl) \in DOMAIN wl
  OBVIOUS
<1> QED
  BY <1>1 DEF Last, Range

-----------------------------------------------------------------------------
(* The type invariant. *)

\* While the loop runs, its counter is within the limit.
TypeInv == TypeOK /\ (pc = "run" => iters <= MaxIters)

LEMMA EntryBlock ==
  ASSUME IsBody(body)
  PROVE  0 \in Blocks /\ MaxIters \in Nat /\ body.owners \subseteq Local
BY DEF IsBody, Blocks, MaxIters

LEMMA NoBlockNotInBody == NoBlock \notin Blocks
BY NoBlockAssumption DEF Blocks

LEMMA ReportsType ==
  ASSUME TypeOK, cur \in Blocks
  PROVE  Reports(state, Reads(cur, ip), cur, ip)
           \subseteq [block : Blocks, stmt : Nat, arg : Nat, local : Local,
                      iter : Nat, moved : {NoSpan}]
<1>1. ip \in 1 .. NSteps(cur)
  BY NoBlockAssumption DEF TypeOK, Blocks
<1>2. Reads(cur, ip) \in Seq(Operand)
  BY <1>1, BlockType DEF TypeOK
<1> DEFINE r == Reads(cur, ip)
<1>3. DOMAIN r \subseteq Nat
  BY <1>2, LengthType
<1>4. iters \in Nat /\ ip \in Nat
  BY <1>1, EntryBlock DEF TypeOK
<1>5. \A l \in body.owners : l \in Local /\ moved_at[l] \in {NoSpan}
  BY EntryBlock DEF TypeOK
<1> HIDE DEF r
<1> SUFFICES ASSUME NEW d \in Reports(state, r, cur, ip)
             PROVE  d \in [block : Blocks, stmt : Nat, arg : Nat, local : Local,
                            iter : Nat, moved : {NoSpan}]
  BY DEF r
<1>6. PICK k \in DOMAIN r :
        /\ r[k].local \in body.owners
        /\ d = [block |-> cur, stmt |-> ip, arg |-> k, local |-> r[k].local,
                iter |-> iters, moved |-> moved_at[r[k].local]]
  BY DEF Reports
<1> QED
  BY <1>3, <1>4, <1>5, <1>6

\* check_body has been called.
Begun == IsBody(body) /\ Start

LEMMA InitBegins == Init => Begun
BY BodiesAssumption DEF Init, Begun

LEMMA TypeBegin == Begun => TypeInv
<1> SUFFICES ASSUME Begun PROVE TypeInv
  OBVIOUS
<1>1. IsBody(body)
  BY DEF Begun
<1>2. 0 \in Blocks /\ MaxIters \in Nat
  BY <1>1, EntryBlock
<1>3. EntryState(body) \in StateMap /\ NoState \in StateMap
  BY DEF EntryState, NoState, StateMap, LocalState
<1>4. worklist \in Seq(Blocks) /\ IsInjective(worklist)
  BY <1>2 DEF Begun, Start, IsInjective
<1> QED
  <2>1. in_state \in [Blocks -> StateMap]
    BY <1>2, <1>3 DEF Begun, Start
  <2>2. iters \in 0 .. MaxIters + 1 /\ iters <= MaxIters
    BY <1>2 DEF Begun, Start
  <2> QED
    BY <1>1, <1>3, <1>4, <2>1, <2>2 DEF Begun, Start, TypeInv, TypeOK

LEMMA TypeStep == TypeInv /\ [Next]_vars => TypeInv'
<1> SUFFICES ASSUME TypeInv, [Next]_vars PROVE TypeInv'
  OBVIOUS
<1>0. /\ IsBody(body) /\ 0 \in Blocks /\ MaxIters \in Nat
      /\ body' = body /\ Blocks' = Blocks /\ MaxIters' = MaxIters
  BY EntryBlock DEF TypeInv, TypeOK, Next, Pop, CutOff, Stop, WalkStatement,
     FinishBlock, Finished, vars, Blocks, MaxIters
<1>1. CASE Pop
  <2>1. /\ Last(worklist) \in Blocks
        /\ Front(worklist) \in Seq(Blocks)
        /\ IsInjective(Front(worklist))
    BY <1>1, FrontType DEF Pop, TypeInv, TypeOK
  <2>2. in_state[Last(worklist)] \in StateMap
    BY <2>1 DEF TypeInv, TypeOK
  <2>3. 1 \in 1 .. NSteps(Last(worklist))
    BY <1>0, <2>1, BlockType DEF NSteps
  <2> QED
    <3>1. cur' \in Blocks' /\ ip' \in 1 .. NSteps(cur)' /\ pc' = "run"
      BY <1>0, <1>1, <2>1, <2>3 DEF Pop, NSteps, Stmts
    <3>2. iters' \in 0 .. MaxIters' + 1 /\ iters' <= MaxIters'
      BY <1>0, <1>1 DEF Pop, TypeInv, TypeOK
    <3>3. visited' \subseteq Blocks' /\ already' \in BOOLEAN /\ state' \in StateMap
      BY <1>0, <1>1, <2>1, <2>2 DEF Pop, TypeInv, TypeOK
    <3> QED
      BY <1>0, <1>1, <2>1, <3>1, <3>2, <3>3 DEF Pop, TypeInv, TypeOK
<1>2. CASE CutOff
  <2>1. Front(worklist) \in Seq(Blocks) /\ IsInjective(Front(worklist))
    BY <1>2, FrontType DEF CutOff, TypeInv, TypeOK
  <2>2. iters' \in 0 .. MaxIters' + 1
    BY <1>0, <1>2 DEF CutOff, TypeInv, TypeOK
  <2> QED
    BY <1>0, <1>2, <2>1, <2>2, NoBlockNotInBody DEF CutOff, TypeInv, TypeOK, NSteps, Stmts
<1>3. CASE Stop
  BY <1>0, <1>3, NoBlockNotInBody DEF Stop, TypeInv, TypeOK, NSteps, Stmts
<1>4. CASE WalkStatement
  <2>1. cur \in Blocks /\ ip \in 1 .. Len(Stmts(cur)) /\ pc = "run"
    BY <1>4, BlockType DEF WalkStatement, TypeInv, TypeOK, NSteps
  <2>2. state' \in StateMap
    BY <1>4, AfterStatementType DEF WalkStatement, TypeInv, TypeOK
  <2>3. Reports(state, Stmts(cur)[ip].reads, cur, ip) = Reports(state, Reads(cur, ip), cur, ip)
    BY <2>1 DEF Reads
  <2>4. diags' \subseteq [block : Blocks, stmt : Nat, arg : Nat, local : Local,
                          iter : Nat, moved : {NoSpan}]
    BY <1>4, <2>1, <2>3, ReportsType DEF WalkStatement, TypeInv, TypeOK
  <2>5. ip' \in 1 .. NSteps(cur)
    BY <1>0, <1>4, <2>1, BlockType DEF WalkStatement, NSteps
  <2> QED
    BY <1>0, <1>4, <2>1, <2>2, <2>4, <2>5
    DEF WalkStatement, TypeInv, TypeOK, NSteps, Stmts
<1>5. CASE FinishBlock
  <2>1. cur \in Blocks /\ ip = NSteps(cur) /\ pc = "run"
    BY <1>5, BlockType DEF FinishBlock, TypeInv, TypeOK, NSteps
  <2> DEFINE out == AfterReads(state, Cond(cur))
  <2>2. out \in StateMap
    BY AfterReadsType DEF TypeInv, TypeOK
  <2>3. in_state' \in [Blocks -> StateMap]
    BY <1>5, <2>2, JoinType DEF FinishBlock, TypeInv, TypeOK
  <2>4. worklist' \in Seq(Blocks) /\ IsInjective(worklist')
    BY <1>0, <1>5, <2>1, PushSuccsType DEF FinishBlock, TypeInv, TypeOK
  <2>5. Reports(state, Cond(cur), cur, ip) = Reports(state, Reads(cur, ip), cur, ip)
    <3>1. Len(Stmts(cur)) \in Nat
      BY <1>0, <2>1, BlockType, LengthType
    <3>2. Reads(cur, ip) = Cond(cur)
      BY <2>1, <3>1 DEF Reads, NSteps
    <3> QED
      BY <3>2
  <2>6. diags' \subseteq [block : Blocks, stmt : Nat, arg : Nat, local : Local,
                          iter : Nat, moved : {NoSpan}]
    BY <1>5, <2>1, <2>5, ReportsType DEF FinishBlock, TypeInv, TypeOK
  <2>7. NoState \in StateMap
    BY DEF NoState, StateMap, LocalState
  <2> QED
    BY <1>0, <1>5, <2>1, <2>3, <2>4, <2>6, <2>7 DEF FinishBlock, TypeInv, TypeOK
<1>6. CASE Finished
  BY <1>0, <1>6 DEF Finished, TypeInv, TypeOK, vars, NSteps, Stmts
<1>7. CASE UNCHANGED vars
  BY <1>0, <1>7 DEF TypeInv, TypeOK, vars, NSteps, Stmts
<1> QED
  BY <1>1, <1>2, <1>3, <1>4, <1>5, <1>6, <1>7 DEF Next

LEMMA TypeInvariant == Spec => []TypeInv
BY InitBegins, TypeBegin, TypeStep, PTL DEF Spec

\* TypeOK is an invariant: the worklist and the maps stay within the body and the
\* counter never runs more than one past its limit.
THEOREM TypeCorrect == Spec => []TypeOK
<1>1. TypeInv => TypeOK
  BY DEF TypeInv
<1> QED
  BY <1>1, TypeInvariant, PTL

-----------------------------------------------------------------------------
(* How the walk of a block relates to the moves on its paths. *)

\* One statement: l is moved after it iff the statement does not rebind l and l
\* was moved before or is moved by it.
LEMMA StatementTransfer ==
  ASSUME IsBody(body), NEW b \in Blocks, NEW i \in 1 .. Len(Stmts(b)),
         NEW st \in StateMap, NEW l \in body.owners
  PROVE  AfterStatement(st, Stmts(b)[i])[l] = "Moved"
           <=> ~Rebinds(b, i, l) /\ (st[l] = "Moved" \/ MovesOut(b, i, l))
<1> DEFINE s == Stmts(b)[i]
<1>1. l \in Local /\ Len(Stmts(b)) \in Nat
  BY BlockType, LengthType
<1>2. s.reads \in Seq(Operand)
  <2>1. s \in Statement
    BY BlockType, LengthType
  <2> QED
    BY <2>1 DEF Statement
<1>3. DOMAIN s.reads = 1 .. Len(s.reads) /\ Len(s.reads) \in Nat
  BY <1>2, LengthType
<1>4. Reads(b, i) = s.reads
  BY <1>1 DEF Reads
<1> HIDE DEF s
<1>5. 1 .. Len(s.reads) + 1 - 1 = DOMAIN s.reads
  BY <1>3
<1>6. AfterReads(st, s.reads)[l] = "Moved" <=> st[l] = "Moved" \/ MovesOut(b, i, l)
  BY <1>1, <1>4, <1>5 DEF AfterReads, StateAtRead, MovesOut
<1>7. Rebinds(b, i, l) <=> \/ l \in s.storage
                           \/ [local |-> l, projected |-> FALSE] \in s.dest
  BY <1>1 DEF Rebinds, s
<1>8. AfterStatement(st, s)[l] = "Moved" <=> ~Rebinds(b, i, l) /\ AfterReads(st, s.reads)[l] = "Moved"
  BY <1>1, <1>7 DEF AfterStatement
<1> QED
  BY <1>6, <1>8 DEF s

\* The branch condition, which rebinds nothing.
LEMMA CondTransfer ==
  ASSUME IsBody(body), NEW b \in Blocks, NEW st \in StateMap, NEW l \in body.owners
  PROVE  /\ AfterReads(st, Cond(b))[l] = "Moved"
              <=> st[l] = "Moved" \/ MovesOut(b, NSteps(b), l)
         /\ ~Rebinds(b, NSteps(b), l)
<1>1. l \in Local /\ Len(Stmts(b)) \in Nat
  BY BlockType, LengthType
<1>2. DOMAIN Cond(b) = 1 .. Len(Cond(b)) /\ Len(Cond(b)) \in Nat
  BY BlockType, LengthType
<1>3. Reads(b, NSteps(b)) = Cond(b)
  BY <1>1 DEF Reads, NSteps
<1>4. 1 .. Len(Cond(b)) + 1 - 1 = DOMAIN Cond(b)
  BY <1>2
<1>5. AfterReads(st, Cond(b))[l] = "Moved" <=> st[l] = "Moved" \/ MovesOut(b, NSteps(b), l)
  BY <1>1, <1>3, <1>4 DEF AfterReads, StateAtRead, MovesOut
<1>6. ~Rebinds(b, NSteps(b), l)
  BY <1>1 DEF Rebinds, NSteps
<1> QED
  BY <1>5, <1>6

\* MovedInside and KeptUpTo, one step further.
LEMMA InsideStep ==
  ASSUME NEW b, NEW i \in Nat \ {0}, NEW l
  PROVE  /\ MovedInside(b, 1, l) = FALSE
         /\ MovedInside(b, i + 1, l)
              <=> ~Rebinds(b, i, l) /\ (MovedInside(b, i, l) \/ MovesOut(b, i, l))
         /\ KeptUpTo(b, 1, l)
         /\ KeptUpTo(b, i + 1, l) <=> KeptUpTo(b, i, l) /\ ~Rebinds(b, i, l)
<1>1. /\ 1 .. (i + 1) - 1 = (1 .. i - 1) \cup {i}
      /\ 1 .. 1 - 1 = {}
      /\ i .. (i + 1) - 1 = {i}
      /\ \A j \in 1 .. i - 1 : j .. (i + 1) - 1 = (j .. i - 1) \cup {i}
  OBVIOUS
<1>2. MovedInside(b, 1, l) = FALSE /\ KeptUpTo(b, 1, l)
  BY <1>1 DEF MovedInside, KeptUpTo
<1>3. KeptUpTo(b, i + 1, l) <=> KeptUpTo(b, i, l) /\ ~Rebinds(b, i, l)
  BY <1>1 DEF KeptUpTo
<1>4. MovedInside(b, i + 1, l) =>
        ~Rebinds(b, i, l) /\ (MovedInside(b, i, l) \/ MovesOut(b, i, l))
  BY <1>1 DEF MovedInside
<1>5. ~Rebinds(b, i, l) /\ MovedInside(b, i, l) => MovedInside(b, i + 1, l)
  BY <1>1 DEF MovedInside
<1>6. ~Rebinds(b, i, l) /\ MovesOut(b, i, l) => MovedInside(b, i + 1, l)
  BY <1>1 DEF MovedInside
<1> QED
  BY <1>2, <1>3, <1>4, <1>5, <1>6

LEMMA ReachableClosed ==
  ASSUME IsBody(body)
  PROVE  /\ 0 \in ReachableBlocks
         /\ \A b \in ReachableBlocks : SuccSet(b) \subseteq ReachableBlocks
<1>1. 0 \in ReachableBlocks
  BY EntryBlock DEF ReachableBlocks, Reaches
<1>2. ASSUME NEW b \in ReachableBlocks, NEW s \in SuccSet(b)
      PROVE  s \in ReachableBlocks
  <2>1. s \in Blocks
    BY <1>2, BlockType DEF ReachableBlocks
  <2>2. ASSUME NEW S \in SUBSET Blocks, Reaches(S)
        PROVE  s \in S
    BY <1>2, <2>2 DEF ReachableBlocks, Reaches
  <2> QED
    BY <2>1, <2>2 DEF ReachableBlocks
<1> QED
  BY <1>1, <1>2

\* A moved local stays moved along an edge out of a reachable block.
LEMMA MovedInEdge ==
  ASSUME NEW b \in ReachableBlocks, NEW s \in SuccSet(b), NEW l,
         \/ MovedInside(b, NSteps(b) + 1, l)
         \/ MovedIn(b, l) /\ KeptUpTo(b, NSteps(b) + 1, l)
  PROVE  MovedIn(s, l)
<1> DEFINE R == ReachableBlocks
<1>1. b \in Blocks
  BY DEF ReachableBlocks
<1>2. ASSUME NEW S \in SUBSET Blocks, FlowClosed(R, S, l)
      PROVE  s \in S
  <2>1. MovedIn(b, l) => b \in S
    BY <1>2 DEF MovedIn
  <2> QED
    BY <1>2, <2>1 DEF FlowClosed
<1> QED
  BY <1>2 DEF MovedIn

-----------------------------------------------------------------------------
(* The walk is sound: no spurious report. *)

\* The blocks the walk is in, has been in or will be in are reachable.
ReachInv ==
  /\ Range(worklist) \subseteq ReachableBlocks
  /\ visited \subseteq ReachableBlocks
  /\ cur # NoBlock => cur \in visited

\* The working state is that of the block's entry, carried over the steps so far.
WalkInv ==
  cur # NoBlock =>
    \A l \in body.owners :
      state[l] = "Moved" <=> \/ MovedInside(cur, ip, l)
                             \/ in_state[cur][l] = "Moved" /\ KeptUpTo(cur, ip, l)

\* An entry state says Moved only where some path says so.
EntryInv ==
  \A b \in Blocks, l \in body.owners : in_state[b][l] = "Moved" => MovedIn(b, l)

SoundInv == TypeInv /\ ReachInv /\ WalkInv /\ EntryInv /\ NoSpuriousReport

\* The reports of the current step are uses after a move.
LEMMA ReportsSound ==
  ASSUME SoundInv, cur \in Blocks
  PROVE  \A d \in Reports(state, Reads(cur, ip), cur, ip) :
           MovedAtRead(d.block, d.stmt, d.arg, d.local)
<1> DEFINE r == Reads(cur, ip)
<1> SUFFICES ASSUME NEW d \in Reports(state, r, cur, ip)
             PROVE  MovedAtRead(d.block, d.stmt, d.arg, d.local)
  OBVIOUS
<1>1. PICK k \in DOMAIN r :
        /\ d.block = cur /\ d.stmt = ip /\ d.arg = k /\ d.local = r[k].local
        /\ r[k].local \in body.owners
        /\ StateAtRead(state, r, k)[r[k].local] = "Moved"
  BY DEF Reports
<1> DEFINE l == r[k].local
<1>2. l \in body.owners /\ l \in Local
  BY <1>1, EntryBlock DEF SoundInv, TypeInv, TypeOK
<1>3. \/ state[l] = "Moved"
      \/ \E j \in 1 .. k - 1 : r[j] = [mode |-> "Move", local |-> l]
  BY <1>1, <1>2 DEF StateAtRead
<1>4. cur # NoBlock
  BY NoBlockNotInBody
<1>5. state[l] = "Moved" => MovedAt(cur, ip, l)
  BY <1>2, <1>4 DEF SoundInv, WalkInv, EntryInv, MovedAt
<1> QED
  BY <1>1, <1>3, <1>5 DEF MovedAtRead

\* The body never changes, and with it the paths of its graph.
LEMMA PathsConstant ==
  ASSUME body' = body
  PROVE  /\ Blocks' = Blocks
         /\ ReachableBlocks' = ReachableBlocks
         /\ \A b : SuccSet(b)' = SuccSet(b) /\ NSteps(b)' = NSteps(b)
         /\ \A b, i : Reads(b, i)' = Reads(b, i)
         /\ \A b, i, l : /\ MovedInside(b, i, l)' <=> MovedInside(b, i, l)
                         /\ KeptUpTo(b, i, l)' <=> KeptUpTo(b, i, l)
         /\ \A b, l : MovedIn(b, l)' <=> MovedIn(b, l)
         /\ \A b, i, k, l : MovedAtRead(b, i, k, l)' <=> MovedAtRead(b, i, k, l)
<1>1. /\ Blocks' = Blocks
      /\ \A b : SuccSet(b)' = SuccSet(b) /\ NSteps(b)' = NSteps(b) /\ Stmts(b)' = Stmts(b)
  BY DEF Blocks, SuccSet, Succs, NSteps, Stmts
<1>2. \A b, i : Reads(b, i)' = Reads(b, i)
  BY DEF Reads, Stmts, Cond
<1>3. ReachableBlocks' = ReachableBlocks
  BY <1>1 DEF ReachableBlocks, Reaches
<1>4. \A b, i, l : /\ Rebinds(b, i, l)' <=> Rebinds(b, i, l)
                   /\ MovesOut(b, i, l)' <=> MovesOut(b, i, l)
  BY <1>1, <1>2 DEF Rebinds, MovesOut
<1>5. \A b, i, l : /\ MovedInside(b, i, l)' <=> MovedInside(b, i, l)
                   /\ KeptUpTo(b, i, l)' <=> KeptUpTo(b, i, l)
  BY <1>4 DEF MovedInside, KeptUpTo
<1>6. \A R, S, l : FlowClosed(R, S, l)' <=> FlowClosed(R, S, l)
  BY <1>1, <1>5 DEF FlowClosed
<1>7. \A b, l : MovedIn(b, l)' <=> MovedIn(b, l)
  BY <1>1, <1>3, <1>6 DEF MovedIn
<1>8. \A b, i, l : MovedAt(b, i, l)' <=> MovedAt(b, i, l)
  BY <1>5, <1>7 DEF MovedAt
<1>9. \A b, i, k, l : MovedAtRead(b, i, k, l)' <=> MovedAtRead(b, i, k, l)
  BY <1>2, <1>8 DEF MovedAtRead
<1> QED
  BY <1>1, <1>2, <1>3, <1>5, <1>7, <1>9

\* l is moved when block b ends, if its entry state is right.
MovedAtEnd(b, l) ==
  \/ MovedInside(b, NSteps(b) + 1, l)
  \/ in_state[b][l] = "Moved" /\ KeptUpTo(b, NSteps(b) + 1, l)

\* FinishBlock gives its successors the state at the block's end.
LEMMA FinishTransfer ==
  ASSUME SoundInv, FinishBlock
  PROVE  /\ cur \in Blocks /\ cur # NoBlock
         /\ AfterReads(state, Cond(cur)) \in StateMap
         /\ \A l \in body.owners :
              AfterReads(state, Cond(cur))[l] = "Moved" <=> MovedAtEnd(cur, l)
<1> DEFINE out == AfterReads(state, Cond(cur))
<1>0. IsBody(body)
  BY DEF SoundInv, TypeInv, TypeOK
<1>1. cur # NoBlock /\ cur \in Blocks /\ ip \in 1 .. NSteps(cur) /\ ip > Len(Stmts(cur))
  BY NoBlockNotInBody DEF FinishBlock, SoundInv, TypeInv, TypeOK
<1>2. Len(Stmts(cur)) \in Nat
  BY <1>0, <1>1, BlockType, LengthType
<1>3. ip = NSteps(cur) /\ ip \in Nat \ {0}
  BY <1>1, <1>2 DEF NSteps
<1>4. state \in StateMap /\ out \in StateMap
  BY AfterReadsType DEF SoundInv, TypeInv, TypeOK
<1>5. ASSUME NEW l \in body.owners
      PROVE  out[l] = "Moved" <=> MovedAtEnd(cur, l)
  <2>1. /\ out[l] = "Moved" <=> state[l] = "Moved" \/ MovesOut(cur, ip, l)
        /\ ~Rebinds(cur, ip, l)
    BY <1>0, <1>1, <1>3, <1>4, CondTransfer
  <2>2. state[l] = "Moved" <=> \/ MovedInside(cur, ip, l)
                               \/ in_state[cur][l] = "Moved" /\ KeptUpTo(cur, ip, l)
    BY <1>1 DEF SoundInv, WalkInv
  <2> HIDE DEF out
  <2> QED
    BY <1>3, <2>1, <2>2, InsideStep DEF MovedAtEnd
<1> QED
  BY <1>1, <1>4, <1>5

LEMMA SoundInit == Begun => ReachInv /\ WalkInv /\ EntryInv /\ NoSpuriousReport
<1> SUFFICES ASSUME Begun PROVE ReachInv /\ WalkInv /\ EntryInv /\ NoSpuriousReport
  OBVIOUS
<1>1. IsBody(body)
  BY DEF Begun
<1>2. Range(worklist) = {0}
  <2>1. worklist = <<0>> /\ DOMAIN <<0>> = {1}
    BY DEF Begun, Start
  <2> QED
    BY <2>1 DEF Range
<1>3. ReachInv
  BY <1>1, <1>2, ReachableClosed DEF Begun, Start, ReachInv
<1>4. ASSUME NEW b \in Blocks, NEW l \in body.owners
      PROVE  in_state[b][l] # "Moved"
  <2>1. l \in Local
    BY <1>1, EntryBlock
  <2> QED
    BY <2>1 DEF Begun, Start, EntryState, NoState
<1> QED
  BY <1>3, <1>4 DEF Begun, Start, WalkInv, EntryInv, NoSpuriousReport

LEMMA SoundStep == SoundInv /\ TypeInv' /\ [Next]_vars => SoundInv'
<1> SUFFICES ASSUME SoundInv, TypeInv', [Next]_vars PROVE SoundInv'
  OBVIOUS
<1>0. body' = body /\ IsBody(body)
  BY DEF SoundInv, TypeInv, TypeOK, Next, Pop, CutOff, Stop, WalkStatement,
     FinishBlock, Finished, vars
<1>1. CASE Pop
  <2> DEFINE b == Last(worklist)
  <2>1. b \in Blocks /\ Range(Front(worklist)) \subseteq Range(worklist) /\ b \in Range(worklist)
    <3>1. worklist \in Seq(Blocks) /\ IsInjective(worklist) /\ worklist # <<>>
      BY <1>1 DEF Pop, SoundInv, TypeInv, TypeOK
    <3> QED
      BY <3>1, FrontType, LastInRange
  <2>2. ReachInv'
    BY <1>0, <1>1, <2>1, PathsConstant DEF Pop, SoundInv, ReachInv
  <2>3. WalkInv'
    <3> SUFFICES ASSUME NEW l \in body.owners
                 PROVE  state'[l] = "Moved" <=>
                          \/ MovedInside(b, 1, l)
                          \/ in_state[b][l] = "Moved" /\ KeptUpTo(b, 1, l)
      BY <1>0, <1>1, PathsConstant DEF Pop, WalkInv
    <3>1. ~MovedInside(b, 1, l) /\ KeptUpTo(b, 1, l)
      BY 1 \in Nat \ {0}, InsideStep
    <3>2. state' = in_state[b]
      BY <1>1 DEF Pop
    <3> QED
      BY <3>1, <3>2
  <2>4. EntryInv' /\ NoSpuriousReport'
    BY <1>0, <1>1, PathsConstant DEF Pop, SoundInv, EntryInv, NoSpuriousReport
  <2> QED
    BY <2>2, <2>3, <2>4 DEF SoundInv
<1>2. CASE CutOff
  <2>1. Range(Front(worklist)) \subseteq Range(worklist)
    BY <1>2, FrontType DEF CutOff, SoundInv, TypeInv, TypeOK
  <2> QED
    BY <1>0, <1>2, <2>1, PathsConstant
    DEF CutOff, SoundInv, ReachInv, WalkInv, EntryInv, NoSpuriousReport
<1>3. CASE Stop
  BY <1>0, <1>3, PathsConstant
  DEF Stop, SoundInv, ReachInv, WalkInv, EntryInv, NoSpuriousReport
<1>4. CASE WalkStatement
  <2>1. /\ cur \in Blocks /\ ip \in 1 .. Len(Stmts(cur)) /\ cur # NoBlock
        /\ ip \in Nat \ {0} /\ state \in StateMap
    BY <1>0, <1>4, BlockType, LengthType
    DEF WalkStatement, SoundInv, TypeInv, TypeOK, NSteps
  <2>2. Reads(cur, ip) = Stmts(cur)[ip].reads
    BY <2>1 DEF Reads
  <2>3. NoSpuriousReport'
    <3>1. \A d \in diags' : MovedAtRead(d.block, d.stmt, d.arg, d.local)
      BY <1>4, <2>1, <2>2, ReportsSound DEF WalkStatement, SoundInv, NoSpuriousReport
    <3> QED
      BY <1>0, <3>1, PathsConstant DEF NoSpuriousReport
  <2>4. WalkInv'
    <3> SUFFICES ASSUME NEW l \in body.owners
                 PROVE  state'[l] = "Moved" <=>
                          \/ MovedInside(cur, ip + 1, l)
                          \/ in_state[cur][l] = "Moved" /\ KeptUpTo(cur, ip + 1, l)
      BY <1>0, <1>4, PathsConstant DEF WalkStatement, WalkInv
    <3>1. state'[l] = "Moved" <=>
            ~Rebinds(cur, ip, l) /\ (state[l] = "Moved" \/ MovesOut(cur, ip, l))
      BY <1>0, <1>4, <2>1, StatementTransfer DEF WalkStatement
    <3>2. state[l] = "Moved" <=> \/ MovedInside(cur, ip, l)
                                 \/ in_state[cur][l] = "Moved" /\ KeptUpTo(cur, ip, l)
      BY <2>1 DEF SoundInv, WalkInv
    <3> QED
      BY <2>1, <3>1, <3>2, InsideStep
  <2> QED
    BY <1>0, <1>4, <2>3, <2>4, PathsConstant DEF WalkStatement, SoundInv, ReachInv, EntryInv
<1>5. CASE FinishBlock
  <2> DEFINE out == AfterReads(state, Cond(cur))
  <2>1. /\ cur \in Blocks /\ cur # NoBlock /\ out \in StateMap /\ cur \in ReachableBlocks
        /\ \A l \in body.owners : out[l] = "Moved" <=> MovedAtEnd(cur, l)
    BY <1>5, FinishTransfer DEF SoundInv, ReachInv
  <2>2. Reads(cur, ip) = Cond(cur)
    BY <1>5 DEF FinishBlock, SoundInv, TypeInv, TypeOK, Reads
  <2>3. NoSpuriousReport'
    <3>1. \A d \in diags' : MovedAtRead(d.block, d.stmt, d.arg, d.local)
      BY <1>5, <2>1, <2>2, ReportsSound DEF FinishBlock, SoundInv, NoSpuriousReport
    <3> QED
      BY <1>0, <3>1, PathsConstant DEF NoSpuriousReport
  <2>4. EntryInv'
    <3> SUFFICES ASSUME NEW s \in Blocks, NEW l \in body.owners, in_state'[s][l] = "Moved"
                 PROVE  MovedIn(s, l)
      BY <1>0, PathsConstant DEF EntryInv
    <3>1. CASE s \notin SuccSet(cur)
      BY <1>5, <3>1 DEF FinishBlock, SoundInv, EntryInv
    <3>2. CASE s \in SuccSet(cur)
      <4>1. in_state'[s] = JoinStates(in_state[s], out)
        BY <1>5, <3>2 DEF FinishBlock
      <4>2. in_state[s] \in StateMap /\ l \in Local
        BY <1>0, EntryBlock DEF SoundInv, TypeInv, TypeOK
      <4>3. in_state'[s][l] = JoinLocal(in_state[s][l], out[l])
        BY <2>1, <4>1, <4>2, JoinType
      <4>4. in_state[s][l] = "Moved" \/ out[l] = "Moved"
        BY <2>1, <4>2, <4>3, JoinIsOneOf DEF StateMap
      <4>5. CASE in_state[s][l] = "Moved"
        BY <4>5 DEF SoundInv, EntryInv
      <4>6. CASE out[l] = "Moved"
        <5>1. \/ MovedInside(cur, NSteps(cur) + 1, l)
              \/ MovedIn(cur, l) /\ KeptUpTo(cur, NSteps(cur) + 1, l)
          BY <2>1, <4>6 DEF SoundInv, EntryInv, MovedAtEnd
        <5> QED
          BY <2>1, <3>2, <5>1, MovedInEdge
      <4> QED
        BY <4>4, <4>5, <4>6
    <3> QED
      BY <3>1, <3>2
  <2>5. ReachInv'
    <3>1. Range(worklist') \subseteq Range(worklist) \cup SuccSet(cur)
      BY <1>0, <1>5, <2>1, PushSuccsType DEF FinishBlock, SoundInv, TypeInv, TypeOK
    <3>2. SuccSet(cur) \subseteq ReachableBlocks
      BY <1>0, <2>1, ReachableClosed
    <3> QED
      BY <1>0, <1>5, <3>1, <3>2, PathsConstant DEF FinishBlock, SoundInv, ReachInv
  <2> QED
    BY <1>5, <2>3, <2>4, <2>5 DEF FinishBlock, SoundInv, WalkInv
<1>6. CASE Finished \/ UNCHANGED vars
  BY <1>0, <1>6, PathsConstant
  DEF Finished, vars, SoundInv, ReachInv, WalkInv, EntryInv, NoSpuriousReport
<1> QED
  BY <1>1, <1>2, <1>3, <1>4, <1>5, <1>6 DEF Next

LEMMA SoundInvariant == Spec => []SoundInv
<1>1. Begun /\ TypeInv => SoundInv
  BY SoundInit DEF SoundInv
<1> QED
  BY <1>1, InitBegins, SoundStep, TypeInvariant, PTL DEF Spec

\* Every report of the checker is a use after a move on some path from the
\* function's entry: it never rejects a body without one.
THEOREM NoFalseAlarm == Spec => []NoSpuriousReport
<1>1. SoundInv => NoSpuriousReport
  BY DEF SoundInv
<1> QED
  BY <1>1, SoundInvariant, PTL

-----------------------------------------------------------------------------
(* The walk is exact: what the fixpoint iteration has computed when the       *)
(* worklist drains.                                                           *)

\* Every successor of a block that was walked to its end has been walked or is
\* still to be walked.
VisitInv ==
  pc # "cut" =>
    /\ 0 \in visited \cup Range(worklist)
    /\ \A b \in visited : b # cur \/ already => SuccSet(b) \subseteq visited \cup Range(worklist)

\* The successors know what the entry state of b implies for them.
Propagated(b) ==
  \A s \in SuccSet(b), l \in body.owners : MovedAtEnd(b, l) => in_state[s][l] = "Moved"

PropInv ==
  pc # "cut" => \A b \in visited \ {cur} : b \notin Range(worklist) => Propagated(b)

DoneInv == pc = "done" /\ body.owners # {} => worklist = <<>> /\ cur = NoBlock

ExactInv == SoundInv /\ VisitInv /\ PropInv /\ DoneInv

\* FinishBlock changes an entry state only to raise it, and only where the block is
\* on the worklist afterwards.
LEMMA FinishRaises ==
  ASSUME SoundInv, FinishBlock
  PROVE  /\ \A s \in Blocks, l \in body.owners :
              in_state[s][l] = "Moved" => in_state'[s][l] = "Moved"
         /\ \A s \in SuccSet(cur), l \in body.owners :
              MovedAtEnd(cur, l) => in_state'[s][l] = "Moved"
         /\ \A s \in Blocks : in_state'[s] # in_state[s] => s \in Range(worklist')
         /\ Range(worklist) \subseteq Range(worklist')
         /\ ~already => SuccSet(cur) \subseteq Range(worklist')
<1> DEFINE out == AfterReads(state, Cond(cur))
<1>0. IsBody(body) /\ in_state \in [Blocks -> StateMap]
  BY DEF SoundInv, TypeInv, TypeOK
<1>1. cur \in Blocks /\ out \in StateMap
  BY FinishTransfer
<1>2. SuccSet(cur) \subseteq Blocks /\ body.owners \subseteq Local
  BY <1>0, <1>1, BlockType
<1>3. \A s \in Blocks :
        in_state'[s] = IF s \in SuccSet(cur) THEN JoinStates(in_state[s], out) ELSE in_state[s]
  BY DEF FinishBlock
<1>4. ASSUME NEW s \in SuccSet(cur), NEW l \in body.owners
      PROVE  in_state'[s][l] = "Moved" <=> in_state[s][l] = "Moved" \/ out[l] = "Moved"
  <2>1. in_state[s] \in StateMap /\ l \in Local /\ s \in Blocks
    BY <1>0, <1>2
  <2>2. in_state'[s][l] = JoinLocal(in_state[s][l], out[l])
    BY <1>1, <1>3, <2>1, JoinType
  <2> QED
    BY <1>1, <2>1, <2>2, JoinIsOneOf DEF StateMap
<1>5. /\ Range(worklist) \subseteq Range(worklist')
      /\ \A s \in SuccSet(cur) :
           ~already \/ JoinStates(in_state[s], out) # in_state[s] => s \in Range(worklist')
  BY <1>0, <1>1, PushSuccsType DEF FinishBlock, SoundInv, TypeInv, TypeOK
<1>6. \A s \in Blocks, l \in body.owners :
        in_state[s][l] = "Moved" => in_state'[s][l] = "Moved"
  BY <1>3, <1>4
<1>7. \A s \in SuccSet(cur), l \in body.owners :
        MovedAtEnd(cur, l) => in_state'[s][l] = "Moved"
  BY <1>4, FinishTransfer
<1>8. \A s \in Blocks : in_state'[s] # in_state[s] => s \in Range(worklist')
  BY <1>3, <1>5
<1> QED
  BY <1>5, <1>6, <1>7, <1>8

LEMMA ExactInit == Begun => VisitInv /\ PropInv /\ DoneInv
<1> SUFFICES ASSUME Begun PROVE VisitInv /\ PropInv /\ DoneInv
  OBVIOUS
<1>1. 0 \in Range(worklist)
  <2>1. worklist = <<0>> /\ DOMAIN <<0>> = {1}
    BY DEF Begun, Start
  <2> QED
    BY <2>1 DEF Range
<1> QED
  BY <1>1 DEF Begun, Start, VisitInv, PropInv, DoneInv

LEMMA ExactStep == ExactInv /\ SoundInv' /\ [Next]_vars => ExactInv'
<1> SUFFICES ASSUME ExactInv, SoundInv', [Next]_vars PROVE ExactInv'
  OBVIOUS
<1>0. body' = body /\ IsBody(body) /\ visited \subseteq Blocks /\ SoundInv
  BY DEF ExactInv, SoundInv, TypeInv, TypeOK, Next, Pop, CutOff, Stop, WalkStatement,
     FinishBlock, Finished, vars
<1>1. CASE Pop
  <2> DEFINE b == Last(worklist)
  <2>1. /\ b \in Blocks
        /\ Range(Front(worklist)) = Range(worklist) \ {b}
        /\ cur = NoBlock /\ cur' = b /\ visited' = visited \cup {b}
        /\ worklist' = Front(worklist) /\ in_state' = in_state /\ pc' = "run" /\ pc = "run"
        /\ already' = (b \in visited)
    BY <1>1, FrontType DEF Pop, ExactInv, SoundInv, TypeInv, TypeOK
  <2>2. visited' \cup Range(worklist') = visited \cup Range(worklist) \cup {b}
    BY <2>1
  <2>3. \A x \in visited : x # cur
    BY <1>0, <2>1, NoBlockNotInBody
  <2>4. VisitInv'
    <3>1. 0 \in visited' \cup Range(worklist')
      BY <2>1, <2>2 DEF ExactInv, VisitInv
    <3>2. ASSUME NEW x \in visited', x # cur' \/ already'
          PROVE  SuccSet(x) \subseteq visited' \cup Range(worklist')
      BY <2>1, <2>2, <2>3, <3>2 DEF ExactInv, VisitInv
    <3> QED
      BY <1>0, <3>1, <3>2, PathsConstant DEF VisitInv
  <2>5. PropInv'
    <3>1. ASSUME NEW x \in visited' \ {cur'}, x \notin Range(worklist')
          PROVE  Propagated(x)
      BY <2>1, <2>3, <3>1 DEF ExactInv, PropInv
    <3>2. \A x : Propagated(x)' <=> Propagated(x)
      BY <1>0, <2>1, PathsConstant DEF Propagated, MovedAtEnd
    <3> QED
      BY <3>1, <3>2 DEF PropInv
  <2>6. DoneInv'
    BY <2>1 DEF DoneInv
  <2> QED
    BY <2>4, <2>5, <2>6 DEF ExactInv
<1>2. CASE CutOff
  BY <1>2 DEF CutOff, ExactInv, VisitInv, PropInv, DoneInv
<1>3. CASE FinishBlock
  <2>1. /\ cur \in Blocks /\ cur # NoBlock /\ cur' = NoBlock /\ visited' = visited
        /\ pc = "run" /\ pc' = "run"
    BY <1>3, NoBlockNotInBody DEF FinishBlock, ExactInv, SoundInv, TypeInv, TypeOK
  <2>2. VisitInv'
    <3>1. 0 \in visited' \cup Range(worklist')
      BY <1>0, <1>3, <2>1, FinishRaises DEF ExactInv, VisitInv
    <3>2. ASSUME NEW x \in visited
          PROVE  SuccSet(x) \subseteq visited' \cup Range(worklist')
      <4>1. CASE x # cur \/ already
        BY <1>0, <1>3, <2>1, <4>1, FinishRaises DEF ExactInv, VisitInv
      <4>2. CASE x = cur /\ ~already
        BY <1>0, <1>3, <4>2, FinishRaises
      <4> QED
        BY <4>1, <4>2
    <3> QED
      BY <1>0, <2>1, <3>1, <3>2, PathsConstant DEF VisitInv
  <2>3. PropInv'
    <3> SUFFICES ASSUME NEW x \in visited, x \notin Range(worklist'),
                        NEW s \in SuccSet(x), NEW l \in body.owners,
                        \/ MovedInside(x, NSteps(x) + 1, l)
                        \/ in_state'[x][l] = "Moved" /\ KeptUpTo(x, NSteps(x) + 1, l)
                 PROVE  in_state'[s][l] = "Moved"
      BY <1>0, <2>1, PathsConstant DEF PropInv, Propagated, MovedAtEnd
    <3>1. in_state'[x] = in_state[x] /\ x \notin Range(worklist)
      BY <1>0, <1>3, FinishRaises
    <3>2. MovedAtEnd(x, l)
      BY <3>1 DEF MovedAtEnd
    <3>3. CASE x = cur
      BY <1>0, <1>3, <3>2, <3>3, FinishRaises
    <3>4. CASE x # cur
      <4>1. in_state[s][l] = "Moved"
        BY <2>1, <3>1, <3>2, <3>4 DEF ExactInv, PropInv, Propagated
      <4>2. s \in Blocks
        BY <1>0, BlockType
      <4> QED
        BY <1>0, <1>3, <4>1, <4>2, FinishRaises
    <3> QED
      BY <3>3, <3>4
  <2>4. DoneInv'
    BY <2>1 DEF DoneInv
  <2> QED
    BY <2>2, <2>3, <2>4 DEF ExactInv
<1>4. CASE WalkStatement
  <2>1. UNCHANGED <<visited, worklist, cur, already, in_state, pc>>
    BY <1>4 DEF WalkStatement
  <2>2. \A x : Propagated(x)' <=> Propagated(x)
    BY <1>0, <2>1, PathsConstant DEF Propagated, MovedAtEnd
  <2> QED
    BY <1>0, <2>1, <2>2, PathsConstant DEF ExactInv, VisitInv, PropInv, DoneInv
<1>5. CASE Stop
  <2>1. UNCHANGED <<visited, worklist, cur, already, in_state>> /\ pc = "run" /\ pc' = "done"
        /\ worklist = <<>> /\ cur = NoBlock
    BY <1>5 DEF Stop
  <2>2. \A x : Propagated(x)' <=> Propagated(x)
    BY <1>0, <2>1, PathsConstant DEF Propagated, MovedAtEnd
  <2> QED
    BY <1>0, <2>1, <2>2, PathsConstant DEF ExactInv, VisitInv, PropInv, DoneInv
<1>6. CASE Finished \/ UNCHANGED vars
  <2>1. UNCHANGED <<visited, worklist, cur, already, in_state, pc>>
    BY <1>6 DEF Finished, vars
  <2>2. \A x : Propagated(x)' <=> Propagated(x)
    BY <1>0, <2>1, PathsConstant DEF Propagated, MovedAtEnd
  <2> QED
    BY <1>0, <2>1, <2>2, PathsConstant DEF ExactInv, VisitInv, PropInv, DoneInv
<1> QED
  BY <1>1, <1>2, <1>3, <1>4, <1>5, <1>6 DEF Next

LEMMA ExactInvariant == Spec => []ExactInv
<1>1. Begun /\ SoundInv => ExactInv
  BY ExactInit DEF ExactInv
<1> QED
  BY <1>1, InitBegins, ExactStep, SoundInvariant, PTL DEF Spec

\* When the worklist drains, exactly the reachable blocks have been walked.
LEMMA DoneVisited ==
  ASSUME ExactInv, pc = "done", body.owners # {}
  PROVE  visited = ReachableBlocks /\ Range(worklist) = {}
<1>1. /\ IsBody(body) /\ visited \subseteq Blocks
      /\ worklist = <<>> /\ cur = NoBlock
  BY DEF ExactInv, DoneInv, SoundInv, TypeInv, TypeOK
<1>2. Range(worklist) = {}
  <2>1. DOMAIN <<>> = {}
    OBVIOUS
  <2> QED
    BY <1>1, <2>1 DEF Range
<1>3. \A b \in visited : b # cur
  BY <1>1, NoBlockNotInBody
<1>4. Reaches(visited)
  BY <1>2, <1>3 DEF ExactInv, VisitInv, Reaches
<1>5. ReachableBlocks \subseteq visited
  BY <1>1, <1>4 DEF ReachableBlocks
<1> QED
  BY <1>2, <1>5 DEF ExactInv, SoundInv, ReachInv

THEOREM WalksExactlyReachable == Spec => []WalkedExactlyReachable
<1>1. ExactInv => WalkedExactlyReachable
  BY DoneVisited DEF WalkedExactlyReachable
<1> QED
  BY <1>1, ExactInvariant, PTL

\* The drained worklist leaves the exact solution of the data-flow problem.
LEMMA DrainedExact == ExactInv => DrainedIsExact
<1>1. ASSUME ExactInv, pc = "done", body.owners # {},
             NEW b \in ReachableBlocks, NEW l \in body.owners
      PROVE  in_state[b][l] = "Moved" <=> MovedIn(b, l)
  <2>1. visited = ReachableBlocks /\ Range(worklist) = {}
    BY <1>1, DoneVisited
  <2>2. ReachableBlocks \subseteq Blocks /\ cur = NoBlock /\ IsBody(body)
    BY <1>1 DEF ReachableBlocks, ExactInv, DoneInv, SoundInv, TypeInv, TypeOK
  <2> DEFINE S == {x \in Blocks : in_state[x][l] = "Moved"}
  <2>3. FlowClosed(ReachableBlocks, S, l)
    <3> SUFFICES ASSUME NEW x \in ReachableBlocks, NEW s \in SuccSet(x),
                        \/ MovedInside(x, NSteps(x) + 1, l)
                        \/ x \in S /\ KeptUpTo(x, NSteps(x) + 1, l)
                 PROVE  s \in S
      BY DEF FlowClosed
    <3>1. x # cur
      BY <2>2, NoBlockNotInBody
    <3>2. Propagated(x)
      BY <1>1, <2>1, <3>1 DEF ExactInv, PropInv
    <3>3. s \in Blocks
      BY <2>2, BlockType
    <3> QED
      BY <3>2, <3>3 DEF Propagated, MovedAtEnd
  <2>4. MovedIn(b, l) => b \in S
    BY <2>3 DEF MovedIn
  <2> QED
    BY <1>1, <2>2, <2>4 DEF ExactInv, SoundInv, EntryInv
<1> QED
  BY <1>1 DEF DrainedIsExact

THEOREM FixpointIsExact == Spec => []DrainedIsExact
BY DrainedExact, ExactInvariant, PTL

-----------------------------------------------------------------------------
(* Where control flow does not join, the first walk already knows all. *)

\* A block that is walked, or about to be, is entered with every move that can
\* reach it.
JoinFreeInv ==
  NoJoin => \A b \in visited \cup Range(worklist), l \in body.owners :
              MovedIn(b, l) => in_state[b][l] = "Moved"

\* Nothing is moved on entry of the function.
LEMMA EntryNotMoved ==
  ASSUME IsBody(body), NoJoin, NEW l
  PROVE  ~MovedIn(0, l)
<1> DEFINE S == ReachableBlocks \ {0}
<1>1. S \in SUBSET Blocks /\ 0 \notin S
  BY DEF ReachableBlocks
<1>2. FlowClosed(ReachableBlocks, S, l)
  BY ReachableClosed DEF FlowClosed, NoJoin
<1> QED
  BY <1>1, <1>2 DEF MovedIn

\* A block with one predecessor inherits its moves from it.
LEMMA MovedFromPredecessor ==
  ASSUME IsBody(body), NoJoin, NEW b \in ReachableBlocks, NEW s \in SuccSet(b), NEW l,
         MovedIn(s, l)
  PROVE  \/ MovedInside(b, NSteps(b) + 1, l)
         \/ MovedIn(b, l) /\ KeptUpTo(b, NSteps(b) + 1, l)
<1> SUFFICES ASSUME ~ \/ MovedInside(b, NSteps(b) + 1, l)
                      \/ MovedIn(b, l) /\ KeptUpTo(b, NSteps(b) + 1, l)
             PROVE  FALSE
  OBVIOUS
<1> DEFINE S == {x \in Blocks : MovedIn(x, l)} \ {s}
<1>1. ASSUME NEW x \in ReachableBlocks, NEW t \in SuccSet(x),
             \/ MovedInside(x, NSteps(x) + 1, l)
             \/ x \in S /\ KeptUpTo(x, NSteps(x) + 1, l)
      PROVE  t \in S
  <2>1. MovedIn(t, l) /\ t \in Blocks
    <3>1. t \in Blocks
      BY ReachableClosed, BlockType DEF ReachableBlocks
    <3>2. MovedIn(t, l)
      BY <1>1, MovedInEdge
    <3> QED
      BY <3>1, <3>2
  <2>2. t # s
    BY <1>1 DEF NoJoin
  <2> QED
    BY <2>1, <2>2
<1>2. FlowClosed(ReachableBlocks, S, l)
  BY <1>1 DEF FlowClosed
<1>3. S \in SUBSET Blocks /\ s \notin S
  OBVIOUS
<1> HIDE DEF S
<1> QED
  BY <1>2, <1>3 DEF MovedIn

LEMMA JoinFreeInit == Begun => JoinFreeInv
<1> SUFFICES ASSUME Begun, NoJoin,
                    NEW b \in visited \cup Range(worklist), NEW l
             PROVE  ~MovedIn(b, l)
  BY DEF JoinFreeInv
<1>1. IsBody(body)
  BY DEF Begun
<1>2. b = 0
  <2>1. worklist = <<0>> /\ DOMAIN <<0>> = {1} /\ visited = {}
    BY DEF Begun, Start
  <2> QED
    BY <2>1 DEF Range
<1> QED
  BY <1>1, <1>2, EntryNotMoved

LEMMA JoinFreeStep == SoundInv /\ JoinFreeInv /\ [Next]_vars => JoinFreeInv'
<1> SUFFICES ASSUME SoundInv, JoinFreeInv, [Next]_vars PROVE JoinFreeInv'
  OBVIOUS
<1>0. /\ body' = body /\ IsBody(body)
      /\ visited \cup Range(worklist) \subseteq ReachableBlocks
      /\ ReachableBlocks \subseteq Blocks
  BY DEF SoundInv, ReachInv, TypeInv, TypeOK, Next, Pop, CutOff, Stop, WalkStatement,
     FinishBlock, Finished, vars, ReachableBlocks
<1>1. NoJoin' <=> NoJoin
  BY <1>0, PathsConstant DEF NoJoin
<1> SUFFICES ASSUME NoJoin, NEW b \in visited' \cup Range(worklist'), NEW l \in body.owners,
                    MovedIn(b, l)
             PROVE  in_state'[b][l] = "Moved"
  BY <1>0, <1>1, PathsConstant DEF JoinFreeInv
<1>2. CASE Pop
  <2>1. /\ Range(Front(worklist)) = Range(worklist) \ {Last(worklist)}
        /\ Last(worklist) \in Range(worklist)
    BY <1>2, FrontType, LastInRange DEF Pop, SoundInv, TypeInv, TypeOK
  <2> QED
    BY <1>2, <2>1 DEF Pop, JoinFreeInv
<1>3. CASE CutOff
  <2>1. Range(Front(worklist)) \subseteq Range(worklist)
    BY <1>3, FrontType DEF CutOff, SoundInv, TypeInv, TypeOK
  <2> QED
    BY <1>3, <2>1 DEF CutOff, JoinFreeInv
<1>4. CASE FinishBlock
  <2>1. cur \in Blocks /\ cur # NoBlock /\ visited' = visited /\ cur \in visited
    BY <1>4, FinishTransfer DEF FinishBlock, SoundInv, ReachInv
  <2>2. Range(worklist') \subseteq Range(worklist) \cup SuccSet(cur)
    BY <1>0, <1>4, <2>1, PushSuccsType DEF FinishBlock, SoundInv, TypeInv, TypeOK
  <2>3. CASE b \in visited \cup Range(worklist)
    BY <1>0, <1>4, <2>3, FinishRaises DEF JoinFreeInv
  <2>4. CASE b \in SuccSet(cur)
    <3>1. \/ MovedInside(cur, NSteps(cur) + 1, l)
          \/ MovedIn(cur, l) /\ KeptUpTo(cur, NSteps(cur) + 1, l)
      BY <1>0, <2>1, <2>4, MovedFromPredecessor
    <3>2. MovedAtEnd(cur, l)
      BY <2>1, <3>1 DEF MovedAtEnd, JoinFreeInv
    <3> QED
      BY <1>4, <2>4, <3>2, FinishRaises
  <2> QED
    BY <2>1, <2>2, <2>3, <2>4
<1>5. CASE WalkStatement \/ Stop \/ Finished \/ UNCHANGED vars
  BY <1>5 DEF WalkStatement, Stop, Finished, vars, JoinFreeInv
<1> QED
  BY <1>2, <1>3, <1>4, <1>5 DEF Next

LEMMA JoinFreeInvariant == Spec => []JoinFreeInv
BY InitBegins, JoinFreeInit, JoinFreeStep, SoundInvariant, PTL DEF Spec

-----------------------------------------------------------------------------
(* The uses after a move that are always reported: those in the block of the  *)
(* move, and all of them where control flow does not join.                    *)

\* The k-th operand of step i of block b reads an owner that an earlier step, or
\* an earlier operand of the same step, has moved; or, without joins, that a
\* step of any block may have moved.
MustReport(b, i, k) ==
  LET l == Reads(b, i)[k].local
  IN /\ l \in body.owners
     /\ \/ MovedInside(b, i, l)
        \/ \E j \in 1 .. k - 1 : Reads(b, i)[j] = [mode |-> "Move", local |-> l]
        \/ NoJoin /\ MovedAt(b, i, l)

\* The steps that the first walk has passed are reported.
SiteInv ==
  \A b \in visited : \A i \in 1 .. NSteps(b) : \A k \in DOMAIN Reads(b, i) :
    (b # cur \/ already \/ i < ip) /\ MustReport(b, i, k) => Reported(b, i, k)

\* The first walk reports the current step.
LEMMA FirstWalkReports ==
  ASSUME SoundInv, JoinFreeInv, cur \in Blocks, ~already,
         NEW k \in DOMAIN Reads(cur, ip), MustReport(cur, ip, k)
  PROVE  \E d \in Reports(state, Reads(cur, ip), cur, ip) :
           d.block = cur /\ d.stmt = ip /\ d.arg = k
<1> DEFINE r == Reads(cur, ip)
           l == r[k].local
<1>1. cur # NoBlock /\ l \in body.owners /\ l \in Local
  BY NoBlockNotInBody, EntryBlock DEF MustReport, SoundInv, TypeInv, TypeOK
<1>2. /\ MovedInside(cur, ip, l) => state[l] = "Moved"
      /\ NoJoin /\ MovedAt(cur, ip, l) => state[l] = "Moved"
  BY <1>1 DEF SoundInv, WalkInv, ReachInv, JoinFreeInv, MovedAt
<1>3. StateAtRead(state, r, k)[l] = "Moved"
  BY <1>1, <1>2 DEF MustReport, StateAtRead
<1> DEFINE d == [block |-> cur, stmt |-> ip, arg |-> k, local |-> l,
                 iter |-> iters, moved |-> moved_at[l]]
<1>4. d \in Reports(state, r, cur, ip)
  BY <1>1, <1>3 DEF Reports
<1> QED
  BY <1>4

LEMMA SiteStep == SoundInv /\ JoinFreeInv /\ SiteInv /\ [Next]_vars => SiteInv'
<1> SUFFICES ASSUME SoundInv, JoinFreeInv, SiteInv, [Next]_vars PROVE SiteInv'
  OBVIOUS
<1>0. /\ body' = body /\ IsBody(body) /\ visited \subseteq Blocks
      /\ diags \subseteq diags'
  BY DEF SoundInv, TypeInv, TypeOK, Next, Pop, CutOff, Stop, WalkStatement,
     FinishBlock, Finished, vars
<1>1. \A b, i, k : /\ MustReport(b, i, k)' <=> MustReport(b, i, k)
                   /\ Reported(b, i, k) => Reported(b, i, k)'
  <2>1. \A b, i, l : MovedAt(b, i, l)' <=> MovedAt(b, i, l)
    BY <1>0, PathsConstant DEF MovedAt
  <2>2. NoJoin' <=> NoJoin
    BY <1>0, PathsConstant DEF NoJoin
  <2>3. \A b, i, k : Reported(b, i, k) => Reported(b, i, k)'
    BY <1>0 DEF Reported
  <2> QED
    BY <1>0, <2>1, <2>2, <2>3, PathsConstant DEF MustReport
<1> SUFFICES ASSUME NEW b \in visited', NEW i \in 1 .. NSteps(b), NEW k \in DOMAIN Reads(b, i),
                    b # cur' \/ already' \/ i < ip', MustReport(b, i, k)
             PROVE  Reported(b, i, k)'
  BY <1>0, <1>1, PathsConstant DEF SiteInv
<1>2. CASE b \in visited /\ (b # cur \/ already \/ i < ip)
  BY <1>1, <1>2 DEF SiteInv
<1>3. CASE Pop
  <2>1. i \in Nat /\ ~(i < 1)
    OBVIOUS
  <2>2. b \in visited /\ b # cur
    BY <1>0, <1>3, <2>1, NoBlockNotInBody DEF Pop
  <2> QED
    BY <1>2, <2>2
<1>4. CASE WalkStatement
  <2>1. b \in visited /\ cur' = cur /\ already' = already /\ ip' = ip + 1
    BY <1>4 DEF WalkStatement
  <2>2. CASE b = cur /\ ~already /\ i = ip
    <3>1. Reads(cur, ip) = Stmts(cur)[ip].reads
      BY <1>4 DEF WalkStatement, Reads
    <3>2. \E d \in Reports(state, Reads(cur, ip), cur, ip) : d.block = b /\ d.stmt = i /\ d.arg = k
      BY <1>0, <2>1, <2>2, FirstWalkReports
    <3> QED
      BY <1>4, <3>1, <3>2 DEF WalkStatement, Reported
  <2>3. CASE b = cur /\ ~already /\ i # ip
    <3>1. ip \in Nat /\ i \in Nat /\ i < ip + 1
      BY <1>0, <2>1, <2>3, NoBlockNotInBody DEF SoundInv, TypeInv, TypeOK
    <3> QED
      BY <1>2, <2>1, <2>3, <3>1
  <2> QED
    BY <1>2, <2>1, <2>2, <2>3
<1>5. CASE FinishBlock
  <2>1. b \in visited /\ cur \in Blocks
    BY <1>5, FinishTransfer DEF FinishBlock
  <2>2. CASE b = cur /\ ~already /\ i = ip
    <3>1. Reads(cur, ip) = Cond(cur)
      BY <1>5, <2>1, NoBlockNotInBody DEF FinishBlock, Reads, SoundInv, TypeInv, TypeOK
    <3>2. \E d \in Reports(state, Reads(cur, ip), cur, ip) : d.block = b /\ d.stmt = i /\ d.arg = k
      BY <2>1, <2>2, FirstWalkReports
    <3> QED
      BY <1>5, <3>1, <3>2 DEF FinishBlock, Reported
  <2>3. CASE b = cur /\ ~already /\ i # ip
    <3>1. /\ ip \in 1 .. NSteps(cur) /\ ip > Len(Stmts(cur))
          /\ Len(Stmts(cur)) \in Nat
      BY <1>0, <1>5, <2>1, NoBlockNotInBody, BlockType, LengthType
      DEF FinishBlock, SoundInv, TypeInv, TypeOK
    <3>2. i < ip
      BY <2>3, <3>1 DEF NSteps
    <3> QED
      BY <1>2, <2>1, <3>2
  <2> QED
    BY <1>2, <2>1, <2>2, <2>3
<1>6. CASE CutOff \/ Stop \/ Finished \/ UNCHANGED vars
  BY <1>2, <1>6 DEF CutOff, Stop, Finished, vars
<1> QED
  BY <1>3, <1>4, <1>5, <1>6 DEF Next

LEMMA SiteInit == Begun => SiteInv
BY DEF Begun, Start, SiteInv

LEMMA SiteInvariant == Spec => []SiteInv
BY InitBegins, SiteInit, SiteStep, SoundInvariant, JoinFreeInvariant, PTL DEF Spec

\* A use after a move in the same block is reported, whatever the graph around
\* the block is and even when the iteration limit cuts the walk short.
THEOREM InBlockComplete == Spec => []InBlockUseReported
<1>1. SiteInv => InBlockUseReported
  BY DEF SiteInv, MustReport, InBlockUseReported
<1> QED
  BY <1>1, SiteInvariant, PTL

LEMMA JoinFreeComplete == ExactInv /\ SiteInv => CompleteWithoutJoins
<1>1. ASSUME ExactInv, SiteInv, pc = "done", NoJoin,
             NEW b \in ReachableBlocks, NEW i \in 1 .. NSteps(b), NEW k \in DOMAIN Reads(b, i),
             Reads(b, i)[k].local \in body.owners,
             MovedAtRead(b, i, k, Reads(b, i)[k].local)
      PROVE  Reported(b, i, k)
  <2>1. b \in visited /\ b # cur
    <3>1. visited = ReachableBlocks /\ cur = NoBlock
      BY <1>1, DoneVisited DEF ExactInv, DoneInv
    <3> QED
      BY <3>1, NoBlockNotInBody DEF ReachableBlocks
  <2>2. MustReport(b, i, k)
    BY <1>1 DEF MustReport, MovedAtRead
  <2> QED
    BY <1>1, <2>1, <2>2 DEF SiteInv
<1> QED
  BY <1>1 DEF CompleteWithoutJoins, AllUsesReported

\* Where control flow only splits, no use after move is missed.
THEOREM CompleteOnTrees == Spec => []CompleteWithoutJoins
BY JoinFreeComplete, ExactInvariant, SiteInvariant, PTL

-----------------------------------------------------------------------------
(* Reporting once, and rising entry states. *)

\* The reports come from walked blocks, those of the block under its first walk
\* from steps already passed.
OnceInv ==
  /\ \A d \in diags : /\ d.block \in visited
                      /\ d.block = cur /\ ~already => d.stmt < ip
  /\ ReportedOnce

LEMMA OnceInit == Begun => OnceInv
BY DEF Begun, Start, OnceInv, ReportedOnce

LEMMA OnceStep == SoundInv /\ OnceInv /\ [Next]_vars => OnceInv'
<1> SUFFICES ASSUME SoundInv, OnceInv, [Next]_vars PROVE OnceInv'
  OBVIOUS
<1>1. \A d \in diags : d.block \in visited /\ d.block # NoBlock /\ d.stmt \in Nat
  BY NoBlockNotInBody DEF OnceInv, SoundInv, TypeInv, TypeOK
<1> DEFINE new == Reports(state, Reads(cur, ip), cur, ip)
<1>2. /\ already => new = {}
      /\ \A d \in new : d.block = cur /\ d.stmt = ip
      /\ \A d, e \in new : d.arg = e.arg => d = e
  BY DEF Reports
<1>3. ASSUME cur \in Blocks, diags' = diags \cup new
      PROVE  ReportedOnce' /\ (already => diags' = diags) /\ ip \in Nat
  <2>1. ip \in Nat
    BY <1>3, NoBlockNotInBody DEF SoundInv, TypeInv, TypeOK
  <2>2. ASSUME NEW d \in diags, NEW e \in new
        PROVE  ~(d.block = e.block /\ d.stmt = e.stmt)
    BY <1>1, <1>2, <2>1, <2>2 DEF OnceInv
  <2> HIDE DEF new
  <2> QED
    BY <1>2, <1>3, <2>1, <2>2 DEF OnceInv, ReportedOnce
<1>4. CASE Pop
  BY <1>1, <1>4 DEF Pop, OnceInv, ReportedOnce
<1>5. CASE WalkStatement
  <2>1. /\ cur \in Blocks /\ cur \in visited
        /\ Stmts(cur)[ip].reads = Reads(cur, ip)
    BY <1>5, NoBlockNotInBody DEF WalkStatement, Reads, SoundInv, ReachInv, TypeInv, TypeOK
  <2>2. diags' = diags \cup new
    BY <1>5, <2>1 DEF WalkStatement
  <2> QED
    BY <1>1, <1>2, <1>3, <1>5, <2>1, <2>2 DEF WalkStatement, OnceInv
<1>6. CASE FinishBlock
  <2>1. cur \in Blocks /\ cur \in visited /\ Cond(cur) = Reads(cur, ip)
    BY <1>6, NoBlockNotInBody DEF FinishBlock, Reads, SoundInv, ReachInv, TypeInv, TypeOK
  <2>2. diags' = diags \cup new
    BY <1>6, <2>1 DEF FinishBlock
  <2>3. \A d \in diags' : d.block \in visited /\ d.block # NoBlock
    BY <1>1, <1>2, <2>1, <2>2, NoBlockNotInBody
  <2> QED
    BY <1>3, <1>6, <2>1, <2>2, <2>3 DEF FinishBlock, OnceInv
<1>7. CASE CutOff \/ Stop \/ Finished \/ UNCHANGED vars
  BY <1>7 DEF CutOff, Stop, Finished, vars, OnceInv, ReportedOnce
<1> QED
  BY <1>4, <1>5, <1>6, <1>7 DEF Next

\* However often a block is walked again, each of its uses after a move is
\* reported by one walk only.
THEOREM ReportsEachUseOnce == Spec => []ReportedOnce
<1>1. OnceInv => ReportedOnce
  BY DEF OnceInv
<1> QED
  BY <1>1, InitBegins, OnceInit, OnceStep, SoundInvariant, PTL DEF Spec

\* No step lowers an entry state.
THEOREM StatesOnlyRise == Spec => EntryStatesRise
<1> DEFINE Rises == \A b \in Blocks, l \in Local : Rank(in_state[b][l]) <= Rank(in_state'[b][l])
<1>1. TypeInv /\ [Next]_vars => [Rises]_vars
  <2> SUFFICES ASSUME TypeInv, Next,
                      NEW b \in Blocks, NEW l \in Local
               PROVE  Rank(in_state[b][l]) <= Rank(in_state'[b][l])
    OBVIOUS
  <2>1. in_state[b] \in StateMap /\ in_state[b][l] \in LocalState
    BY DEF TypeInv, TypeOK, StateMap
  <2>2. \A u, v \in LocalState : /\ Rank(u) \in Nat
                                 /\ Rank(u) <= Rank(JoinLocal(u, v))
    BY DEF LocalState, Rank, JoinLocal
  <2>3. CASE FinishBlock /\ b \in SuccSet(cur)
    <3> DEFINE out == AfterReads(state, Cond(cur))
    <3>1. out \in StateMap
      BY AfterReadsType DEF TypeInv, TypeOK
    <3>2. in_state'[b] = JoinStates(in_state[b], out)
      BY <2>3 DEF FinishBlock
    <3>3. in_state'[b][l] = JoinLocal(in_state[b][l], out[l])
      BY <2>1, <3>1, <3>2, JoinType
    <3>4. out[l] \in LocalState
      BY <3>1 DEF StateMap
    <3> QED
      BY <2>1, <2>2, <3>3, <3>4
  <2>4. CASE ~(FinishBlock /\ b \in SuccSet(cur))
    <3>1. in_state'[b] = in_state[b]
      BY <2>4 DEF Next, Pop, CutOff, Stop, WalkStatement, FinishBlock, Finished, vars
    <3> QED
      BY <2>1, <2>2, <3>1
  <2> QED
    BY <2>3, <2>4
<1> QED
  BY <1>1, TypeInvariant, PTL DEF Spec, EntryStatesRise

-----------------------------------------------------------------------------
(* The same for a caller that comes with a body of its own.                   *)

Inv == ExactInv /\ JoinFreeInv /\ SiteInv /\ OnceInv

LEMMA BeginInv == Begun => Inv
<1>1. Begun => SoundInv
  BY TypeBegin, SoundInit DEF SoundInv
<1> QED
  BY <1>1, ExactInit, JoinFreeInit, SiteInit, OnceInit DEF ExactInv, Inv

LEMMA StepInv == Inv /\ [Next]_vars => Inv'
<1> SUFFICES ASSUME Inv, [Next]_vars PROVE Inv'
  OBVIOUS
<1>1. ExactInv /\ JoinFreeInv /\ SiteInv /\ OnceInv /\ SoundInv /\ TypeInv
  BY DEF Inv, ExactInv, SoundInv
<1>2. SoundInv'
  BY <1>1, TypeStep, SoundStep
<1> QED
  BY <1>1, <1>2, ExactStep, JoinFreeStep, SiteStep, OnceStep DEF Inv

\* What the checker promises of the body it has been given.
Correct ==
  /\ TypeOK /\ NoSpuriousReport /\ ReportedOnce /\ DrainedIsExact /\ WalkedExactlyReachable
  /\ InBlockUseReported /\ CompleteWithoutJoins

LEMMA InvCorrect == Inv => Correct
<1> SUFFICES ASSUME Inv PROVE Correct
  OBVIOUS
<1>1. ExactInv /\ SoundInv /\ TypeInv /\ SiteInv /\ OnceInv
  BY DEF Inv, ExactInv, SoundInv
<1>2. TypeOK /\ NoSpuriousReport /\ ReportedOnce
  BY <1>1 DEF TypeInv, SoundInv, OnceInv
<1>3. DrainedIsExact /\ WalkedExactlyReachable
  BY <1>1, DrainedExact, DoneVisited DEF WalkedExactlyReachable
<1>4. InBlockUseReported /\ CompleteWithoutJoins
  BY <1>1, JoinFreeComplete DEF SiteInv, MustReport, InBlockUseReported
<1> QED
  BY <1>2, <1>3, <1>4 DEF Correct

=============================================================================
