---------------------------- MODULE BorrowCheck ----------------------------
(***************************************************************************)
(* The Safe C borrow checker (crates/rccx_borrowck): for one MIR body, a   *)
(* forward data-flow walk over the control-flow graph that gives every     *)
(* owner local one of the states Uninit, Init and Moved and reports every  *)
(* read of a Moved local (E0001).                                          *)
(*                                                                         *)
(* One behaviour is one call of check_body.  The body is picked by Init    *)
(* and never changes.  A step is one iteration of the worklist loop's      *)
(* head (Pop, or Stop/CutOff when the loop ends), one statement            *)
(* (WalkStatement) or the end of a block (FinishBlock: the branch          *)
(* condition and the propagation to the successors).                       *)
(*                                                                         *)
(* Data that no property distinguishes is left out: the constants' values, *)
(* types other than "is an owner pointer", spans and message texts.        *)
(***************************************************************************)
EXTENDS Integers, SequencesExt

CONSTANTS
  Local,    \* the LocalIds in play; 0 is the return slot
  Bodies,   \* the MIR bodies Init may pick
  NoBlock,  \* "no block is being walked"
  NoSpan    \* Span::DUMMY

-----------------------------------------------------------------------------
(* MIR, as far as the checker looks at it. *)

\* A constant (a number, a callee) names no local.
Constant == [mode |-> "Const", local |-> -1]

Operand == [mode : {"Copy", "Move"}, local : Local] \cup {Constant}

\* A destination: the local it is rooted at, and whether it is projected
\* (`*p`, `p[i]`).
Place == [local : Local, projected : BOOLEAN]

\* reads: the operands in evaluation order; dest: none or one place;
\* storage: the local of a StorageLive / StorageDead.  A Nop has none of them.
Statement == [reads : Seq(Operand), dest : SUBSET Place, storage : SUBSET Local]

\* cond: the operand a SwitchInt branches on (empty for other terminators);
\* succs: the successors of the terminator, in the order `successors` lists.
IsBlock(blk, n) ==
  /\ blk.stmts \in Seq(Statement)
  /\ blk.cond \in Seq(Operand)
  /\ blk.succs \in Seq(0 .. n - 1)
  /\ Len(blk.succs) <= 2

IsBody(m) ==
  /\ m.size \in Nat \ {0}
  /\ DOMAIN m.blocks = 0 .. m.size - 1
  /\ \A b \in 0 .. m.size - 1 : IsBlock(m.blocks[b], m.size)
  /\ m.owners \subseteq Local
  /\ m.argCount \in Nat

ASSUME LocalAssumption == Local \subseteq Nat
ASSUME BodiesAssumption == \A m \in Bodies : IsBody(m)
ASSUME NoBlockAssumption == NoBlock \notin Nat

VARIABLES
  body,       \* the MirBody under check
  in_state,   \* state on entry of each block
  visited,    \* blocks walked at least once
  worklist,   \* a stack: popped from its end
  iters,      \* iterations of the worklist loop
  cur,        \* the block being walked, or NoBlock
  ip,         \* the next statement of it
  state,      \* the working state of the walk
  already,    \* already_visited: this walk reports nothing
  moved_at,   \* move sites, for the secondary label
  diags,      \* the reports pushed so far
  pc          \* "run"; "done": worklist drained; "cut": max_iters exceeded

vars == <<body, in_state, visited, worklist, iters, cur, ip, state, already,
          moved_at, diags, pc>>

Blocks == 0 .. body.size - 1
Stmts(b) == body.blocks[b].stmts
Cond(b) == body.blocks[b].cond
Succs(b) == body.blocks[b].succs
SuccSet(b) == Range(Succs(b))

-----------------------------------------------------------------------------
(* The lattice. *)

\* "Absent" stands for a local with no entry in the HashMap.
LocalState == {"Absent", "Uninit", "Init", "Moved"}
StateMap == [Local -> LocalState]
NoState == [l \in Local |-> "Absent"]

\* Mutant: the arm that lets Moved poison the join is missing.
JoinLocal_Forgets(a, b) ==
  IF a = b THEN a
  ELSE IF "Init" \in {a, b} THEN "Init"
  ELSE "Uninit"

JoinLocal(a, b) ==
  IF a = b THEN a
  ELSE IF "Moved" \in {a, b} THEN "Moved"
  ELSE IF "Init" \in {a, b} THEN "Init"
  ELSE "Uninit"

\* Mutant: the last predecessor overwrites the entry state.
JoinStates_LastWins(m1, m2) == [l \in Local |-> IF m2[l] = "Absent" THEN m1[l] ELSE m2[l]]

JoinStates(m1, m2) == [l \in Local |-> JoinLocal(m1[l], m2[l])]

-----------------------------------------------------------------------------
(* One statement. *)

\* The state that the k-th of a list of operands is read in.  Every operand
\* before it has been read, and a Move among them has marked its local.
StateAtRead(st, reads, k) ==
  [l \in Local |-> IF \E j \in 1 .. k - 1 : reads[j] = [mode |-> "Move", local |-> l]
                   THEN "Moved" ELSE st[l]]

\* Mutant: the last operand is read, but its move not recorded.
AfterReads_LastKept(st, reads) == StateAtRead(st, reads, Len(reads))

AfterReads(st, reads) == StateAtRead(st, reads, Len(reads) + 1)

\* Mutant: a write does not initialize its destination.
AfterStatement_NoInit(st, s) ==
  [l \in Local |->
     IF l \in s.storage \cap body.owners THEN "Uninit" ELSE AfterReads(st, s.reads)[l]]

AfterStatement(st, s) ==
  [l \in Local |->
     IF l \in s.storage \cap body.owners THEN "Uninit"
     ELSE IF [local |-> l, projected |-> FALSE] \in s.dest /\ l \in body.owners
          THEN "Init"
     ELSE AfterReads(st, s.reads)[l]]

\* Mutant: every walk reports.
Reports_EveryWalk(st, reads, b, i) ==
  {[block |-> b, stmt |-> i, arg |-> k, local |-> reads[k].local,
    iter |-> iters, moved |-> moved_at[reads[k].local]]
     : k \in {k \in DOMAIN reads :
                /\ reads[k].local \in body.owners
                /\ StateAtRead(st, reads, k)[reads[k].local] = "Moved"}}

\* The reads of a list of operands that are reported: of an owner local that is
\* Moved by then.  A walk of a block walked before reports nothing.
Reports(st, reads, b, i) ==
  IF already THEN {}
  ELSE {[block |-> b, stmt |-> i, arg |-> k, local |-> reads[k].local,
         iter |-> iters, moved |-> moved_at[reads[k].local]]
          : k \in {k \in DOMAIN reads :
                     /\ reads[k].local \in body.owners
                     /\ StateAtRead(st, reads, k)[reads[k].local] = "Moved"}}

-----------------------------------------------------------------------------
(* check_body. *)

\* Parameters come in initialized: the caller has just moved into them.
EntryState(m) ==
  [l \in Local |-> IF l \notin m.owners THEN "Absent"
                   ELSE IF l <= m.argCount THEN "Init" ELSE "Uninit"]

Start ==
  /\ in_state = [b \in Blocks |-> IF b = 0 THEN EntryState(body) ELSE NoState]
  /\ visited = {}
  /\ worklist = <<0>>
  /\ iters = 0
  /\ cur = NoBlock
  /\ ip = 1
  /\ state = NoState
  /\ already = FALSE
  /\ moved_at = [l \in Local |-> NoSpan]
  /\ diags = {}
  /\ pc = IF body.owners = {} THEN "done" ELSE "run"

Init == body \in Bodies /\ Start

MaxIters == body.size * 4 + 16

\* Pop the next block and start to walk it.
Pop ==
  /\ pc = "run" /\ cur = NoBlock /\ worklist # <<>>
  /\ iters < MaxIters
  /\ LET b == Last(worklist)
     IN /\ cur' = b
        /\ state' = in_state[b]
        /\ already' = (b \in visited)
        /\ visited' = visited \cup {b}
  /\ worklist' = Front(worklist)
  /\ iters' = iters + 1
  /\ ip' = 1
  /\ UNCHANGED <<body, in_state, moved_at, diags, pc>>

\* The iteration limit: the popped block is dropped and the loop left.
CutOff ==
  /\ pc = "run" /\ cur = NoBlock /\ worklist # <<>>
  /\ iters >= MaxIters
  /\ iters' = iters + 1
  /\ worklist' = Front(worklist)
  /\ pc' = "cut"
  /\ UNCHANGED <<body, in_state, visited, cur, ip, state, already, moved_at, diags>>

Stop ==
  /\ pc = "run" /\ cur = NoBlock /\ worklist = <<>>
  /\ pc' = "done"
  /\ UNCHANGED <<body, in_state, visited, worklist, iters, cur, ip, state,
                 already, moved_at, diags>>

WalkStatement ==
  /\ cur # NoBlock
  /\ ip <= Len(Stmts(cur))
  /\ LET s == Stmts(cur)[ip]
     IN /\ diags' = diags \cup Reports(state, s.reads, cur, ip)
        /\ state' = AfterStatement(state, s)
  /\ ip' = ip + 1
  /\ UNCHANGED <<body, in_state, visited, worklist, iters, cur, already, moved_at, pc>>

\* Mutants: a block is pushed again while it is on the list; only first walks
\* push; every walk pushes.
PushSucc_Unguarded(wl, out, s) ==
  IF ~already \/ JoinStates(in_state[s], out) # in_state[s] THEN Append(wl, s) ELSE wl

PushSucc_FirstOnly(wl, out, s) ==
  IF ~already /\ s \notin Range(wl) THEN Append(wl, s) ELSE wl

PushSucc_Always(wl, out, s) ==
  IF s \notin Range(wl) THEN Append(wl, s) ELSE wl

\* Push successor s: always on the first walk of the block, later only when
\* its entry state changes, and never twice.
PushSucc(wl, out, s) ==
  IF /\ ~already \/ JoinStates(in_state[s], out) # in_state[s]
     /\ s \notin Range(wl)
  THEN Append(wl, s) ELSE wl

\* Mutant: the else branch of a SwitchInt is no successor.
PushSuccs_ThenOnly(out, ss) ==
  IF ss = <<>> THEN worklist ELSE PushSucc(worklist, out, ss[1])

PushSuccs(out, ss) ==
  CASE Len(ss) = 0 -> worklist
    [] Len(ss) = 1 -> PushSucc(worklist, out, ss[1])
    [] OTHER -> PushSucc(PushSucc(worklist, out, ss[1]), out, ss[2])

FinishBlock ==
  /\ cur # NoBlock
  /\ ip > Len(Stmts(cur))
  /\ LET out == AfterReads(state, Cond(cur))
     IN /\ diags' = diags \cup Reports(state, Cond(cur), cur, ip)
        /\ in_state' = [s \in Blocks |->
             IF s \in SuccSet(cur) THEN JoinStates(in_state[s], out) ELSE in_state[s]]
        /\ worklist' = PushSuccs(out, Succs(cur))
  /\ cur' = NoBlock
  /\ ip' = 1
  /\ state' = NoState
  /\ already' = FALSE
  /\ UNCHANGED <<body, visited, iters, moved_at, pc>>

\* check_body has returned.
Finished ==
  /\ pc # "run"
  /\ UNCHANGED vars

Next == Pop \/ CutOff \/ Stop \/ WalkStatement \/ FinishBlock \/ Finished

Spec == Init /\ [][Next]_vars

\* check_body is sequential code that nothing else in the process can block.
FairSpec == Spec /\ WF_vars(Next)

-----------------------------------------------------------------------------
(***************************************************************************)
(* What a use after move is, independently of the walk: in terms of the    *)
(* paths of the control-flow graph.                                        *)
(***************************************************************************)

\* Step i of block b moves l away; the step after the last statement is the
\* read of the branch condition.
Reads(b, i) == IF i <= Len(Stmts(b)) THEN Stmts(b)[i].reads ELSE Cond(b)
NSteps(b) == Len(Stmts(b)) + 1

\* Step i of block b gives l a new value, or a new lifetime.
Rebinds(b, i, l) ==
  /\ i <= Len(Stmts(b))
  /\ l \in body.owners
  /\ \/ l \in Stmts(b)[i].storage
     \/ [local |-> l, projected |-> FALSE] \in Stmts(b)[i].dest

MovesOut(b, i, l) ==
  \E k \in DOMAIN Reads(b, i) : Reads(b, i)[k] = [mode |-> "Move", local |-> l]

\* Inside block b, l is moved by a step before i and not rebound since.
MovedInside(b, i, l) ==
  \E j \in 1 .. i - 1 :
    /\ MovesOut(b, j, l)
    /\ \A k \in j .. i - 1 : ~Rebinds(b, k, l)

KeptUpTo(b, i, l) == \A k \in 1 .. i - 1 : ~Rebinds(b, k, l)

Reaches(S) == 0 \in S /\ \A b \in S : SuccSet(b) \subseteq S
ReachableBlocks == {b \in Blocks : \A S \in SUBSET Blocks : Reaches(S) => b \in S}

\* S is closed under the edges out of R along which l can be moved.
FlowClosed(R, S, l) ==
  \A b \in R : \A s \in SuccSet(b) :
    \/ MovedInside(b, NSteps(b) + 1, l)
    \/ b \in S /\ KeptUpTo(b, NSteps(b) + 1, l)
    => s \in S

\* Some path of the graph reaches a move of l and from there the entry of b
\* without rebinding l: b is in every set that is closed.
MovedIn(b, l) ==
  LET R == ReachableBlocks
  IN \A S \in SUBSET Blocks : FlowClosed(R, S, l) => b \in S

\* On some path l is moved when step i of block b begins.
MovedAt(b, i, l) == MovedInside(b, i, l) \/ (MovedIn(b, l) /\ KeptUpTo(b, i, l))

\* ... and when the k-th operand of that step is read.
MovedAtRead(b, i, k, l) ==
  \/ \E j \in 1 .. k - 1 : Reads(b, i)[j] = [mode |-> "Move", local |-> l]
  \/ MovedAt(b, i, l)

Reported(b, i, k) ==
  \E d \in diags : d.block = b /\ d.stmt = i /\ d.arg = k

OwnerRead(b, i, k) ==
  /\ i \in 1 .. NSteps(b)
  /\ k \in DOMAIN Reads(b, i)
  /\ Reads(b, i)[k].local \in body.owners

-----------------------------------------------------------------------------
(* Properties. *)

\* The types of the variables, and what the loop's bookkeeping promises: the
\* worklist lists no block twice, and the iteration counter stops one past its
\* limit.
TypeOK ==
  /\ IsBody(body)
  /\ in_state \in [Blocks -> StateMap]
  /\ visited \subseteq Blocks
  /\ worklist \in Seq(Blocks)
  /\ IsInjective(worklist)
  /\ iters \in 0 .. MaxIters + 1
  /\ state \in StateMap
  /\ already \in BOOLEAN
  /\ moved_at = [l \in Local |-> NoSpan]
  /\ pc \in {"run", "done", "cut"}
  /\ \/ cur = NoBlock /\ ip = 1
     \/ cur \in Blocks /\ ip \in 1 .. NSteps(cur) /\ pc = "run"
  /\ diags \subseteq [block : Blocks, stmt : Nat, arg : Nat, local : Local,
                      iter : Nat, moved : {NoSpan}]

\* No false alarm: a reported read is a use after move on some path from the
\* function's entry, however many times its block was walked, in whatever order.
NoSpuriousReport ==
  \A d \in diags : MovedAtRead(d.block, d.stmt, d.arg, d.local)

\* One mistake, one message: the walks that the fixpoint iteration adds report
\* no read a second time (already_visited suppresses them).
ReportedOnce ==
  \A d, e \in diags :
    d.block = e.block /\ d.stmt = e.stmt /\ d.arg = e.arg => d = e

\* When the worklist drains, the entry states are the exact solution: an owner
\* is Moved on entry of a block iff some path moves it away before.
DrainedIsExact ==
  pc = "done" /\ body.owners # {} =>
    \A b \in ReachableBlocks, l \in body.owners :
      in_state[b][l] = "Moved" <=> MovedIn(b, l)

\* When the worklist drains, the walk has been in every block that can execute
\* and in no dead one.
WalkedExactlyReachable ==
  pc = "done" /\ body.owners # {} => visited = ReachableBlocks

\* A use after a move in the same block is reported by the first walk, whatever
\* the state the block is entered in and whether or not the limit cuts the
\* iteration short.
InBlockUseReported ==
  \A b \in visited \ {cur} : \A i \in 1 .. NSteps(b) : \A k \in DOMAIN Reads(b, i) :
    LET l == Reads(b, i)[k].local
    IN /\ l \in body.owners
       /\ \/ MovedInside(b, i, l)
          \/ \E j \in 1 .. k - 1 : Reads(b, i)[j] = [mode |-> "Move", local |-> l]
       => Reported(b, i, k)

\* Every reachable use after move is reported.
AllUsesReported ==
  \A b \in ReachableBlocks : \A i \in 1 .. NSteps(b) : \A k \in DOMAIN Reads(b, i) :
    LET l == Reads(b, i)[k].local
    IN l \in body.owners /\ MovedAtRead(b, i, k, l) => Reported(b, i, k)

\* The control flow never joins: no reachable block has two predecessors, and
\* the entry has none.
NoJoin ==
  \A b, c \in ReachableBlocks :
    /\ SuccSet(b) \cap SuccSet(c) # {} => b = c
    /\ 0 \notin SuccSet(b)

\* Where control flow only splits, the check is complete: no use after move is
\* missed.
CompleteWithoutJoins == pc = "done" /\ NoJoin => AllUsesReported

\* Entry states only rise in the order Absent, Uninit, Init, Moved: what makes
\* the iteration converge.  A block a move has poisoned stays poisoned.
Rank(v) == CASE v = "Absent" -> 0 [] v = "Uninit" -> 1 [] v = "Init" -> 2 [] OTHER -> 3

EntryStatesRise ==
  [][\A b \in Blocks, l \in Local : Rank(in_state[b][l]) <= Rank(in_state'[b][l])]_vars

\* The worklist drains before the iteration limit wherever counting walks says
\* so.  A block is pushed by the first walk of a predecessor, once per edge, and
\* when its entry state rises, which after the first arrival each owner can make
\* it do twice (Uninit, Init, Moved).  With two edges out of a block that is
\* (2k + 2) n + 1 walks of n blocks with k owners: below the limit for one owner
\* whatever n is, for two owners up to 7 blocks.
CountedOut ==
  /\ body.owners # {}
  /\ (2 * Cardinality(body.owners) + 2) * body.size + 1 <= MaxIters

Drains == CountedOut => <>(pc = "done")

-----------------------------------------------------------------------------
(* What the repository says of the checker, and its code does not do. *)

LoopFree == \E rank \in [Blocks -> Blocks] :
  \A b \in Blocks : \A s \in SuccSet(b) : rank[b] < rank[s]

\* A program that compiles cleanly is free of use after move.
CleanIsSafe == pc = "done" /\ diags = {} /\ LoopFree => AllUsesReported

=============================================================================
