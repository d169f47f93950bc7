-------------------------------- MODULE SafeC --------------------------------
(***************************************************************************)
(* What -fsafe-c does with one function (crates/rccx_driver, from HIR to   *)
(* the borrow checker's reports): the MIR builder and the borrow checker   *)
(* one after the other.  The builder's body is what the checker walks; its *)
(* variables and actions are those of MirBuild.                            *)
(***************************************************************************)
EXTENDS MirBuild

CONSTANTS
  MaxLocal,   \* bound: the highest local; a body with more is not checked
  NoBlock, NoSpan

VARIABLES
  body, in_state, visited, worklist, iters, cur, ip, state, already, moved_at, diags,
           \* the checker's
  checked  \* its pc, or "waiting" before it is called

checkVars ==
  <<body, in_state, visited, worklist, iters, cur, ip, state, already, moved_at, diags, checked>>
safeCVars == <<vars, checkVars>>

Check == INSTANCE BorrowCheck WITH pc <- checked, Local <- 0 .. MaxLocal, Bodies <- {}

ASSUME NumbersAssumption == MaxLocal \in Nat /\ NoBlock \notin Nat

-----------------------------------------------------------------------------
(* The MIR as the checker reads it: of a place its local and whether it is    *)
(* projected, of an operand its mode and local.                               *)

OperandOf(o) ==
  IF o.mode = "Const" THEN Check!Constant ELSE [mode |-> o.mode, local |-> o.place.local]
OperandsOf(os) == [i \in DOMAIN os |-> OperandOf(os[i])]

PlaceOf(pl) == [local |-> pl.local, projected |-> pl.proj # <<>>]

StatementOf(s) ==
  [reads |-> OperandsOf(s.reads),
   dest |-> {PlaceOf(pl) : pl \in Range(s.dest)},
   storage |-> IF s.op = "live" THEN {pl.local : pl \in Range(s.of)} ELSE {}]

BlockOf(b) ==
  [stmts |-> [i \in DOMAIN b.stmts |-> StatementOf(b.stmts[i])],
   cond |-> OperandsOf(b.term.cond),
   succs |-> b.term.to]

\* The locals are numbered as in the builder: the return slot, the parameters, ...
BodyOf(f, m) ==
  [size |-> Len(m.blocks),
   blocks |-> [b \in 0 .. Len(m.blocks) - 1 |-> BlockOf(m.blocks[b + 1])],
   owners |-> {l \in 0 .. Len(m.locals) - 1 : m.locals[l + 1].own},
   argCount |-> Len(f.params)]

-----------------------------------------------------------------------------
NoBody == [size |-> 0, blocks |-> <<>>, owners |-> {}, argCount |-> 0]

SafeCInit ==
  /\ Init
  /\ body = NoBody /\ in_state = <<>> /\ visited = {} /\ worklist = <<>> /\ iters = 0
  /\ cur = NoBlock /\ ip = 1 /\ state = Check!NoState /\ already = FALSE
  /\ moved_at = [l \in 0 .. MaxLocal |-> NoSpan] /\ diags = {}
  /\ checked = "waiting"

Lower ==
  /\ pc = "run"
  /\ Next
  /\ UNCHANGED checkVars

\* check_body is called with the finished body: its local variables are set up.
CheckBody ==
  /\ pc = "done" /\ checked = "waiting"
  /\ Len(me.locals) <= MaxLocal + 1  \* the bound
  /\ body' = BodyOf(fn, me)
  /\ in_state' = [b \in 0 .. body'.size - 1 |-> IF b = 0 THEN Check!EntryState(body') ELSE Check!NoState]
  /\ worklist' = <<0>>
  /\ checked' = IF body'.owners = {} THEN "done" ELSE "run"
  /\ UNCHANGED <<vars, visited, iters, cur, ip, state, already, moved_at, diags>>

Walk ==
  /\ checked = "run"
  /\ Check!Next
  /\ UNCHANGED vars

Terminating ==
  /\ pc = "panic" \/ checked \in {"done", "cut"}
  /\ UNCHANGED safeCVars

SafeCNext == Lower \/ CheckBody \/ Walk \/ Terminating

SafeCSpec == SafeCInit /\ [][SafeCNext]_safeCVars
=============================================================================
