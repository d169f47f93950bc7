# A TLA+ model of rccx

`rccx` is a C compiler front end in Rust with an optional Safe C mode, in
which pointers declared `[[sc::owner]]` are moved by assignments and calls and
a borrow checker reports uses after a move. This directory models the parts of
it whose behaviour depends on order, state and control flow, checks them with
TLC on small instances, and proves with TLAPS what matters most about the
borrow checker and the MIR builder, for every function, about the lexer, for
every text, about the parser, for every list of tokens, about the type checker,
for every module, and about the driver, for every command line. All paths below
are relative to the repository.

    tlc -config BorrowCheck.cfg MCBorrowCheck      # a run
    tlapm BorrowCheckProofs.tla                    # the proofs of one module

## 1. Inventory

One process, one thread: `rccx_cli` parses the arguments and calls
`rccx_driver::compile`, which calls the stages one after the other on each
input. Nothing runs concurrently and nothing is persisted, so the hard
behaviours here are not races. They are fixpoints whose result must not depend
on the order of a worklist, code generation around jumps, recursion through
files and macros that must end, limits that cut work short, and stages that go
on after an earlier one failed.

| Component | State | Operations | What makes it correct |
|---|---|---|---|
| Command line (`rccx_cli`) | options so far, position | one step per argument; exit code 0, 1, 2 | every word is read for what it is; the exit code tells whether an error was printed |
| Driver (`rccx_driver`) | `SourceMap`, sink, emitted text | load, one call per stage and file, finish | all stages of the mode on every readable input; nothing found is lost; success means checked |
| Diagnostic sink | list, two counters | emit, drain | counters match the list |
| Preprocessor (`rccx_pp`) | macros, include stack, output, loaded files | text line, `#include`, `#define`, `#undef`, errors | output is what C says; cycles and limits are reported; it ends |
| Lexer (`rccx_lexer`) | position, diagnostics | one token per call | longest match; tokens tile the file at character boundaries |
| Parser (`rccx_parser`) | position, diagnostics | recursive descent, recovery | the tree of the grammar; recovery makes progress and loses nothing silently; no panic |
| Type checker (`rccx_typeck`) | scopes, symbols, loop depth, return type | two passes over the items, one step per node | every name resolves to its lexical declaration; accepted means typed; an item leaves nothing behind |
| MIR builder (`rccx_mir::build`) | blocks, locals, current block, loop stack | one step per statement and expression | the MIR does what the source does; every block gets exactly one terminator |
| Borrow checker (`rccx_borrowck`) | entry states, worklist, iteration count | one step per statement, one per block | no false reports; exact fixpoint; nothing missed |
| Source map (`rccx_source`) | files, line starts | add, look up, offset to line | line table right at the boundaries |
| Renderer (`rccx_diagnostics::render`) | none | one diagnostic to text | a label is shown where it points |
| AST, HIR, their dumps, the MIR dump, code tables | none | pure functions and tables | - |

Interactions: the preprocessor calls the lexer on each file and adds files to
the driver's `SourceMap`; parser, type checker and MIR builder hand immutable
trees on; all of them return vectors of diagnostics, which the driver moves
into the sink, and which the command line prints when everything is over. The
MIR builder relies on what the type checker checked (`expect("typeck
guarantees an lvalue here")`) although the driver calls it after type errors
too. The borrow checker relies on the MIR builder to say which reads are moves.

`PROJECT.json` lists every component with its status and every hazard with its
line and the properties that cover it. `ARCHITECTURE.md` names more crates
(resolve, codegen, lint, query, incremental, ...); they have no code yet. The
states of SPEC.md section 6 for borrows, freeing and dropping are not in the
code either, so there is nothing to model.

## 2. Modules

| Module | Models | Runs |
|---|---|---|
| `SourceFile` | `rccx_source::SourceFile`: line starts, line and column, line ranges; `caret_for` of the renderer | |
| `Lexer` | `rccx_lexer`, one call of `lex`; EXTENDS `SourceFile` | `Lexer.cfg` with `MCLexer` |
| `MaximalMunch` | abstract specification: a text is cut into its longest lexemes | |
| `LexMeaning` | the refinement, and what lines, tokens and labels have to do with each other | |
| `LexerProofs` | theorems about `Lexer`, and that it implements `MaximalMunch` | |
| `Preprocessor` | `rccx_pp`, one call of `preprocess` | `Preprocessor.cfg` with `MCPreprocessor` |
| `PpMeaning` | reference: includes and macros as C defines them | |
| `Parser` | `rccx_parser`, one call of `parse_module` | `Parser*.cfg` with `MCParser` |
| `ParseMeaning` | reference: how a tree is written, and which trees C has | |
| `ParserProofs` | theorems about `Parser` | |
| `TypeCheck` | `rccx_typeck`, one call of `check`, with the types of `rccx_hir` | `TypeCheck*.cfg` with `MCTypeCheck` |
| `TcMeaning` | reference: lexical scoping and typed trees | |
| `TypeCheckProofs` | theorems about `TypeCheck` | |
| `MirBuild` | `rccx_mir/src/build.rs`, one function body | `MirBuildLogic.cfg` with `MCMirBuild`; `SafeC.cfg` |
| `HirParts` | which expressions and statements a function consists of, for the runs of `MirBuild` and `SafeC` | |
| `MirMeaning` | reference: what a HIR function and a MIR body do when run | |
| `MirBuildProofs` | theorems about `MirBuild` | |
| `BorrowCheck` | `check_body` and everything it calls | `BorrowCheck*.cfg` with `MCBorrowCheck` |
| `BorrowCheckProofs` | theorems about `BorrowCheck` | |
| `SafeC` | composition: EXTENDS `MirBuild`, then `BorrowCheck` on the body it built | `SafeC*.cfg` with `MCSafeC` |
| `OwnerMeaning` | reference: on which paths of the source an owner is misused | |
| `SafeCProofs` | theorems about the composition | |
| `Driver` | `parse_args`, `run_with`, `compile`, the sink | `Driver.cfg` with `MCDriver` |
| `DriverProofs` | theorems about `Driver` | |
| `SequenceFacts` | lemmas about sequences, folds over them and induction, for the other proofs | |

Where a component computes something (tokens, trees, MIR), its
specification is a reference module that says the same thing in a
different, declarative way, and the property says that both agree when the
component is done. The references, `MaximalMunch` and `LexMeaning` apart, are recursive, and
so is `HirParts`; they are used by TLC only and no theorem reaches them.

Operators whose name has an underscore (`JoinLocal_Forgets`) are plausible
slips of the operator after them. No specification uses them: each shows that
some property would notice that slip.

### SourceFile, Lexer, MaximalMunch and LexMeaning

A text is a sequence of bytes; a byte is named by its ASCII character, and the
bytes of two characters of two and three bytes by their hex values. `NextChar`
is the advance by `len_utf8`. `doing` says which loop of the lexer runs; an
action is the choice `next_token` makes or one round of that loop. `number`
keeps `base` and `isFloat` between rounds. `ComputeLineStarts`, `LineCol`,
`LineRange` and `CaretFor` are the functions of those names.

`MaximalMunch` has no position inside a token: a step appends the longest range
of bytes that is a lexeme of some kind, and the kinds are described by sets and
quantifiers. `IsMaximalMunch` says that the lexer implements it, the rounds of
a loop being stuttering steps; with fairness, it also says that `lex` ends.

### Parser and ParseMeaning

A task of `todo` is a pending call of a `parse_*` method or the code after one
in its caller, `vals` the nodes in local variables. A method that returns
`None` drops the tasks up to the next one that handles it (`Fail`): a loop over
items or statements, which recovers in its next step (`Recover`, with
`sync_after_statement` and the closing brace behind it), or an array bound.
`ParseBinary` is the precedence climbing of the code, over its table
`Precedence`. Spans are the file and the first and last token, as far as
`Span::join` looks at them: `panicked` is its debug assertion. Recovery loops
compare spans to see whether a round consumed anything; here they compare
positions.

`ParseMeaning` writes a tree as tokens (`ItemWords`), says which trees the
grammar has (`IsGrammatical`, by the level of each operand) and which type a
run of specifiers names, so that "the parser is right" needs no second parser:
the tree it returns must be grammatical and be written as the tokens are. The
levels are those of C17 6.5.5 to 6.5.14 (`BinaryLevel`), not the parser's table.
Two readings that are not C's are set aside by name (`Misread`): `sizeof` before
a parenthesised operand, which the parser takes for a cast, and an array of
arrays, which it nests the wrong way round.

### BorrowCheck

`body` is the `MirBody`; a block is its statements, the operand it branches
on and the successors of its terminator. A statement is the operands it reads
in order, the place it writes and the local whose storage it starts or ends;
that is all `walk_statement` looks at. `in_state`, `visited`, `worklist`,
`iters`, `moved_at`, `diags` are the variables of `check_body`; `cur`, `ip`,
`state` and `already` are the locals of one round of its loop. `Pop` takes a
block off the *end* of the worklist, `WalkStatement` is one call of
`walk_statement`, `FinishBlock` reads the branch condition and does the whole
propagation to the successors, `CutOff` is the `break` at the iteration limit
and `Stop` the end of the loop. Constants, types other than "owner pointer",
spans and texts are left out; the move-site label is kept, as `moved`.

### MirBuild and MirMeaning

The builder is a recursion over the HIR. The model keeps the recursion as an
explicit stack of jobs: `todo` holds what is left to lower, in order, `ops`
the operands produced and not yet used, and `me` is the `Builder` (blocks,
locals, current block, loop stack, symbol map). One action is one `lower_*`
function up to its first recursive call, or the code between two of its
recursive calls. `is_current_live`, the patching of terminators and the
placeholder `Unreachable` are as in the code. `MirMeaning` runs the source
(`Eval`, `Exec`) and the MIR (`RunBlocks`) with the same answers from the
functions that are called and compares the traces of calls and the results.

### Preprocessor and PpMeaning

`sources` is the `SourceMap` (paths as spelled), `disk` what is really there,
`stack` the include stack with the next line of each file, so that the
recursion of `process_file` is explicit. `ExpandIdent` is a recursive function
with the set of active macros and the depth. A line comes classified
(`text`, `include`, `define`, ...), a token is a name; those in `Ident` are
identifiers, the others are copied at any depth and never expanded. A `-D` body
that does not lex is reported (`LexErrors`). `PpMeaning` first replaces includes
by text and then macros with Prosser's hide sets; it counts the macros that nest
deeper than the limit and, apart from those, knows no limit.

### TypeCheck and TcMeaning

AST and HIR are trees of one kind of node, which carries a type in the HIR.
`todo` is the explicit recursion, as in `MirBuild`; `vals` holds the HIR nodes
that callers have in their local variables, and at the end the items of the
`HirModule`. `tc` is the `TypeChecker`: symbols, scopes, diagnostics (codes
only), current return type, loop depth. An action is one arm of `lower_stmt` or
`lower_expr` up to its first recursive call, or what the code does once a part
is lowered: `MakeNode` applies a typing rule (`Unary`, `Binary`, ...),
`ConvertAction` is `convert_to`, `ScalarAction` the end of `lower_cond_expr`.
Written types are layers of pointers and arrays over a base, which `LowerType`
turns into HIR types; a literal is its suffix.

`TcMeaning` has no scope stack: a name means the innermost declaration whose
scope encloses the use and which ends before it (`Target`), items being visible
everywhere, and the HIR is typed if every node agrees with its children
(`Typed`). A module that steps a decayed array, or writes a function or
something of type `void`, is not typed and yet accepted; `WritesNoScalar` sets these
aside, and the run `array_step` shows the first.

### SafeC and OwnerMeaning

`SafeC` extends `MirBuild` by the variables of an instance of `BorrowCheck`:
`Lower` is any step of the builder, `CheckBody` hands the body over (`BodyOf`: of a place only its local and
whether it is projected, of an operand its mode) and `Walk` is any step of the
checker. `OwnerMeaning` never looks at MIR. It runs the *source* with sets of
path histories, every condition going either way, and knows which owners were
given away (on a call, an assignment, an initialiser or a return), used after
that, or read in ways that give nothing away (`kept`).

### Driver

An action of the first half is one arm of the `match` in `parse_args`; the
arguments are their texts, and `Attached` are those that carry a directory, a
definition or a standard (`-Idir`). `next` is where the loop that runs is: in the
arguments, in the inputs (`load_file`), or in the loaded files, each of which
goes through `Stages`, one `stage` after the other. A stage is external and may
report any number of problems, and `mir_build` may panic. The sink's counters
are kept as the code keeps them; `Errors` says which of its diagnostics they
are to count. `ran` is a history variable.

## 3. Runs and what they show

Passing runs (their properties hold):

- `borrow_check`: every placement of the interesting statements in the graphs
  the MIR builder makes of `if`, `while`, `do`, `for`, early returns, `break`,
  dead code and consecutive `if`s, with one and two owners. Four to seven
  blocks, up to three statements in a block. The bodies include all ways in which a
  worklist pass can come back to a block with a higher state (joins, loops,
  loops with jumps), which is where order matters. Two chains of ten branches
  that move ten owners hit the iteration limit, so that the other properties are
  seen to hold for a run that is cut off. `Drains` says that the worklist drains
  wherever the limit is at least the number of walks that counting rises allows,
  (2k + 2) n + 1 walks of n blocks with k owners (`CountedOut`): for one owner always,
  for two up to seven blocks. It says nothing beyond that, and must not: with two
  owners, one of them moved and given back, a tail of some 35 more `if`s outgrows the
  limit. All but `Drains` are proved for every function too.
- `preprocess`: some 2400 source trees of four files that include and redefine
  each other, with unreadable and missing files, `-I` directories and a header
  under two spellings, and chains of up to five macros, ending in a literal, in a
  name or in both. Both depth limits are 3 in place of 64: cycles
  and chains of three files and of five macros reach them, and no run needs more.
- `type_check`: 6383 modules, 2012 of which are accepted. One operator of each
  kind on all pairs of twelve names (six arithmetic and pointer types with and
  without owner, an array, functions, an undefined name), declared before and
  after the use; bodies of two statements with up to three scopes inside each
  other that declare and use one name, with jumps in and out of loops; up to
  three items from twelve that declare, redeclare and define two names. Larger
  modules combine the same typing rules, which look at one node and its
  children, and scopes, which are searched one after the other.
- `driver`: 3,654 command lines: all of up to three words out of fifteen, longer
  ones for each mode, and options with their argument attached; stages find up to
  two problems.
- `lex`: 14,244 texts: all of up to three of eighteen bytes and characters (each
  newline, quotes, backslash, comment bytes, digits, letters that mean
  something in literals, a stray character, one of two bytes), and longer ones over
  the bytes of literals, comments, numbers and punctuators, cut off at every
  place. Every loop of the lexer decides from at most three bytes ahead and its
  own state, so that longer texts repeat these cases. The keyword table is cut
  to `do` and `if`.
- `parse`: some 3,400 token lists. `Grammatical` are the declarations, statements
  and expressions of the grammar, each of the 18 binary operators beside every
  other on either side, with `sizeof` of a type and arrays of arrays among them; the
  rest are broken: each of several functions with a token missing, added,
  replaced or cut off at each place, all short lists of some tokens, and
  expressions whose tokens come from two files. Recovery depends on where the
  error is and on the braces around it, both of which these lists vary.
- `safe_c`: 7,548 functions. 831 have no owners: every kind of statement and
  expression, loops in loops and jumps from every position. Each of these is
  *executed*, source against MIR, with every sequence of five answers and two
  longer ones, so that every path of at least two rounds of each loop is taken.
  `Fuel` bounds the steps of one execution; a program that does not end within
  it is compared up to there. `&&` and `||` are executed where their value does not
  matter (see `logical_and`). `ClosedBlocksStay`: nothing is written to a block
  that has its terminator; it exempts the join of `&&` and `||`, which is closed with
  a jump to itself. The others have up to three owners that are given away, given
  back and returned in branches, loops and jumps, or do everything else with them.
  Histories of the source are sets, so that one run of `OwnerMeaning` takes all
  paths. `ReportsAreTheMisuses` speaks of functions that read owners only to
  give them away, since the code moves an owner by any read (`null_check_moves`),
  and of completeness only where no block has two predecessors, since joins are
  walked early (`join_is_walked_early`). `PanicsOnlyWithoutPlace`: the builder
  panics only where something is written that is no place of the function, which
  is a global, a decayed array, or what the type checker has refused (`1 = 2;`,
  which the driver builds all the same). `MaxLocal` = 24 exceeds the locals of
  the largest function.

Runs that are expected to find a violation, each of a sentence of the
repository (`PROJECT.json`, "findings", has the quotations):

- `join_is_walked_early`: the borrow checker accepts uses after a move at joins.
- `logical_and`: `a && b` is always 0, `a || b` always 1.
- `null_check_moves`: `if (p) f(p);` is reported although `p` is given away once.
- `array_step`: `a++` of an array passes the type checker, and the MIR builder, which
  was promised an lvalue, has no place for it.
- `sizeof_type`: `sizeof(int)`, which the repository's own example uses, does not parse.

The models also show, without a run of its own for each:

- lexer: `\` CR LF in a string is not a line splice, `\` LF is; outside of
  literals `\` newline is a stray character; a lone CR does not end an
  unterminated string. Hexadecimal `0xe+1` is three tokens where C17 has one
  preprocessing number. There are no digraphs. `u8'x'` is accepted (`Prefix`),
  where the comment on the method has `u`, `U` and `L` for characters. The renderer's
  notes are indented by the digits of a byte offset, where its comment says that
  they match the labels, which go by the line number (`render.rs:150`);
- preprocessor: `FileIdOf` compares paths as spelled: a header that includes itself
  as `"../d/a.h"` is loaded again at every level, in spite of the comment "Avoid
  loading the same file twice" (`rccx_pp/src/lib.rs:435`), and is stopped by the
  depth limit only;
- parser: `JoinAcrossFiles`: a debug build panics on an expression with tokens
  of two files, which an `#include` inside an expression gives. `[[` at the
  end of the file makes the parser step over `Eof` and drop what is left without a
  diagnostic (`RanPastEof`). `sizeof(int) * y` is read as
  `sizeof((int)(*y))`, and `int a[2][3]` nests the wrong way round (`Misread`).
  A stray `;` between items skips the items up to the next `;`, with a diagnostic. Some specifiers that C does not combine are accepted (`unsigned
  double` is `unsigned int`), `[[sc::owner]]` on something that is no pointer is
  dropped, and a declaration without a type is an `int`;
- type checker: a function, or something of type `void`, can be assigned to.
  `LowerType` keeps an array parameter an array, and arguments decay: a function
  with such a parameter cannot be called without E0403. `DeclareFn` accepts two
  definitions of one function;
- MIR builder: assigning to a global, or `++` on one, panics (`safe_c` executes it;
  `PanicsOnlyWithoutPlace` says what else does). After a
  statement that ends with `&&` or `||` the rest of its block is dropped, also for
  the borrow checker (`ask() && f(q); f(p); f(p);` is clean), and the function
  goes round in the join. `q = r = p` leaves two owners of one object. `break` and
  `continue` outside of loops do nothing;
- borrow checker: behind the iteration limit nothing is looked at, without a
  word: ten `if`s that move ten owners are enough. Any read of an owner moves it,
  also a comparison or the left of a comma, and `p++` on an owner is reported as it reads it twice. `*p = 1` through
  a moved owner and `&p` of one are not looked at (`consume(p); *p = 1;` is
  clean). Nothing ever inserts into `moved_at` (`BorrowCheck`, `TypeOK`), so no
  report has the "ownership moved here" label of `README.md:59`;
- driver: `-fsafe-c -emit=mir` checks nothing (`SafeCModesDecide` excludes the
  modes that dump), `-fsafe-c -emit=obj` succeeds without output; `MirPanics`
  ends the process with everything in the sink unprinted, also the type error for
  `1 = 2;` that precedes the panic.

### Fairness

`Drains`, `Terminates` and `IsMaximalMunch` contain liveness. Their
specifications have `WF_vars(Next)`, for the lexer `WF_vars(Lex)`, which is
`Next` without the stuttering at the end. The code is sequential, waits
for nobody and every action is a piece of straight-line code (`lex` calls
`next_token` until it returns `None`), so a step that can be taken is taken.
The parser ends because every round of its loops consumes a token
(`EveryRoundConsumes`), which needs no fairness.

## 4. Proofs

`BorrowCheckProofs` proves, for every set of bodies that are well-formed
(`BodiesAssumption`: successors are blocks of the body; at most two per
block), of any size and any number of owners:

- `TypeCorrect`, from `TypeInv`, which adds to `TypeOK` that the counter only
  passes the limit when the run is cut off;
- `NoFalseAlarm`: every report is a use after a move on some path. `SoundInv`
  adds that walked and queued blocks are reachable, that the working state is
  bounded by the states paths can produce up to the current statement, and
  that each entry state is bounded by the paths to its block;
- `FixpointIsExact` and `WalksExactlyReachable`: when the worklist drains, the
  entry states are exactly the may-be-moved solution. `ExactInv` adds that a
  walked block that is not queued has pushed its exit state into all of its
  successors, and that a queued or current block is the only one that may not
  have: the classic worklist invariant, which holds for any order;
- `InBlockComplete` and `CompleteOnTrees`: what the early first walk cannot
  miss. `SiteInv` says what the first walk of a block has reported so far;
  `JoinFreeInv` says that without joins the state of the first walk is final;
- `ReportsEachUseOnce` (`OnceInv`: a report's block has been walked or is being
  walked for the first time) and `StatesOnlyRise`.

The limit is not excluded anywhere: what is proved about drained runs says so
(`pc = "done"`), the other theorems hold for runs that are cut off too.

`LexerProofs` proves, for every set of texts in UTF-8 (`TextsAssumption`: no
continuation byte comes first or after a byte of ASCII):

- `TokensAlwaysTile`. `TilingInv` adds the types, that every token so far ends at
  or before the position, and `ProgressInv`: between tokens nothing has been
  consumed, and a loop has either consumed a byte or stands on one it will
  consume, so that no token is empty. A step either ends a token (`EmitTiles`)
  or reads on (`ReadTiles`); the lemma of an action says that the position it
  moves to is a boundary, since the lexer steps over a single byte only if that
  byte is ASCII, and over whole characters otherwise (`NextCharType`);
- `NewlinesAreAlwaysLines`. `LineInv` adds that the loops of tokens which stay on
  a line have met neither LF nor CR, and needs `TilingInv` for where a token
  begins;
- `LabelsPointRight`: `LabelsAreWhereTheyPoint` follows from `TilingInv`, which
  puts every token within the text. The line table is a recursive function over
  the bytes; that it exists and lists the line ends in order is shown by induction
  in the form of sets (`SetInduction`, `StartsExist`, `StartsList`, `TableIs`).
  From that, the binary search finds the last line start at or before an offset
  and its number (`LineIs`), and stripping every LF and CR before the next line
  strips just this line's end (`InnerLineIs`: behind the first LF or CR of a line
  there is at most the LF of a CR LF).

It also proves `ImplementsMaximalMunch`: every step of the lexer is a step
of `MaximalMunch` or leaves the finished tokens alone (`MM!Safety`, the safety
part of `IsMaximalMunch`). `MunchInv` says of each loop that what it has read is
the beginning of its lexeme and that nothing it passed over ended it. That a
token cannot be longer is then a matter of its next bytes for lexemes of the
same kind, and of its first bytes for all others (`LexemeOpens`, `KindOpens`):
the first two bytes tell the kinds apart, which is why the lexer may choose a
loop and never look back. For a literal the lexer's `\` steps have to be
matched with `Escaped`, which counts backslashes (`EscapedNext`). TLC checked
`MunchInv` on the 95,805 states of `lex` first.

`MirBuildProofs` proves, for every function of the HIR:

- `TypeCorrect`: blocks, locals and symbols that anything names exist;
- `BodiesAreClosed`: a finished body has all blocks patched, no loop open and no
  operand left over (`EveryBlockClosed`);
- `ClosedBlocksAreKept`, the action property `ClosedBlocksStay`.

None of them is inductive: whether a block will be closed, and whether there is
an operand to take, depends on the tasks that are pending. `Inv` therefore
follows the pending code. A *point* is what is known between two tasks (the kinds
of the values at hand, whether the current block is open, the loops open, the
blocks made and not yet entered), every task has an `Effect` on the point, and
`todo` always `Leads` from the present point to the end. An action replaces a
task by tasks with the same effect (`Continue`); its lemma is the table of
those effects. Sequences of tasks are composed by `RunsConcat`, which is what
replaces an induction over the recursion of the builder. TLC checked `Inv` on
the builder's states of these functions first. `HirAssumption` is what the types of
`rccx_hir` say (which node has how many parts), and that every part of a
function is in `HirExpr` or `HirStmt`; in the runs these sets are computed by
`HirParts`. Calls and commas have at least the callee and one operand, as the
parser makes them.

`SafeCProofs` composes both: `ChecksAreCorrect` says that the body that is handed
over satisfies `IsBody` (successors in range, at most two, locals in range), which
is all that the theorems of `BorrowCheckProofs` assume, and that the checker's
steps keep their invariants. They therefore hold of the MIR of every function,
not only of bodies given as constants. `CheckBody` hands over bodies with at
most `MaxLocal` + 1 locals, for any `MaxLocal`. `BuilderIsUndisturbed` says that the
composition is a `MirBuild` as far as its variables go, which is why the theorems
of `MirBuildProofs` hold of it as well.

`TypeCheckProofs` proves `TypeCorrect` and `EveryItemIsIndependent` for every module
of the AST, whatever is wrong with it. The argument is that of `MirBuildProofs`:
whether a scope that is open will be left, and whether an operand is there to be
taken, depends on the pending calls, so `Inv` says that `todo` `Runs` from the
present point (how many values pending code holds, scopes, loops, whether a
function is being lowered) back to `Rest`, which is where the checker is between
two items. It adds

- what nodes and tasks are (`TaskOK`), so that a node that is made has its operands
  and every id in it is that of a symbol (`MadeIs`, `ConvertedOK`: conversions
  and typing rules only wrap what they are given);
- `FirstPass`: items are declared before any is lowered, and the names in the
  global scope are those of the items declared so far. That is why the `lookup`
  of `lower_fn` and `lower_global` finds something (`ItemTask`): lib.rs:184 and
  235 would give up on an item otherwise.

Errors change nothing of this, because a node in error is a value like any other
and where the tasks depend on a type (the conversions of arguments and of a
returned value, a callee that is no function) all choices have the same effect
(`ArgsJob`, `ReturnJob`, `StepNotAFunction`). TLC checked `Inv` on the 131,562 states of
`type_check` first. `AstAssumption` is what the types of `rccx_ast` say; `Ast` are
the nodes of the modules, which `MCAst` computes for the run. A comma has at
least one operand, as the parser makes it (rccx_parser lib.rs:910).

`DriverProofs` proves all properties of the run `driver`, for every sequence of
arguments, every set of readable files and any number of problems a stage may
find (`ArgumentsAssumption`: arguments are texts, the known options begin
with a dash, and none of `Attached` is another option). `Inv` says what each loop has done so far:

- `parse_args`: no word before `next` ended it, the modes are those of the last
  flag before `next`, the inputs are those among the words before, and `next`
  is not the value of an option. Whether a word is one is a question of parity in a
  run of such options (`SwallowedNext`);
- `load_file`: the loaded files are the readable ones of the inputs so far, and
  for each other one there is a report;
- the stages: a stage before `stage` has run on the files up to and including
  this one, the others on those before; and so for the dumps;
- always: the counters count the diagnostics in the sink, these are what was found
  and in that order, and there is an error among them unless all that was
  found is harmless in this mode (`Told`); after `finish()`, the same of what is
  printed and of `success` (`Printed`).

`Only` and `FlattenSeq` compute over a sequence. What they do to one more element
(`OnlyAppend`, `FlattenAppend`) is proved by induction over sets of numbers
(`SetInduction`, from the well-foundedness of `<` on `Nat`), and that the
recursive functions exist and are unique (`KeptExists`, `KeptAgree`). TLC
checked `Inv` on the states of `driver` first.

`ParserProofs` proves `EveryRoundConsumes`, `TypeOK` and `PanicsOnlyAcrossFiles` for
every set of token lists, from `InOrder /\ Shaped /\ Nested` (`AlwaysInOrder`). That a round of a loop has
consumed a token cannot be said of the loop alone: between two rounds there are
only the tasks of one item or statement. `InOrder` therefore says of all of `todo`:

- `BeginAtTokens`: a task that its caller only starts at a token (an item, a
  statement, a block) has one ahead, or stands behind an `expect`, which either
  consumes a token that is not the last one or gives up;
- `RoundsConsume`: for every loop in `todo`, either a token has been consumed
  since its round began, or the first task is one that cannot be done without
  consuming one (`Consuming`) and there is no handler before the loop;
- `LastCatches`: the last task is the loop over items, so there is always a handler.

`TypeOK` says that every node spans tokens, from its first to its last one. A node
gets its span from those below it or from the token before `pos`, so the nodes have
to be there and a token has to have been consumed. `Shaped` says so of all of `todo`,
at the places where the code has local variables that Rust's types account for:

- `Carries`: what a task holds is what it needs: a span to begin at, a position
  that is a token, and, when it ends at the previous token, that there is one;
- `Supplied`: there is a height for every task such that the task finds enough
  nodes when it is reached (`Enough`) and leaves at least those of the next one
  (`Yields`), and no task before a handler goes below the height that the
  handler goes back to. That holds of fewer nodes than a call makes: one that gives
  up drops the tasks before the handler, and the nodes made for it remain. The
  handler takes them away, so its height has to be kept by each task it may
  stand behind.

`PanicsOnlyAcrossFiles` says that the assertion of `Span::join` fails only between two
neighbouring tokens of one expression. The span that a node begins with was stored
many calls earlier, so what lies between it and `pos` has to be known at each of
them. `Nested` says of every node to come that `Span::join` gives its span (`Joins`):

- `Framed`: from its first token up to `pos` there is no token that ends a statement
  or begins one (`Ends`), and the nodes it will take begin between the two;
- `Within`: before it in `todo` there are only tasks of an expression, whose nodes
  and whose own first tokens are not outside of it;
- a task that takes the node on top of the stack (`Operand`) stands behind one that
  leaves a node there, so that this node too begins between the two (`Topped`).

When two spans that are to be joined are of two files, there are neighbours of two
files between them (`FilesChange`), and `Framed` says what kinds they are not of.
TLC checked `Nested` on the states of `parse` first.

The lemma of an action is about the tasks that replace the first one
(`StepKeeps`, with `FitsOrder`, `Provides` and `Nests`); `FailKeeps` is about a `None`, which
drops the tasks before a handler. Most actions put a few tasks and a few nodes
there: one lemma per list of tasks shows the order, one fact per task (`Job`) what
it needs and leaves, and for an expression one more (`Held`) whose tokens it is about.
The helpers that loop over tokens go on from stop to stop
(`Stops`). That such a loop never goes back, and ends (`StopsAre`), is an induction
over the places behind it. The assumption is that of the model: each token list
is one that the preprocessor ends with `eof`.

Only checked by TLC: liveness (`Drains`, `Terminates`, and that the lexer ends,
which is the rest of `IsMaximalMunch`); everything about `Preprocessor`, of `Parser`
what compares it with the grammar (`AcceptedIsTheSource`, `GrammaticalIsAccepted`, `NothingIsLostSilently`,
`BracesMatch`), and of `TypeCheck`, `MirBuild` and `SafeC` what compares them with their
references (`RefsAreLexical`, `AcceptsExactlyTheTyped`, `HirIsTheSource`,
`RunsLikeTheSource`, `ReportsAreTheMisuses`, `PanicsOnlyWithoutPlace`), since
the references are recursive operators.

## 5. What is not modelled

Formatting: the dumps of tokens, AST, HIR and MIR, and of the renderer all but
where a label stands. Tables: most keywords, the texts of the codes. Values of
literals, wording. Integer widths play no role in the modelled parts: `FileId`,
`BlockId`, `LocalId` and offsets in a file are 32-bit numbers; indices stay
small because memory bounds what they count, and files of 4 GiB are left out.
What `ARCHITECTURE.md` announces without code (see 1) is not modelled either.

## 6. Plan

The modules of the plan are done, and so are the proofs about `BorrowCheck`,
`Lexer`, `Parser`, `TypeCheck`, `MirBuild`, their composition in `SafeC`, and
`Driver`. What is left is to prove more of `Preprocessor`: that the include stack
has no duplicates and never exceeds the limit, and that every loaded file is on the
disk. What compares it with `PpMeaning` stays with TLC.
