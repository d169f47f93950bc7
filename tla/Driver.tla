------------------------------- MODULE Driver -------------------------------
(***************************************************************************)
(* One run of rccx, from its arguments to its exit code: the argument      *)
(* parser and run_with (crates/rccx_cli), compile() (crates/rccx_driver)   *)
(* and the DiagnosticSink (crates/rccx_diagnostics).                       *)
(*                                                                         *)
(* The stages are external here: a stage that works on a file finds any    *)
(* number of problems, up to MaxFound, and the MIR builder may panic       *)
(* (MirBuild has a program that makes it).  An argument is its text.       *)
(***************************************************************************)
EXTENDS Integers, SequencesExt

CONSTANTS
  CommandLines,   \* the sequences of arguments to run with
  Dashed,         \* the arguments that begin with "-"
  Attached,       \* the arguments -I<dir>, -D<define> and -std=<standard>, value included, that parse
  GoodDefines,    \* the arguments parse_define accepts as NAME[=BODY]
  KnownCodes,     \* the arguments that are codes --explain knows
  Readable,       \* the arguments that are paths of readable files
  MaxFound        \* bound: the problems one stage finds in one file

VARIABLES
  args,         \* the command line
  next,         \* where the loop is: over args (i in parse_args), inputs or loaded_ids
  opts,         \* parse_args: opts
  pc,           \* "parse", "load", "stages", "finish", "exit" or "end"
  loaded,       \* compile: loaded_ids, with the inputs of which the files were made
  stage,        \* compile: the stage that runs next, an index of Stages
  sink,         \* the DiagnosticSink
  emit,         \* compile: the files dumped
  success,      \* RunResult.success
  exit,         \* the exit code, NoExit while the process runs
  stdout,       \* what was written to stdout ...
  stderr,       \* ... and to stderr
  ran           \* history: what was done with which file, and how many problems it found

vars == <<args, next, opts, pc, loaded, stage, sink, emit, success, exit, stdout, stderr, ran>>

NoExit == -1
Panicked == 101   \* the exit code of a Rust process that panics

-----------------------------------------------------------------------------
(* The command line (cli/lib.rs). *)

SafeCFlags ==
  [flag \in {"-fsafe-c", "-fsafe-c=warn", "-fno-safe-c"} |->
     CASE flag = "-fsafe-c" -> "error" [] flag = "-fsafe-c=warn" -> "warn" [] OTHER -> "off"]
EmitFlags ==
  [flag \in {"-emit=tokens", "-emit=pp-tokens", "-emit=ast", "-emit=hir", "-emit=mir",
             "-emit=llvm-ir", "-emit=llvm", "-emit=obj", "-emit=asm"} |->
     CASE flag = "-emit=tokens" -> "tokens" [] flag = "-emit=pp-tokens" -> "pp-tokens"
       [] flag = "-emit=ast" -> "ast" [] flag = "-emit=hir" -> "hir" [] flag = "-emit=mir" -> "mir"
       [] flag = "-emit=obj" -> "obj" [] flag = "-emit=asm" -> "asm" [] OTHER -> "llvm-ir"]
HelpFlags == {"-h", "--help", "-V", "--version"}
ValueFlags == {"-o", "-I", "-D"}                 \* the next argument is their value
PlainFlags == {"--json-diagnostics"} \cup Attached  \* no stage run here tells
OtherFlags == DOMAIN SafeCFlags \cup DOMAIN EmitFlags \cup HelpFlags \cup ValueFlags \cup {"--explain"}
Known == PlainFlags \cup OtherFlags

ASSUME ArgumentsAssumption ==
  /\ CommandLines \subseteq Seq(STRING)
  /\ Known \subseteq Dashed
  /\ Attached \cap OtherFlags = {}
  /\ MaxFound \in Nat

Arg == args[next]
Parsing(flags) == pc = "parse" /\ next <= Len(args) /\ Arg \in flags

Quit(code, out, err) ==
  /\ exit' = code /\ stdout' = out /\ stderr' = err
  /\ pc' = "end"
  /\ UNCHANGED <<args, next, opts, loaded, stage, sink, emit, success, ran>>

\* No arguments at all are a call for help.
Help ==
  /\ Parsing(HelpFlags) \/ (pc = "parse" /\ args = <<>>)
  /\ Quit(0, <<"help">>, <<>>)

Problem(what, file, severity) == [what |-> what, file |-> file, severity |-> severity]

Usage(what) == Quit(2, <<>>, <<Problem(what, "", "error")>>)

Explain ==
  /\ Parsing({"--explain"}) /\ next < Len(args)
  /\ IF args[next + 1] \in KnownCodes THEN Quit(0, <<"explanation">>, <<>>)
                                      ELSE Quit(1, <<>>, <<Problem("unknown code", "", "error")>>)

MissingValue == Parsing(ValueFlags \cup {"--explain"}) /\ next = Len(args) /\ Usage("no value")
BadDefine ==
  /\ Parsing({"-D"}) /\ next < Len(args) /\ args[next + 1] \notin GoodDefines
  /\ Usage("bad define")
BadOption == Parsing(Dashed \ Known) /\ Usage("bad option")

ParseOn(o, n) ==
  /\ opts' = o
  /\ next' = next + n
  /\ UNCHANGED <<args, pc, loaded, stage, sink, emit, success, exit, stdout, stderr, ran>>

SetSafeC == Parsing(DOMAIN SafeCFlags) /\ ParseOn([opts EXCEPT !.safe_c = SafeCFlags[Arg]], 1)
SetEmit == Parsing(DOMAIN EmitFlags) /\ ParseOn([opts EXCEPT !.emit = EmitFlags[Arg]], 1)
SkipFlag == Parsing(PlainFlags) /\ ParseOn(opts, 1)
AddInput ==
  /\ pc = "parse" /\ next <= Len(args) /\ Arg \notin Dashed
  /\ ParseOn([opts EXCEPT !.inputs = Append(@, Arg)], 1)

HasValue == next < Len(args) /\ (Arg = "-D" => args[next + 1] \in GoodDefines)
TakeValue_OneWord == Parsing(ValueFlags) /\ HasValue /\ ParseOn(opts, 1)
TakeValue == Parsing(ValueFlags) /\ HasValue /\ ParseOn(opts, 2)

-----------------------------------------------------------------------------
(* The sink (diagnostics/sink.rs). *)

EmptySink == [diagnostics |-> <<>>, error_count |-> 0, warning_count |-> 0]
Errors(ds) == {i \in DOMAIN ds : ds[i].severity = "error"}

EmitAll_CountAll(s, ds) ==
  [diagnostics |-> s.diagnostics \o ds, error_count |-> s.error_count + Len(ds),
   warning_count |-> s.warning_count]
EmitAll(s, ds) ==
  [diagnostics |-> s.diagnostics \o ds,
   error_count |-> s.error_count + Cardinality(Errors(ds)),
   warning_count |-> s.warning_count + (Len(ds) - Cardinality(Errors(ds)))]

-----------------------------------------------------------------------------
(* compile() (driver/lib.rs). *)

\* The stages of each way to compile, in the order of the calls.
Stages ==
  CASE opts.emit = "tokens" -> <<"lex">>
    [] opts.emit = "pp-tokens" -> <<"preprocess">>
    [] opts.emit = "ast" -> <<"preprocess", "parse">>
    [] opts.emit = "hir" -> <<"preprocess", "parse", "typeck">>
    [] opts.emit = "mir" -> <<"preprocess", "parse", "typeck", "mir">>
    [] OTHER -> IF opts.safe_c = "off" THEN <<>>
                ELSE <<"preprocess", "parse", "typeck", "mir", "borrowck">>
Dumps == opts.emit \in {"tokens", "pp-tokens", "ast", "hir", "mir"}

Init ==
  /\ args \in CommandLines
  /\ next = 1
  /\ opts = [inputs |-> <<>>, safe_c |-> "off", emit |-> "none"]
  /\ pc = "parse"
  /\ loaded = <<>> /\ stage = 1
  /\ sink = EmptySink
  /\ emit = <<>>
  /\ success = FALSE
  /\ exit = NoExit /\ stdout = <<>> /\ stderr = <<>>
  /\ ran = <<>>

StartCompile ==
  /\ pc = "parse" /\ args # <<>> /\ next > Len(args)
  /\ pc' = "load"
  /\ next' = 1
  /\ UNCHANGED <<args, opts, loaded, stage, sink, emit, success, exit, stdout, stderr, ran>>

Job(what, file, n) == [what |-> what, file |-> file, found |-> n]
Emit(ds) == sink' = EmitAll(sink, ds)
Record(job) == ran' = Append(ran, job)

\* finish(): success is decided before the sink is drained.
Finish_DrainFirst ==
  /\ success' = TRUE
  /\ stderr' = sink.diagnostics
  /\ sink' = EmptySink
Finish ==
  /\ success' = (sink.error_count = 0)
  /\ stderr' = sink.diagnostics
  /\ sink' = EmptySink

NoInputFiles ==
  /\ pc = "load" /\ opts.inputs = <<>>
  /\ Emit(<<Problem("no input", "", "error")>>)
  /\ Record(Job("no input", "", 1))
  /\ pc' = "finish"
  /\ UNCHANGED <<args, next, opts, loaded, stage, emit, success, exit, stdout, stderr>>

Input == opts.inputs[next]
Loading == pc = "load" /\ next <= Len(opts.inputs)

LoadFile ==
  /\ Loading /\ Input \in Readable
  /\ loaded' = Append(loaded, Input)
  /\ next' = next + 1
  /\ UNCHANGED <<args, opts, pc, stage, sink, emit, success, exit, stdout, stderr, ran>>

LoadFails_Silent ==
  /\ Loading /\ Input \notin Readable
  /\ next' = next + 1
  /\ UNCHANGED <<args, opts, pc, loaded, stage, sink, emit, success, exit, stdout, stderr, ran>>
LoadFails ==
  /\ Loading /\ Input \notin Readable
  /\ Emit(<<Problem("unreadable", Input, "error")>>)
  /\ Record(Job("unreadable", Input, 1))
  /\ next' = next + 1
  /\ UNCHANGED <<args, opts, pc, loaded, stage, emit, success, exit, stdout, stderr>>

AllLoaded == pc = "load" /\ opts.inputs # <<>> /\ next > Len(opts.inputs)

StartStages ==
  /\ AllLoaded /\ (Stages # <<>> \/ loaded = <<>>)
  /\ pc' = "stages"
  /\ next' = 1
  /\ UNCHANGED <<args, opts, loaded, stage, sink, emit, success, exit, stdout, stderr, ran>>

NotImplemented ==
  /\ AllLoaded /\ Stages = <<>> /\ loaded # <<>>
  /\ Emit(<<Problem("not implemented", "", "error")>>)
  /\ Record(Job("not implemented", "", 1))
  /\ pc' = "finish"
  /\ UNCHANGED <<args, next, opts, loaded, stage, emit, success, exit, stdout, stderr>>

\* For each loaded file, one stage after the other.
Running == pc = "stages" /\ next <= Len(loaded)
Stage == Stages[stage]
File == loaded[next]
LastOfFile == stage = Len(Stages)

\* What a stage reports on a file; the borrow checker at the level asked for.
Severity == IF Stage = "borrowck" /\ opts.safe_c = "warn" THEN "warning" ELSE "error"
Reported_NotTypeck(n) ==
  [i \in 1 .. IF Stage = "typeck" THEN 0 ELSE n |-> Problem(Stage, File, Severity)]
Reported(n) == [i \in 1 .. n |-> Problem(Stage, File, Severity)]

\* It finds n problems, and nothing it reports stops what comes after.
\* The MIR builder has no diagnostics.
RunOn(n) ==
  /\ Stage = "mir" => n = 0
  /\ Emit(Reported(n))
  /\ Record(Job(Stage, File, n))
  /\ emit' = IF Dumps /\ LastOfFile THEN Append(emit, File) ELSE emit
  /\ UNCHANGED <<args, opts, pc, loaded, success, exit, stdout, stderr>>
RunStage_StopAtError ==
  Running /\ \E n \in 0 .. MaxFound :
    /\ RunOn(n)
    /\ stage' = IF LastOfFile \/ n > 0 THEN 1 ELSE stage + 1
    /\ next' = IF LastOfFile \/ n > 0 THEN next + 1 ELSE next
RunStage ==
  Running /\ \E n \in 0 .. MaxFound :
    /\ RunOn(n)
    /\ stage' = IF LastOfFile THEN 1 ELSE stage + 1
    /\ next' = IF LastOfFile THEN next + 1 ELSE next

MirPanics == Running /\ Stage = "mir" /\ Quit(Panicked, <<>>, <<>>)

StagesDone ==
  /\ pc = "stages" /\ next > Len(loaded)
  /\ pc' = "finish"
  /\ UNCHANGED <<args, next, opts, loaded, stage, sink, emit, success, exit, stdout, stderr, ran>>

FinishCompile ==
  /\ pc = "finish"
  /\ Finish
  /\ stdout' = emit
  /\ pc' = "exit"
  /\ UNCHANGED <<args, next, opts, loaded, stage, emit, exit, ran>>

\* run_with: the exit code of a compilation that has been written out.
Exit ==
  /\ pc = "exit"
  /\ exit' = IF success THEN 0 ELSE 1
  /\ pc' = "end"
  /\ UNCHANGED <<args, next, opts, loaded, stage, sink, emit, success, stdout, stderr, ran>>

Ended == pc = "end" /\ UNCHANGED vars

Next ==
  \/ Help \/ Explain \/ MissingValue \/ BadDefine \/ BadOption
  \/ SetSafeC \/ SetEmit \/ SkipFlag \/ TakeValue \/ AddInput \/ StartCompile
  \/ NoInputFiles \/ LoadFile \/ LoadFails \/ StartStages \/ NotImplemented
  \/ RunStage \/ MirPanics \/ StagesDone \/ FinishCompile \/ Exit \/ Ended

Spec == Init /\ [][Next]_vars

-----------------------------------------------------------------------------
(* Properties. *)

\* The states are records of the right shape; the counters of the sink are the
\* numbers of the errors and warnings in it.
TypeOK ==
  /\ pc \in {"parse", "load", "stages", "finish", "exit", "end"}
  /\ exit \in {NoExit, 0, 1, 2, Panicked} /\ (exit = NoExit <=> pc # "end")
  /\ sink.error_count = Cardinality(Errors(sink.diagnostics))
  /\ sink.warning_count = Len(sink.diagnostics) - sink.error_count
  /\ Running => stage \in DOMAIN Stages

\* The elements of s at the places in at.
Only(s, at) ==
  LET kept[n \in 0 .. Len(s)] ==
        IF n = 0 THEN <<>>
        ELSE IF n \in at THEN Append(kept[n - 1], s[n]) ELSE kept[n - 1]
  IN kept[Len(s)]

\* The words that are options or inputs, not the value of the option before.
Swallowed(i) ==
  \E j \in 1 .. i - 1 :
    /\ (i - j) % 2 = 1
    /\ \A k \in j .. i - 1 : args[k] \in ValueFlags
    /\ j > 1 => args[j - 1] \notin ValueFlags
Words == {i \in DOMAIN args : ~Swallowed(i)}
LastOf(flags, default) ==
  LET chosen == {i \in Words : args[i] \in DOMAIN flags}
  IN IF chosen = {} THEN default ELSE flags[args[Max(chosen)]]
EndsParsing(i) ==
  \/ args[i] \in HelpFlags \cup {"--explain"} \cup (Dashed \ Known)
  \/ args[i] \in ValueFlags /\ i = Len(args)
  \/ args[i] = "-D" /\ args[i + 1] \notin GoodDefines

\* parse_args takes every word for what it is: nothing is compiled unless all
\* words are fine, the last of several flags counts, the value of an option is
\* never taken for an option or an input, and no input is lost.
CommandLineIsRead ==
  pc \in {"load", "stages", "finish", "exit"} =>
    /\ args # <<>> /\ \A i \in Words : ~EndsParsing(i)
    /\ opts.safe_c = LastOf(SafeCFlags, "off")
    /\ opts.emit = LastOf(EmitFlags, "none")
    /\ opts.inputs = Only(args, {i \in Words : args[i] \notin Dashed})

Compiled == pc \in {"exit", "end"} /\ ran # <<>> /\ exit # Panicked
FilesOf(what) == Only([k \in DOMAIN ran |-> ran[k].file], {k \in DOMAIN ran : ran[k].what = what})

\* Whatever is wrong with one input, or what a stage finds in it, every other
\* readable input goes through all the stages, and is dumped.
FailuresStayLocal ==
  Compiled =>
    LET good == Only(opts.inputs, {i \in DOMAIN opts.inputs : opts.inputs[i] \in Readable}) IN
    /\ \A s \in DOMAIN Stages : FilesOf(Stages[s]) = good
    /\ emit = IF Dumps THEN good ELSE <<>>

\* What the stages found is printed, all of it, once, and in that order; and the
\* exit code, decided before the sink is drained, says whether an error was in it.
NothingIsLost ==
  /\ Compiled =>
       [i \in DOMAIN stderr |-> <<stderr[i].what, stderr[i].file>>]
       = FlattenSeq([k \in DOMAIN ran |->
                       [i \in 1 .. ran[k].found |-> <<ran[k].what, ran[k].file>>]])
  /\ pc = "end" /\ exit # Panicked => (exit = 0 <=> Errors(stderr) = {})

\* What -fsafe-c promises: a compilation that succeeds has borrow-checked every
\* input and found nothing, unless an intermediate form was asked for, where the
\* pipeline ends before the borrow checker.  In migration mode (options.rs:51:
\* "Safe C violations are warnings") reports of the borrow checker alone never
\* fail a build.
SafeCModesDecide ==
  Compiled =>
    /\ success /\ opts.safe_c = "error" /\ ~Dumps =>
         FilesOf("borrowck") = opts.inputs /\ \A k \in DOMAIN ran : ran[k].found = 0
    /\ ~success /\ opts.safe_c = "warn" =>
         \E k \in DOMAIN ran : ran[k].found > 0 /\ ran[k].what # "borrowck"

=============================================================================
