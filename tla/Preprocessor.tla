---------------------------- MODULE Preprocessor ----------------------------
(***************************************************************************)
(* The preprocessor (crates/rccx_pp): one call of preprocess() on one root *)
(* file.  A step handles one line of the file on top of the include stack  *)
(* (emit_line or one directive), or leaves a file that has ended.          *)
(*                                                                         *)
(* A file is the sequence of its lines and the number of lexer errors in   *)
(* it.  A line is [k |-> kind, ...]:                                       *)
(*   text (toks)               no directive                                *)
(*   include (header, system)  #include "header" or <header>               *)
(*   define (name, body)       #define name body                           *)
(*   undef (name)                                                          *)
(*   null                      # alone                                     *)
(*   bad (code)                a directive that is rejected with that code *)
(* A token is its text; a path or header is the sequence of its            *)
(* components.                                                             *)
(***************************************************************************)
EXTENDS Integers, SequencesExt

CONSTANTS
  Disks,              \* what may be on the disk: maps from real paths to files
  Unreadable,         \* instead of a file: reading it fails, not with NotFound
  Roots,              \* the paths of the root files Init may pick
  IncludePaths,       \* -I, in priority order
  UserDefines,        \* -D: a sequence of [name, body, lex_errors]
  Token,              \* the tokens in play
  Ident,              \* those that are identifiers
  MaxIncludeDepth,    \* MAX_INCLUDE_DEPTH
  MaxExpansionDepth   \* MAX_EXPANSION_DEPTH

ASSUME IdentAssumption == Ident \subseteq Token
ASSUME DepthAssumption == MaxIncludeDepth \in Nat \ {0} /\ MaxExpansionDepth \in Nat

VARIABLES
  disk,     \* what is on the disk
  sources,  \* the SourceMap: the path of every loaded file, FileId i at i
  macros,   \* the macros defined, and their replacements
  diags,    \* the codes of the diagnostics pushed
  stack,    \* include_stack, with the next line of each file
  out       \* the output tokens

vars == <<disk, sources, macros, diags, stack, out>>

-----------------------------------------------------------------------------
(* Files. *)

\* What the file system makes of a path.
Real(path) ==
  FoldLeft(LAMBDA p, c : IF c = ".." THEN Front(p) ELSE Append(p, c), <<>>, path)

Loaded(path) == \E id \in DOMAIN sources : sources[id] = path
FileIdOf(path) == CHOOSE id \in DOMAIN sources :
                    /\ sources[id] = path
                    /\ \A j \in 1 .. id - 1 : sources[j] # path
Missing(path) == ~Loaded(path) /\ Real(path) \notin DOMAIN disk

Lex(path) == disk[Real(path)]
LexErrors(file) == [i \in 1 .. file.lex_errors |-> "E01"]

\* The files a header may name: next to the including file, unless it is
\* written in <>, then in the -I directories.
Candidates(line, path) ==
  (IF line.system THEN <<>> ELSE <<Front(path) \o line.header>>)
  \o [i \in DOMAIN IncludePaths |-> IncludePaths[i] \o line.header]

\* E0206 has two messages.
IncludeTooDeep == "E0206 include"
MacroTooDeep == "E0206 macro"

-----------------------------------------------------------------------------
(* Macro expansion. *)

Both(a, b) == [toks |-> a.toks \o b.toks, diags |-> a.diags \o b.diags]
Nothing == [toks |-> <<>>, diags |-> <<>>]
Just(t) == [toks |-> <<t>>, diags |-> <<>>]

\* expand_ident at some depth, within the expansions of the macros `active`.
\* What is not an identifier is copied, at any depth.
ExpandIdent_SilentCut ==
  LET expand[d \in Nat, t \in Token, active \in SUBSET Ident] ==
        IF t \notin Ident \/ d > MaxExpansionDepth \/ t \in active \/ t \notin DOMAIN macros
        THEN Just(t)
        ELSE FoldLeft(LAMBDA r, u : Both(r, expand[d + 1, u, active \cup {t}]),
                      Nothing, macros[t])
  IN expand
ExpandIdent ==
  LET expand[d \in Nat, t \in Token, active \in SUBSET Ident] ==
        IF t \notin Ident THEN Just(t)
        ELSE IF d > MaxExpansionDepth THEN [Just(t) EXCEPT !.diags = <<MacroTooDeep>>]
        ELSE IF t \in active \/ t \notin DOMAIN macros THEN Just(t)
        ELSE FoldLeft(LAMBDA r, u : Both(r, expand[d + 1, u, active \cup {t}]),
                      Nothing, macros[t])
  IN expand

ExpandLine(toks) == FoldLeft(LAMBDA r, t : Both(r, ExpandIdent[0, t, {}]), Nothing, toks)

-----------------------------------------------------------------------------
(* The include stack. *)

Top == Last(stack)
TopPath == sources[Top.file]
Line == Lex(TopPath).lines[Top.line]
OnLine(kind) == stack # <<>> /\ Top.line <= Len(Lex(TopPath).lines) /\ Line.k = kind
NextLine == [stack EXCEPT ![Len(stack)].line = @ + 1]

\* Why process_file turns a file away.
Refusal_NoCycleCheck(id) == IF Len(stack) >= MaxIncludeDepth THEN <<IncludeTooDeep>> ELSE <<>>
Refusal_OneMore(id) ==
  IF \E i \in DOMAIN stack : stack[i].file = id THEN <<"E0204">>
  ELSE IF Len(stack) > MaxIncludeDepth THEN <<IncludeTooDeep>>
  ELSE <<>>
Refusal(id) ==
  IF \E i \in DOMAIN stack : stack[i].file = id THEN <<"E0204">>
  ELSE IF Len(stack) >= MaxIncludeDepth THEN <<IncludeTooDeep>>
  ELSE <<>>

Enter(id) == [file |-> id, line |-> 1]

\* preprocess(): the macros of -D (each in a virtual file of its own), then the
\* root file, which the driver has loaded.
Init ==
  /\ disk \in Disks
  /\ \E root \in Roots :
       /\ sources = <<root>> \o [i \in DOMAIN UserDefines |-> <<"-D", UserDefines[i].name>>]
       /\ diags = FlattenSeq([i \in DOMAIN UserDefines |-> LexErrors(UserDefines[i])])
                  \o LexErrors(Lex(root))
  /\ macros = FoldLeft(LAMBDA ms, d : (d.name :> d.body) @@ ms, <<>>, UserDefines)
  /\ stack = <<Enter(1)>>
  /\ out = <<>>

EmitLine ==
  /\ OnLine("text")
  /\ LET r == ExpandLine(Line.toks) IN
       /\ out' = out \o r.toks
       /\ diags' = diags \o r.diags
  /\ stack' = NextLine
  /\ UNCHANGED <<disk, sources, macros>>

\* The last definition of a name counts.
HandleDefine ==
  /\ OnLine("define")
  /\ macros' = (Line.name :> Line.body) @@ macros
  /\ stack' = NextLine
  /\ UNCHANGED <<disk, sources, diags, out>>

HandleUndef ==
  /\ OnLine("undef")
  /\ macros' = [n \in DOMAIN macros \ {Line.name} |-> macros[n]]
  /\ stack' = NextLine
  /\ UNCHANGED <<disk, sources, diags, out>>

NullDirective_Stays ==
  /\ OnLine("null")
  /\ stack' = stack
  /\ UNCHANGED <<disk, sources, macros, diags, out>>
NullDirective ==
  /\ OnLine("null")
  /\ stack' = NextLine
  /\ UNCHANGED <<disk, sources, macros, diags, out>>

\* An unknown directive, or an #include, #define or #undef that says nothing.
BadDirective ==
  /\ OnLine("bad")
  /\ diags' = Append(diags, Line.code)
  /\ stack' = NextLine
  /\ UNCHANGED <<disk, sources, macros, out>>

\* resolve_include: the first candidate that is loaded or on the disk.
Resolved(paths) ==
  CHOOSE i \in DOMAIN paths : ~Missing(paths[i]) /\ \A j \in 1 .. i - 1 : Missing(paths[j])

IncludeNotFound ==
  /\ OnLine("include")
  /\ LET paths == Candidates(Line, TopPath) IN
       /\ \A i \in DOMAIN paths : Missing(paths[i])
       /\ diags' = Append(diags, "E0203")
  /\ stack' = NextLine
  /\ UNCHANGED <<disk, sources, macros, out>>

\* A candidate that cannot be read ends the search.
IncludeUnreadable ==
  /\ OnLine("include")
  /\ LET paths == Candidates(Line, TopPath) IN
       /\ \E i \in DOMAIN paths : ~Missing(paths[i])
       /\ LET path == paths[Resolved(paths)] IN ~Loaded(path) /\ Lex(path) = Unreadable
       /\ diags' = diags \o <<"E9001", "E0203">>
  /\ stack' = NextLine
  /\ UNCHANGED <<disk, sources, macros, out>>

\* process_file: the file is entered, or refused.
IncludeFile ==
  /\ OnLine("include")
  /\ LET paths == Candidates(Line, TopPath) IN
       /\ \E i \in DOMAIN paths : ~Missing(paths[i])
       /\ LET path == paths[Resolved(paths)]
              id == IF Loaded(path) THEN FileIdOf(path) ELSE Len(sources) + 1
          IN /\ Loaded(path) \/ Lex(path) # Unreadable
             /\ sources' = IF Loaded(path) THEN sources ELSE Append(sources, path)
             /\ diags' = diags \o Refusal(id) \o (IF Refusal(id) = <<>> THEN LexErrors(Lex(path))
                                                                 ELSE <<>>)
             /\ stack' = NextLine \o (IF Refusal(id) = <<>> THEN <<Enter(id)>> ELSE <<>>)
  /\ UNCHANGED <<disk, macros, out>>

LeaveFile ==
  /\ stack # <<>> /\ Top.line > Len(Lex(TopPath).lines)
  /\ stack' = Front(stack)
  /\ UNCHANGED <<disk, sources, macros, diags, out>>

Done == stack = <<>>

Finished ==
  /\ Done
  /\ UNCHANGED vars

Next ==
  \/ EmitLine \/ HandleDefine \/ HandleUndef \/ NullDirective \/ BadDirective
  \/ IncludeNotFound \/ IncludeUnreadable \/ IncludeFile \/ LeaveFile \/ Finished

Spec == Init /\ [][Next]_vars

\* preprocess() is sequential code that waits for nobody.
FairSpec == Spec /\ WF_vars(Next)

-----------------------------------------------------------------------------
(* Properties. *)

TypeOK ==
  /\ \A n \in DOMAIN macros : Range(macros[n]) \subseteq Token
  /\ Range(out) \subseteq Token
  /\ Len(stack) <= MaxIncludeDepth
  /\ \A i \in DOMAIN stack : stack[i].file \in DOMAIN sources /\ stack[i].line \in Nat \ {0}
  /\ \A i, j \in DOMAIN stack : stack[i].file = stack[j].file => i = j

\* Whatever includes what, preprocessing ends.
Terminates == <>Done

=============================================================================
