----------------------------- MODULE PpMeaning -----------------------------
(***************************************************************************)
(* What C says preprocessing a file gives, in two passes that know nothing *)
(* of FileIds and of the recursion of the code: the lines with every       *)
(* #include replaced by the text of the file, then the macros, line by     *)
(* line, with Prosser's hide sets.  An #include that fails, as the code's  *)
(* messages put it, contributes nothing.                                   *)
(* The operators are recursive: only TLC uses this module.                 *)
(***************************************************************************)
EXTENDS Preprocessor

\* The file a header names when nothing has been loaded yet: <<>> or its path.
Find(line, path) ==
  SelectSeq([i \in DOMAIN Candidates(line, path) |-> Real(Candidates(line, path)[i])],
            LAMBDA p : p \in DOMAIN disk)

IncludeError(line, path, above) ==
  LET found == Find(line, path) IN
  IF found = <<>> THEN <<"E0203">>
  ELSE IF disk[found[1]] = Unreadable THEN <<"E9001", "E0203">>
  ELSE IF found[1] \in Range(above) THEN <<"E0204">>
  ELSE IF Len(above) >= MaxIncludeDepth THEN <<IncludeTooDeep>>
  ELSE <<>>

\* The lines of a file, and of the files it includes, without the #includes; the
\* errors of the #includes.  `above`: the files that are open, outermost first.
RECURSIVE TextOf(_, _), LinesOf(_, _, _)
TextOf(path, above) == LinesOf(disk[path].lines, path, Append(above, path))

LinesOf(lines, path, above) ==
  IF lines = <<>> THEN [lines |-> <<>>, errors |-> <<>>]
  ELSE LET line == Head(lines)
           errors == IncludeError(line, path, above)
           here == IF line.k # "include" THEN [lines |-> <<line>>, errors |-> <<>>]
                   ELSE IF errors # <<>> THEN [lines |-> <<>>, errors |-> errors]
                   ELSE TextOf(Find(line, path)[1], above)
           rest == LinesOf(Tail(lines), path, above)
       IN [lines |-> here.lines \o rest.lines, errors |-> here.errors \o rest.errors]

\* Tokens with their hide sets, expanded with the macros ms; and how many of the
\* identifiers met stand one macro deeper than is allowed.
RECURSIVE Prosser(_, _)
Prosser(ts, ms) ==
  IF ts = <<>> THEN [out |-> <<>>, deep |-> 0]
  ELSE LET h == Head(ts)
           expands == h.t \notin h.hide /\ h.t \in DOMAIN ms
           body == [i \in DOMAIN ms[h.t] |-> [t |-> ms[h.t][i], hide |-> h.hide \cup {h.t}]]
           rest == Prosser((IF expands THEN body ELSE <<>>) \o Tail(ts), ms)
           isDeep == h.t \in Ident /\ Cardinality(h.hide) = MaxExpansionDepth + 1
       IN [out |-> (IF expands THEN <<>> ELSE <<h.t>>) \o rest.out,
           deep |-> rest.deep + (IF isDeep THEN 1 ELSE 0)]

DoLine(s, line) ==
  CASE line.k = "define" -> [s EXCEPT !.macros = (line.name :> line.body) @@ @]
    [] line.k = "undef" -> [s EXCEPT !.macros = [n \in DOMAIN @ \ {line.name} |-> @[n]]]
    [] line.k = "text" ->
         LET r == Prosser([i \in DOMAIN line.toks |-> [t |-> line.toks[i], hide |-> {}]], s.macros)
         IN [s EXCEPT !.out = @ \o r.out, !.deep = @ + r.deep]
    [] OTHER -> s

Root == Real(sources[1])

Meaning ==
  FoldLeft(DoLine, [macros |-> FoldLeft(LAMBDA ms, d : (d.name :> d.body) @@ ms,
                                        <<>>, UserDefines),
                    out |-> <<>>, deep |-> 0],
           TextOf(Root, <<>>).lines)

-----------------------------------------------------------------------------
(* Properties. *)

\* Macros that nest too deep are reported where C would go on expanding: once
\* for every identifier that stands inside one macro more than is allowed, and
\* for nothing else, so that a replacement of literals may stand at the last
\* depth.  Without such a report the output is what C says: through nested and
\* repeated includes, macros defined and undefined in other files, self- and
\* mutually recursive macros, and after any number of errors.
OutputIsCs ==
  Done => LET C == Meaning IN
          /\ Len(SelectSeq(diags, LAMBDA c : c = MacroTooDeep)) = C.deep
          /\ C.deep = 0 => out = C.out

\* Exactly the #includes that cannot be followed are reported, with the right
\* code and in the order they are met; a file that was included before and is
\* closed again is no cycle.
IncludeErrorsAreReal ==
  Done => SelectSeq(diags, LAMBDA c : c \in {"E9001", "E0203", "E0204", IncludeTooDeep})
          = TextOf(Root, <<>>).errors

=============================================================================
