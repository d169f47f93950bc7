----------------------------- MODULE SourceFile -----------------------------
(***************************************************************************)
(* One source file (crates/rccx_source: SourceFile) and what a diagnostic  *)
(* shows of it: the line and column of an offset, the text of a line, and  *)
(* the caret under a label (crates/rccx_diagnostics: render).              *)
(*                                                                         *)
(* A byte is the ASCII character it stands for, CR and LF by those names;  *)
(* the bytes of two characters outside ASCII are named by their hex value. *)
(* Offsets count bytes from 0, as in the code.  An offset fits 32 bits: a  *)
(* file of 4 GiB or more is outside the model.                             *)
(***************************************************************************)
EXTENDS Integers, SequencesExt, FiniteSetsExt

VARIABLE
  text  \* SourceFile::text

Size == Len(text)
Byte(p) == IF p < Size THEN text[p + 1] ELSE "none"

\* The bytes of UTF-8 that do not begin a character.
Continuation == {"82", "A9", "AC"}

IsBoundary(p) == Byte(p) \notin Continuation

\* A file is read as UTF-8: a continuation byte never comes first, nor after ASCII.
IsUtf8(t) ==
  /\ t \in Seq(STRING)
  /\ \A i \in DOMAIN t :
       /\ t[i] # "none"
       /\ t[i] \in Continuation => i > 1 /\ t[i - 1] \in Continuation \cup {"C3", "E2"}

\* Where the character after the one at p begins.
NextChar(p) == Min({q \in p + 1 .. Size : IsBoundary(q)})

CharsIn(lo, hi) == Cardinality({q \in lo .. hi - 1 : IsBoundary(q)})

-----------------------------------------------------------------------------
(* Lines.                                                                     *)

ComputeLineStarts ==
  LET from[i \in 0 .. Size] ==
        CASE i = Size -> <<>>
          [] Byte(i) = "LF" -> <<i + 1>> \o from[i + 1]
          [] Byte(i) = "CR" /\ Byte(i + 1) = "LF" -> <<i + 2>> \o from[i + 2]
          [] Byte(i) = "CR" /\ Byte(i + 1) # "LF" -> <<i + 1>> \o from[i + 1]
          [] OTHER -> from[i + 1]
  IN <<0>> \o from[0]

\* The binary search finds the last line that starts at or before the offset.
LineIndex(starts, off) == Max({i \in DOMAIN starts : starts[i] <= off})

LineCol(starts, offset) ==
  LET off == Min({offset, Size})
      line == LineIndex(starts, off)
  IN [line |-> line, column |-> CharsIn(starts[line], off) + 1]

\* A line is stripped of every LF and CR at its end.
LineRange(starts, line) ==
  LET start == starts[line]
      next == starts[line + 1]
      end == IF line = Len(starts) THEN Size
             ELSE Min({e \in start .. next : \A q \in e .. next - 1 : Byte(q) \in {"LF", "CR"}})
  IN [lo |-> start, hi |-> end]

-----------------------------------------------------------------------------
(* The caret line of a label: how far it is indented, and how many marks.     *)

\* Mutant: the label's end is not held back to the line it begins on.
CaretFor_Unclipped(starts, span, line) ==
  LET range == LineRange(starts, line)
      lo == Max({span.lo, range.lo})
  IN [lead |-> CharsIn(range.lo, lo), width |-> Max({CharsIn(lo, span.hi), 1})]

CaretFor(starts, span, line) ==
  LET range == LineRange(starts, line)
      lo == Max({span.lo, range.lo})
      hi == Min({span.hi, range.hi})
  IN [lead |-> CharsIn(range.lo, lo), width |-> Max({CharsIn(lo, hi), 1})]
=============================================================================
