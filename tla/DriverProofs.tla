---------------------------- MODULE DriverProofs ----------------------------
(***************************************************************************)
(* What rccx promises about its command line, its exit code and the files  *)
(* it compiles, for every command line and whatever the stages find.       *)
(***************************************************************************)
EXTENDS Driver, SequenceFacts, FiniteSetTheorems

-----------------------------------------------------------------------------
(* The inductive invariant: what each loop has done so far.                   *)

Prefix(s, n) == SubSeq(s, 1, n)

Modes == {"off", "warn", "error"}
Emits == {"none", "tokens", "pp-tokens", "ast", "hir", "mir", "llvm-ir", "obj", "asm"}

ShapeOf(s, jobs) ==
  /\ s = [diagnostics |-> s.diagnostics, error_count |-> s.error_count,
          warning_count |-> s.warning_count]
  /\ IsSequence(s.diagnostics)
  /\ IsSequence(jobs) /\ \A k \in 1 .. Len(jobs) : jobs[k].found \in Nat

Shape ==
  /\ args \in Seq(STRING)
  /\ next \in Nat \ {0} /\ stage \in Nat \ {0}
  /\ opts = [inputs |-> opts.inputs, safe_c |-> opts.safe_c, emit |-> opts.emit]
  /\ IsSequence(opts.inputs) /\ opts.safe_c \in Modes /\ opts.emit \in Emits
  /\ IsSequence(loaded) /\ IsSequence(emit)
  /\ ShapeOf(sink, ran)
  /\ success \in BOOLEAN

\* parse_args: what the words before place n have set.
LastBefore(n, flags, default) ==
  LET chosen == {i \in Words : i < n /\ args[i] \in DOMAIN flags}
  IN IF chosen = {} THEN default ELSE flags[args[Max(chosen)]]

InputWords == {i \in Words : args[i] \notin Dashed}

SetBy(n, o) ==
  /\ \A i \in Words : i < n => ~EndsParsing(i)
  /\ o.safe_c = LastBefore(n, SafeCFlags, "off")
  /\ o.emit = LastBefore(n, EmitFlags, "none")
  /\ o.inputs = Only(Prefix(args, n - 1), InputWords)

Parsed ==
  /\ next <= Len(args) + 1
  /\ ~Swallowed(next)
  /\ SetBy(next, opts)

ReadAll ==
  /\ args # <<>> /\ \A i \in Words : ~EndsParsing(i)
  /\ opts.safe_c = LastOf(SafeCFlags, "off")
  /\ opts.emit = LastOf(EmitFlags, "none")
  /\ opts.inputs = Only(args, InputWords)

\* load_file: what the inputs before place n have become.
GoodInputs == {i \in DOMAIN opts.inputs : opts.inputs[i] \in Readable}
MissedBefore(n) ==
  \A i \in DOMAIN opts.inputs \ GoodInputs :
    i < n => \E k \in DOMAIN ran : ran[k].what = "unreadable" /\ ran[k].found = 1

NothingRan == \A s \in DOMAIN Stages : FilesOf(Stages[s]) = <<>>

Loaded ==
  /\ next <= Len(opts.inputs) + 1
  /\ loaded = Only(Prefix(opts.inputs, next - 1), GoodInputs)
  /\ MissedBefore(next)
  /\ NothingRan

AllIn ==
  /\ loaded = Only(opts.inputs, GoodInputs)
  /\ MissedBefore(Len(opts.inputs) + 1)

RanSoFar ==
  /\ next <= Len(loaded) + 1
  /\ Running => stage \in DOMAIN Stages
  /\ next = Len(loaded) + 1 => stage = 1
  /\ \A s \in DOMAIN Stages :
       FilesOf(Stages[s]) = Prefix(loaded, IF s < stage THEN next ELSE next - 1)
  /\ emit = IF Dumps THEN Prefix(loaded, next - 1) ELSE <<>>

RanAll ==
  /\ \A s \in DOMAIN Stages : FilesOf(Stages[s]) = loaded
  /\ emit = IF Dumps THEN loaded ELSE <<>>

\* The sink and what was found.
Harmless(job) == job.found = 0 \/ (job.what = "borrowck" /\ opts.safe_c = "warn")
Listed(ds) == [i \in DOMAIN ds |-> <<ds[i].what, ds[i].file>>]
FoundBy(jobs) ==
  FlattenSeq([k \in DOMAIN jobs |-> [i \in 1 .. jobs[k].found |-> <<jobs[k].what, jobs[k].file>>]])
AllHarmless == \A k \in DOMAIN ran : Harmless(ran[k])

Counted ==
  /\ sink.error_count = Cardinality(Errors(sink.diagnostics))
  /\ sink.warning_count = Len(sink.diagnostics) - sink.error_count

Told ==
  /\ Counted
  /\ Listed(sink.diagnostics) = FoundBy(ran)
  /\ sink.error_count = 0 <=> AllHarmless

\* What has been printed, and what the exit code will be.
Printed ==
  /\ Listed(stderr) = FoundBy(ran)
  /\ success <=> AllHarmless
  /\ success <=> Errors(stderr) = {}

Phases == {"parse", "load", "stages", "finish", "exit", "end"}
Before == pc \in {"parse", "load", "stages", "finish"}
After == pc = "exit" \/ (pc = "end" /\ ran # <<>> /\ exit # Panicked)

Inv ==
  /\ Shape
  /\ pc \in Phases
  /\ exit \in {NoExit, 0, 1, 2, Panicked} /\ (exit = NoExit <=> pc # "end")
  /\ Counted
  /\ pc = "parse" => Parsed /\ ran = <<>> /\ sink = EmptySink /\ loaded = <<>>
  /\ pc \in {"load", "stages", "finish", "exit"} => ReadAll
  /\ pc \in {"parse", "load"} => emit = <<>> /\ stage = 1
  /\ pc = "load" => Loaded
  /\ pc = "stages" => AllIn /\ RanSoFar
  /\ pc = "finish" \/ After => AllIn /\ RanAll
  /\ Before => Told
  /\ After => Printed
  /\ pc = "end" /\ exit # Panicked => (exit = 0 <=> Errors(stderr) = {})

-----------------------------------------------------------------------------
(* What is kept of a sequence.                                                *)

KeptBy(f, s, at, n) ==
  f = [i \in 0 .. n |-> IF i = 0 THEN <<>>
                        ELSE IF i \in at THEN Append(f[i - 1], s[i]) ELSE f[i - 1]]

LEMMA KeptExists ==
  ASSUME NEW s, NEW at
  PROVE  \A n \in Nat : \E f : KeptBy(f, s, at, n)
<1> DEFINE S == {n \in Nat : \E f : KeptBy(f, s, at, n)}
<1>1. 0 \in S
  <2>1. KeptBy([i \in 0 .. 0 |-> <<>>], s, at, 0)
    BY DEF KeptBy
  <2> QED
    BY <2>1
<1>2. ASSUME NEW n \in Nat, n \in S
      PROVE  n + 1 \in S
  <2>1. PICK f : KeptBy(f, s, at, n)
    BY <1>2
  <2> DEFINE x == IF n + 1 \in at THEN Append(f[n], s[n + 1]) ELSE f[n]
             g == [i \in 0 .. n + 1 |-> IF i = n + 1 THEN x ELSE f[i]]
  <2>2. \A i \in 0 .. n : g[i] = f[i]
    OBVIOUS
  <2>3. g[n + 1] = x
    OBVIOUS
  <2>4. ASSUME NEW i \in 0 .. n + 1
        PROVE  g[i] = IF i = 0 THEN <<>>
                      ELSE IF i \in at THEN Append(g[i - 1], s[i]) ELSE g[i - 1]
    <3>1. CASE i = n + 1
      <4>1. i # 0 /\ i - 1 = n /\ g[n] = f[n]
        BY <3>1, <2>2
      <4> QED
        BY <4>1, <2>3, <3>1
    <3>2. CASE i \in 0 .. n
      <4>1. f[i] = IF i = 0 THEN <<>>
                   ELSE IF i \in at THEN Append(f[i - 1], s[i]) ELSE f[i - 1]
        BY <2>1, <3>2 DEF KeptBy
      <4>2. i # 0 => g[i - 1] = f[i - 1]
        BY <3>2, <2>2
      <4> QED
        BY <4>1, <4>2, <2>2, <3>2
    <3> QED
      BY <3>1, <3>2
  <2>5. KeptBy(g, s, at, n + 1)
    <3>1. g = [i \in 0 .. n + 1 |-> g[i]]
      OBVIOUS
    <3> HIDE DEF g
    <3> QED
      BY <3>1, <2>4 DEF KeptBy
  <2> QED
    BY <2>5
<1>3. Nat \subseteq S
  <2> HIDE DEF S
  <2> QED
    BY <1>1, <1>2, SetInduction
<1> QED
  BY <1>3

LEMMA KeptAt ==
  ASSUME NEW f, NEW s, NEW at, NEW n \in Nat, KeptBy(f, s, at, n)
  PROVE  /\ f[0] = <<>>
         /\ \A i \in Nat : i + 1 <= n =>
              f[i + 1] = IF i + 1 \in at THEN Append(f[i], s[i + 1]) ELSE f[i]
<1> DEFINE F(i) == IF i = 0 THEN <<>>
                   ELSE IF i \in at THEN Append(f[i - 1], s[i]) ELSE f[i - 1]
<1>1. f = [i \in 0 .. n |-> F(i)]
  BY DEF KeptBy
<1>2. \A i \in 0 .. n : f[i] = F(i)
  <2> HIDE DEF F
  <2> QED
    BY <1>1
<1>3. f[0] = <<>>
  BY <1>2
<1>4. ASSUME NEW i \in Nat, i + 1 <= n
      PROVE  f[i + 1] = IF i + 1 \in at THEN Append(f[i], s[i + 1]) ELSE f[i]
  <2>1. i + 1 \in 0 .. n /\ i + 1 # 0 /\ (i + 1) - 1 = i
    BY <1>4
  <2>2. f[i + 1] = F(i + 1)
    <3> HIDE DEF F
    <3> QED
      BY <1>2, <2>1
  <2> QED
    BY <2>1, <2>2
<1> QED
  BY <1>3, <1>4

\* It only depends on the elements and places up to there.
LEMMA KeptAgree ==
  ASSUME NEW s, NEW at, NEW m \in Nat, NEW f, KeptBy(f, s, at, m),
         NEW t, NEW bt, NEW n \in Nat, NEW g, KeptBy(g, t, bt, n),
         m <= n, \A i \in 1 .. m : s[i] = t[i] /\ (i \in at <=> i \in bt)
  PROVE  \A i \in 0 .. m : f[i] = g[i]
<1> DEFINE S == {i \in Nat : i <= m => f[i] = g[i]}
<1>1. 0 \in S
  BY DEF KeptBy
<1>2. ASSUME NEW i \in Nat, i \in S
      PROVE  i + 1 \in S
  <2> SUFFICES ASSUME i + 1 <= m
               PROVE  f[i + 1] = g[i + 1]
    OBVIOUS
  <2>1. f[i] = g[i] /\ i + 1 \in 0 .. m /\ i + 1 \in 0 .. n /\ i + 1 # 0 /\ i + 1 - 1 = i
    BY <1>2
  <2>2. f[i + 1] = IF i + 1 \in at THEN Append(f[i], s[i + 1]) ELSE f[i]
    BY KeptAt
  <2>3. g[i + 1] = IF i + 1 \in bt THEN Append(g[i], t[i + 1]) ELSE g[i]
    BY i + 1 <= n, KeptAt
  <2>4. s[i + 1] = t[i + 1] /\ (i + 1 \in at <=> i + 1 \in bt)
    BY <2>1
  <2> QED
    BY <2>1, <2>2, <2>3, <2>4
<1>3. Nat \subseteq S
  <2> HIDE DEF S
  <2> QED
    BY <1>1, <1>2, SetInduction
<1> QED
  BY <1>3

LEMMA OnlyIsKept ==
  ASSUME NEW s, IsSequence(s), NEW at
  PROVE  \E f : KeptBy(f, s, at, Len(s)) /\ Only(s, at) = f[Len(s)]
<1> DEFINE h == CHOOSE f : KeptBy(f, s, at, Len(s))
<1>1. Len(s) \in Nat
  BY SequenceElim
<1>2. KeptBy(h, s, at, Len(s))
  BY <1>1, KeptExists
<1>3. Only(s, at) = h[Len(s)]
  BY DEF Only, KeptBy
<1> QED
  BY <1>2, <1>3

LEMMA OnlyOfNothing ==
  ASSUME NEW at
  PROVE  Only(<<>>, at) = <<>>
BY OnlyIsKept, SequenceEmpty, KeptAt

\* One more element is kept or not; the places before it do not matter anew.
LEMMA OnlyAppend ==
  ASSUME NEW s, IsSequence(s), NEW x, NEW at, NEW bt,
         \A i \in 1 .. Len(s) : i \in at <=> i \in bt
  PROVE  Only(Append(s, x), bt)
         = IF Len(s) + 1 \in bt THEN Append(Only(s, at), x) ELSE Only(s, at)
<1> DEFINE t == Append(s, x)
           n == Len(s)
<1>1. IsSequence(t) /\ Len(t) = n + 1 /\ t[n + 1] = x /\ \A i \in 1 .. n : t[i] = s[i]
  BY SequenceAppend
<1>2. n \in Nat
  BY SequenceElim
<1> HIDE DEF t
<1>3. PICK f : KeptBy(f, s, at, n) /\ Only(s, at) = f[n]
  BY OnlyIsKept
<1>4. PICK g : KeptBy(g, t, bt, n + 1) /\ Only(t, bt) = g[n + 1]
  BY <1>1, OnlyIsKept
<1> HIDE DEF n
<1>5. f[n] = g[n]
  <2>1. n + 1 \in Nat /\ n <= n + 1 /\ n \in 0 .. n
    BY <1>2
  <2>2. \A i \in 1 .. n : s[i] = t[i] /\ (i \in at <=> i \in bt)
    BY <1>1 DEF n
  <2>3. \A i \in 0 .. n : f[i] = g[i]
    BY <1>2, <1>3, <1>4, <2>1, <2>2, KeptAgree
  <2> QED
    BY <2>1, <2>3
<1>6. g[n + 1] = IF n + 1 \in bt THEN Append(g[n], t[n + 1]) ELSE g[n]
  <2>1. n + 1 \in Nat /\ n + 1 <= n + 1
    BY <1>2
  <2> QED
    BY <1>2, <1>4, <2>1, KeptAt
<1> QED
  BY <1>1, <1>3, <1>4, <1>5, <1>6 DEF n, t

LEMMA OnlyNext ==
  ASSUME NEW s, IsSequence(s), NEW x, NEW at
  PROVE  Only(Append(s, x), at)
         = IF Len(s) + 1 \in at THEN Append(Only(s, at), x) ELSE Only(s, at)
<1> DEFINE bt == at
<1>1. \A i \in 1 .. Len(s) : i \in at <=> i \in bt
  OBVIOUS
<1> HIDE DEF bt
<1>2. Only(Append(s, x), bt)
      = IF Len(s) + 1 \in bt THEN Append(Only(s, at), x) ELSE Only(s, at)
  BY <1>1, OnlyAppend
<1> QED
  BY <1>2 DEF bt

LEMMA OnlySame ==
  ASSUME NEW s, IsSequence(s), NEW at, NEW bt, \A i \in 1 .. Len(s) : i \in at <=> i \in bt
  PROVE  Only(s, at) = Only(s, bt)
<1>1. Len(s) \in Nat
  BY SequenceElim
<1>2. PICK f : KeptBy(f, s, at, Len(s)) /\ Only(s, at) = f[Len(s)]
  BY OnlyIsKept
<1>3. PICK g : KeptBy(g, s, bt, Len(s)) /\ Only(s, bt) = g[Len(s)]
  BY OnlyIsKept
<1> DEFINE n == Len(s)
<1>4. \A i \in 0 .. n : f[i] = g[i]
  <2>1. n \in Nat /\ n <= n /\ KeptBy(f, s, at, n) /\ KeptBy(g, s, bt, n)
    BY <1>1, <1>2, <1>3
  <2>2. \A i \in 1 .. n : s[i] = s[i] /\ (i \in at <=> i \in bt)
    OBVIOUS
  <2> HIDE DEF n
  <2> QED
    BY <2>1, <2>2, KeptAgree
<1> QED
  BY <1>1, <1>2, <1>3, <1>4

\* Everything is kept when every place is in at.
LEMMA OnlyAll ==
  ASSUME NEW s, IsSequence(s), NEW at, \A i \in 1 .. Len(s) : i \in at
  PROVE  Only(s, at) = s
<1>1. Len(s) \in Nat
  BY SequenceElim
<1>2. PICK f : KeptBy(f, s, at, Len(s)) /\ Only(s, at) = f[Len(s)]
  BY OnlyIsKept
<1> DEFINE S == {n \in Nat : n <= Len(s) => f[n] = SubSeq(s, 1, n)}
<1>3. 0 \in S
  <2>1. f[0] = <<>>
    BY <1>1, <1>2, KeptAt
  <2>2. SubSeq(s, 1, 0) = <<>>
    BY SubSeqEmpty DEF IsSequence
  <2> QED
    BY <2>1, <2>2
<1>4. ASSUME NEW n \in Nat, n \in S
      PROVE  n + 1 \in S
  <2> SUFFICES ASSUME n + 1 <= Len(s)
               PROVE  f[n + 1] = SubSeq(s, 1, n + 1)
    OBVIOUS
  <2>1. f[n] = SubSeq(s, 1, n)
    BY <1>1, <1>4
  <2>2. n + 1 \in 1 .. Len(s) /\ n + 1 - 1 = n
    BY <1>1
  <2>3. f[n + 1] = IF n + 1 \in at THEN Append(f[n], s[n + 1]) ELSE f[n]
    BY <1>1, <1>2, KeptAt
  <2>5. f[n + 1] = Append(SubSeq(s, 1, n), s[n + 1])
    BY <2>1, <2>2, <2>3
  <2>4. SubSeq(s, 1, n + 1) = Append(SubSeq(s, 1, n), s[n + 1])
    BY <2>2, PrefixGrows
  <2> QED
    BY <2>4, <2>5
<1>5. Nat \subseteq S
  <2> HIDE DEF S
  <2> QED
    BY <1>3, <1>4, SetInduction
<1>6. f[Len(s)] = SubSeq(s, 1, Len(s))
  BY <1>1, <1>5
<1> QED
  BY <1>2, <1>6, SubSeqFull DEF IsSequence

-----------------------------------------------------------------------------
(* The command line.                                                          *)

SafeCNames == {"-fsafe-c", "-fsafe-c=warn", "-fno-safe-c"}
EmitNames ==
  {"-emit=tokens", "-emit=pp-tokens", "-emit=ast", "-emit=hir", "-emit=mir", "-emit=llvm-ir",
   "-emit=llvm", "-emit=obj", "-emit=asm"}

LEMMA FlagNames ==
  /\ DOMAIN SafeCFlags = SafeCNames /\ DOMAIN EmitFlags = EmitNames
  /\ \A f \in SafeCNames : SafeCFlags[f] \in Modes
  /\ \A f \in EmitNames : EmitFlags[f] \in Emits
BY DEF SafeCFlags, EmitFlags, SafeCNames, EmitNames, Modes, Emits

\* The word after an option with a value is its value, and no other word is.
LEMMA SwallowedNext ==
  ASSUME args \in Seq(STRING), NEW n \in 1 .. Len(args)
  PROVE  Swallowed(n + 1) <=> args[n] \in ValueFlags /\ ~Swallowed(n)
<1> DEFINE Starts(j, i) ==
             /\ \A k \in j .. i - 1 : args[k] \in ValueFlags
             /\ j > 1 => args[j - 1] \notin ValueFlags
<1>1. n \in Nat /\ n >= 1
  OBVIOUS
<1>2. ASSUME args[n] \notin ValueFlags, Swallowed(n + 1)
      PROVE  FALSE
  <2>1. PICK j \in 1 .. n + 1 - 1 : \A k \in j .. n + 1 - 1 : args[k] \in ValueFlags
    BY <1>2 DEF Swallowed
  <2>2. n \in j .. n + 1 - 1
    BY <2>1, <1>1
  <2> QED
    BY <2>1, <2>2, <1>2
<1>3. ASSUME Swallowed(n + 1), Swallowed(n)
      PROVE  FALSE
  <2>1. PICK i \in 1 .. n + 1 - 1 : ((n + 1) - i) % 2 = 1 /\ Starts(i, n + 1)
    BY <1>3 DEF Swallowed
  <2>2. PICK j \in 1 .. n - 1 : (n - j) % 2 = 1 /\ Starts(j, n)
    BY <1>3 DEF Swallowed
  <2>3. ~ (i < j)
    <3> SUFFICES ASSUME i < j
                 PROVE  FALSE
      OBVIOUS
    <3>1. j - 1 \in i .. n + 1 - 1 /\ j > 1
      BY <1>1
    <3> QED
      BY <3>1, <2>1, <2>2
  <2>4. ~ (j < i)
    <3> SUFFICES ASSUME j < i
                 PROVE  FALSE
      OBVIOUS
    <3>1. i - 1 \in j .. n - 1 /\ i > 1
      BY <1>1
    <3> QED
      BY <3>1, <2>1, <2>2
  <2>5. i = j
    BY <1>1, <2>3, <2>4
  <2> QED
    BY <1>1, <2>1, <2>2, <2>5
<1>4. ASSUME args[n] \in ValueFlags, ~Swallowed(n)
      PROVE  Swallowed(n + 1)
  <2> DEFINE S == {m \in Nat : m <= n - 1 /\ \A k \in n - m .. n : args[k] \in ValueFlags}
             T == {m \in Nat : m \notin S}
  <2>1. 0 \in S
    BY <1>1, <1>4
  <2>2. n \notin S
    BY <1>1
  <2>3. PICK m \in Nat : m \in S /\ m + 1 \notin S
    <3> HIDE DEF S
    <3> SUFFICES ASSUME \A m \in Nat : m \in S => m + 1 \in S
                 PROVE  FALSE
      OBVIOUS
    <3>1. Nat \subseteq S
      BY <2>1, SetInduction
    <3> QED
      BY <3>1, <2>2, <1>1
  <2> DEFINE j == n - m
  <2>4. j \in 1 .. n /\ \A k \in j .. (n + 1) - 1 : args[k] \in ValueFlags
    BY <1>1, <2>3
  <2>5. ASSUME j > 1
        PROVE  args[j - 1] \notin ValueFlags
    <3>1. \A k \in n - (m + 1) .. n : k = j - 1 \/ k \in n - m .. n
      BY <1>1, <2>3
    <3>2. m + 1 \in Nat /\ m + 1 <= n - 1
      BY <1>1, <2>3, <2>5
    <3> QED
      BY <3>1, <3>2, <2>3
  <2>6. ((n + 1) - j) % 2 = 1
    <3> SUFFICES ASSUME ((n + 1) - j) % 2 # 1
                 PROVE  FALSE
      OBVIOUS
    <3>1. (n - j) % 2 = 1
      BY <1>1, <2>4
    <3>2. n - j # 0
      BY <3>1
    <3>3. j \in 1 .. n - 1 /\ \A k \in j .. n - 1 : args[k] \in ValueFlags
      BY <1>1, <2>4, <3>2
    <3>4. Swallowed(n)
      BY <3>1, <3>3, <2>5 DEF Swallowed
    <3> QED
      BY <3>4, <1>4
  <2>7. j \in 1 .. (n + 1) - 1
    BY <2>4, <1>1
  <2> HIDE DEF j
  <2> QED
    BY <2>4, <2>5, <2>6, <2>7 DEF Swallowed
<1> QED
  BY <1>2, <1>3, <1>4

\* A flag that is read counts from then on, any other word leaves things alone.
LEMMA LastBeforeNext ==
  ASSUME args \in Seq(STRING), NEW n \in 1 .. Len(args), NEW flags, NEW default
  PROVE  LastBefore(n + 1, flags, default)
         = IF n \in Words /\ args[n] \in DOMAIN flags THEN flags[args[n]]
           ELSE LastBefore(n, flags, default)
<1> DEFINE C == {i \in Words : i < n /\ args[i] \in DOMAIN flags}
           D == {i \in Words : i < n + 1 /\ args[i] \in DOMAIN flags}
<1>1. Words \subseteq Nat
  BY DEF Words
<1>2. CASE n \in Words /\ args[n] \in DOMAIN flags
  <2>1. n \in D /\ \A i \in D : i \in Nat /\ i <= n
    BY <1>1, <1>2
  <2> HIDE DEF D
  <2>2. Max(D) = n
    <3>1. \A x \in D : (\A y \in D : x >= y) => x = n
      BY <2>1
    <3>2. n \in D /\ \A y \in D : n >= y
      BY <2>1
    <3> QED
      BY <3>1, <3>2 DEF Max
  <2>3. LastBefore(n + 1, flags, default) = flags[args[Max(D)]]
    BY <2>1 DEF LastBefore, D
  <2> QED
    BY <1>2, <2>2, <2>3
<1>3. CASE ~ (n \in Words /\ args[n] \in DOMAIN flags)
  <2>0. \A i \in Words : i < n + 1 <=> i < n \/ i = n
    BY <1>1
  <2>1. C = D
    BY <2>0, <1>3
  <2>2. LastBefore(n, flags, default) = IF C = {} THEN default ELSE flags[args[Max(C)]]
    BY DEF LastBefore
  <2>3. LastBefore(n + 1, flags, default) = IF D = {} THEN default ELSE flags[args[Max(D)]]
    BY DEF LastBefore
  <2> HIDE DEF C, D
  <2> QED
    BY <1>3, <2>1, <2>2, <2>3
<1> QED
  BY <1>2, <1>3

LEMMA InputsNext ==
  ASSUME args \in Seq(STRING), NEW n \in 1 .. Len(args)
  PROVE  Only(Prefix(args, (n + 1) - 1), InputWords)
         = IF n \in InputWords THEN Append(Only(Prefix(args, n - 1), InputWords), args[n])
           ELSE Only(Prefix(args, n - 1), InputWords)
<1> DEFINE m == n - 1
           p == Prefix(args, m)
<1>1. IsSequence(args) /\ m \in Nat /\ m + 1 = n /\ m + 1 \in 1 .. Len(args) /\ (n + 1) - 1 = n
  BY SequenceIntro
<1>2. Prefix(args, m + 1) = Append(p, args[m + 1])
  BY <1>1, PrefixGrows DEF Prefix
<1>3. IsSequence(p) /\ Len(p) = m
  <2>1. 1 \in 1 .. Len(args) + 1 /\ m \in 1 - 1 .. Len(args) /\ m - 1 + 1 = m
    BY <1>1
  <2> HIDE DEF m
  <2> QED
    BY <1>1, <2>1, SequenceSub DEF Prefix
<1> HIDE DEF p, m
<1>4. Only(Append(p, args[n]), InputWords)
      = IF m + 1 \in InputWords THEN Append(Only(p, InputWords), args[n])
        ELSE Only(p, InputWords)
  <2>2. Only(Append(p, args[n]), InputWords)
        = IF Len(p) + 1 \in InputWords THEN Append(Only(p, InputWords), args[n])
          ELSE Only(p, InputWords)
    BY <1>3, OnlyNext
  <2> QED
    BY <1>3, <2>2
<1> QED
  BY <1>1, <1>2, <1>4 DEF p, m

\* A word that is not a value sets what it stands for.
LEMMA WordIsRead ==
  ASSUME args \in Seq(STRING), NEW n \in 1 .. Len(args), ~Swallowed(n), ~EndsParsing(n),
         NEW o, SetBy(n, o), NEW p,
         p.safe_c = IF args[n] \in SafeCNames THEN SafeCFlags[args[n]] ELSE o.safe_c,
         p.emit = IF args[n] \in EmitNames THEN EmitFlags[args[n]] ELSE o.emit,
         p.inputs = IF args[n] \in Dashed THEN o.inputs ELSE Append(o.inputs, args[n])
  PROVE  SetBy(n + 1, p)
<1>1. n \in Words /\ Words \subseteq Nat
  BY DEF Words
<1>2. \A i \in Words : i < n + 1 => ~EndsParsing(i)
  BY <1>1 DEF SetBy
<1>3. p.safe_c = LastBefore(n + 1, SafeCFlags, "off")
  BY <1>1, LastBeforeNext, FlagNames DEF SetBy
<1>4. p.emit = LastBefore(n + 1, EmitFlags, "none")
  BY <1>1, LastBeforeNext, FlagNames DEF SetBy
<1>5. p.inputs = Only(Prefix(args, (n + 1) - 1), InputWords)
  <2>1. n \in InputWords <=> args[n] \notin Dashed
    BY <1>1 DEF InputWords
  <2> QED
    BY <2>1, InputsNext DEF SetBy
<1> QED
  BY <1>2, <1>3, <1>4, <1>5 DEF SetBy

\* A value sets nothing.
LEMMA ValueIsSkipped ==
  ASSUME args \in Seq(STRING), NEW n \in 1 .. Len(args), Swallowed(n), NEW o, SetBy(n, o)
  PROVE  SetBy(n + 1, o)
<1>1. n \notin Words /\ Words \subseteq Nat
  BY DEF Words
<1>2. \A i \in Words : i < n + 1 => i < n
  BY <1>1
<1>3. LastBefore(n + 1, SafeCFlags, "off") = LastBefore(n, SafeCFlags, "off")
  BY <1>1, LastBeforeNext
<1>4. LastBefore(n + 1, EmitFlags, "none") = LastBefore(n, EmitFlags, "none")
  BY <1>1, LastBeforeNext
<1>5. Only(Prefix(args, (n + 1) - 1), InputWords) = Only(Prefix(args, n - 1), InputWords)
  BY <1>1, InputsNext DEF InputWords
<1> QED
  BY <1>2, <1>3, <1>4, <1>5 DEF SetBy

-----------------------------------------------------------------------------
(* The stages of a mode, and what has run.                                    *)

StageNames == {"lex", "preprocess", "parse", "typeck", "mir", "borrowck"}

LEMMA StagesAre ==
  /\ IsSequence(Stages)
  /\ \A s \in 1 .. Len(Stages) : Stages[s] \in StageNames
  /\ \A s, t \in 1 .. Len(Stages) : Stages[s] = Stages[t] => s = t
<1> DEFINE Good(q) ==
             /\ IsSequence(q)
             /\ \A s \in 1 .. Len(q) : q[s] \in StageNames
             /\ \A s, t \in 1 .. Len(q) : q[s] = q[t] => s = t
<1>1. ASSUME NEW q, NEW n \in Nat, q \in [1 .. n -> StageNames],
             \A s, t \in 1 .. n : q[s] = q[t] => s = t
      PROVE  Good(q)
  <2>1. q = [i \in 1 .. n |-> q[i]]
    BY <1>1
  <2>2. IsSequence(q) /\ Len(q) = n
    BY <2>1, SequenceByIndex
  <2> QED
    BY <1>1, <2>2
<1>2. Good(<<>>)
  BY SequenceEmpty
<1>3. Good(<<"lex">>) /\ Good(<<"preprocess">>)
  BY SequenceOne DEF StageNames
<1>4. Good(<<"preprocess", "parse">>)
  BY SequenceTwo DEF StageNames
<1>5. Good(<<"preprocess", "parse", "typeck">>)
  <2> DEFINE q == <<"preprocess", "parse", "typeck">>
  <2>1. q \in [1 .. 3 -> StageNames] /\ q[1] = "preprocess" /\ q[2] = "parse" /\ q[3] = "typeck"
    BY DEF StageNames
  <2>2. \A i \in 1 .. 3 : i = 1 \/ i = 2 \/ i = 3
    OBVIOUS
  <2> HIDE DEF q
  <2>3. \A s, t \in 1 .. 3 : q[s] = q[t] => s = t
    BY <2>1, <2>2
  <2>4. Good(q)
    <3> HIDE DEF Good
    <3> QED
      BY <2>1, <2>3, <1>1
  <2> QED
    BY <2>4 DEF q
<1>6. Good(<<"preprocess", "parse", "typeck", "mir">>)
  <2> DEFINE q == <<"preprocess", "parse", "typeck", "mir">>
  <2>1. /\ q \in [1 .. 4 -> StageNames]
        /\ q[1] = "preprocess" /\ q[2] = "parse" /\ q[3] = "typeck" /\ q[4] = "mir"
    BY DEF StageNames
  <2>2. \A i \in 1 .. 4 : i = 1 \/ i = 2 \/ i = 3 \/ i = 4
    OBVIOUS
  <2> HIDE DEF q
  <2>3. \A s, t \in 1 .. 4 : q[s] = q[t] => s = t
    BY <2>1, <2>2
  <2>4. Good(q)
    <3> HIDE DEF Good
    <3> QED
      BY <2>1, <2>3, <1>1
  <2> QED
    BY <2>4 DEF q
<1>7. Good(<<"preprocess", "parse", "typeck", "mir", "borrowck">>)
  <2> DEFINE q == <<"preprocess", "parse", "typeck", "mir", "borrowck">>
  <2>1. /\ q \in [1 .. 5 -> StageNames]
        /\ q[1] = "preprocess" /\ q[2] = "parse" /\ q[3] = "typeck" /\ q[4] = "mir"
        /\ q[5] = "borrowck"
    BY DEF StageNames
  <2>2. \A i \in 1 .. 5 : i = 1 \/ i = 2 \/ i = 3 \/ i = 4 \/ i = 5
    OBVIOUS
  <2> HIDE DEF q
  <2>3. \A s, t \in 1 .. 5 : q[s] = q[t] => s = t
    BY <2>1, <2>2
  <2>4. Good(q)
    <3> HIDE DEF Good
    <3> QED
      BY <2>1, <2>3, <1>1
  <2> QED
    BY <2>4 DEF q
<1>8. Good(Stages)
  <2> HIDE DEF Good
  <2> QED
    BY <1>2, <1>3, <1>4, <1>5, <1>6, <1>7 DEF Stages
<1> QED
  BY <1>8

\* Without an intermediate form to dump, -fsafe-c ends with the borrow checker.
LEMMA SafeCStages ==
  ASSUME ~Dumps, opts.safe_c # "off"
  PROVE  Stages = <<"preprocess", "parse", "typeck", "mir", "borrowck">>
BY DEF Stages, Dumps

FilesIn(jobs, what) ==
  Only([k \in DOMAIN jobs |-> jobs[k].file], {k \in DOMAIN jobs : jobs[k].what = what})

LEMMA FilesAppend ==
  ASSUME NEW jobs, IsSequence(jobs), NEW job, NEW what
  PROVE  FilesIn(Append(jobs, job), what)
         = IF job.what = what THEN Append(FilesIn(jobs, what), job.file) ELSE FilesIn(jobs, what)
<1> DEFINE n == Len(jobs)
           all == Append(jobs, job)
           files == [k \in DOMAIN jobs |-> jobs[k].file]
           at == {k \in DOMAIN jobs : jobs[k].what = what}
           allFiles == [k \in DOMAIN all |-> all[k].file]
           allAt == {k \in DOMAIN all : all[k].what = what}
<1>1. n \in Nat /\ DOMAIN jobs = 1 .. n
  BY SequenceElim
<1>2. IsSequence(all) /\ Len(all) = n + 1 /\ all[n + 1] = job /\ \A i \in 1 .. n : all[i] = jobs[i]
  BY SequenceAppend
<1>3. DOMAIN all = 1 .. n + 1
  BY <1>2, SequenceElim
<1> HIDE DEF all, n
<1>4. IsSequence(files) /\ Len(files) = n
  BY <1>1, SequenceByIndex
<1>5. IsSequence(allFiles) /\ Len(allFiles) = n + 1
  BY <1>1, <1>3, n + 1 \in Nat, SequenceByIndex
<1>6. allFiles = Append(files, job.file)
  <2>1. /\ IsSequence(Append(files, job.file)) /\ Len(Append(files, job.file)) = n + 1
        /\ Append(files, job.file)[n + 1] = job.file
        /\ \A i \in 1 .. n : Append(files, job.file)[i] = files[i]
    <3> HIDE DEF files
    <3> QED
      BY <1>4, SequenceAppend
  <2>2. ASSUME NEW i \in 1 .. n + 1
        PROVE  allFiles[i] = Append(files, job.file)[i]
    <3>1. CASE i = n + 1
      BY <3>1, <1>2, <1>3, <2>1
    <3>2. CASE i \in 1 .. n
      BY <3>2, <1>1, <1>2, <1>3, <2>1
    <3> QED
      BY <1>1, <3>1, <3>2
  <2> HIDE DEF files, allFiles
  <2> QED
    BY <1>5, <2>1, <2>2, SequencesEqual
<1>7. \A i \in 1 .. n : i \in at <=> i \in allAt
  BY <1>1, <1>2, <1>3
<1>8. n + 1 \in allAt <=> job.what = what
  BY <1>1, <1>2, <1>3
<1> HIDE DEF files, at, allFiles, allAt
<1>9. Only(Append(files, job.file), allAt)
      = IF n + 1 \in allAt THEN Append(Only(files, at), job.file) ELSE Only(files, at)
  <2>1. \A i \in 1 .. Len(files) : i \in at <=> i \in allAt
    BY <1>4, <1>7
  <2>2. ASSUME NEW x
        PROVE  Only(Append(files, x), allAt)
               = IF Len(files) + 1 \in allAt THEN Append(Only(files, at), x) ELSE Only(files, at)
    <3>1. IsSequence(files)
      BY <1>4
    <3> QED
      BY <2>1, <3>1, OnlyAppend
  <2> QED
    BY <1>4, <2>2
<1> QED
  BY <1>6, <1>8, <1>9 DEF FilesIn, files, at, allFiles, allAt, all

LEMMA FilesInNothing ==
  ASSUME NEW what
  PROVE  FilesIn(<<>>, what) = <<>>
<1>1. DOMAIN <<>> = {}
  OBVIOUS
<1>2. [k \in DOMAIN <<>> |-> <<>>[k].file] = <<>>
  BY SequenceEmpty, SequenceByIndex, SequencesEqual
<1> QED
  BY <1>2, OnlyOfNothing DEF FilesIn

LEMMA FilesOfIs ==
  ASSUME NEW what
  PROVE  FilesOf(what) = FilesIn(ran, what)
BY DEF FilesOf, FilesIn

-----------------------------------------------------------------------------
(* The sink.                                                                  *)

LEMMA ErrorsAreFinite ==
  ASSUME NEW ds, IsSequence(ds)
  PROVE  /\ IsFiniteSet(Errors(ds)) /\ Cardinality(Errors(ds)) \in Nat
         /\ Cardinality(Errors(ds)) = 0 <=> Errors(ds) = {}
<1>1. Len(ds) \in Nat /\ DOMAIN ds = 1 .. Len(ds)
  BY SequenceElim
<1>2. Errors(ds) \in SUBSET (1 .. Len(ds))
  BY <1>1 DEF Errors
<1>3. IsFiniteSet(1 .. Len(ds))
  BY <1>1, FS_Interval
<1>4. IsFiniteSet(Errors(ds))
  BY <1>2, <1>3, FS_Subset
<1> QED
  BY <1>4, FS_CardinalityType, FS_EmptySet

Copies(n, p) == [i \in 1 .. n |-> p]

LEMMA CopiesAre ==
  ASSUME NEW n \in Nat, NEW p
  PROVE  /\ IsSequence(Copies(n, p)) /\ Len(Copies(n, p)) = n
         /\ Errors(Copies(n, p)) = IF p.severity = "error" THEN 1 .. n ELSE {}
         /\ Cardinality(Errors(Copies(n, p))) = IF p.severity = "error" THEN n ELSE 0
<1>1. IsSequence(Copies(n, p)) /\ Len(Copies(n, p)) = n
  BY SequenceByIndex DEF Copies
<1>2. Errors(Copies(n, p)) = IF p.severity = "error" THEN 1 .. n ELSE {}
  BY DEF Errors, Copies
<1>3. Cardinality(1 .. n) = n
  BY FS_Interval
<1> QED
  BY <1>1, <1>2, <1>3, FS_EmptySet

LEMMA OneCopy ==
  ASSUME NEW p
  PROVE  <<p>> = Copies(1, p)
<1>1. IsSequence(Copies(1, p)) /\ Len(Copies(1, p)) = 1
  BY CopiesAre
<1>2. Copies(1, p)[1] = p
  BY DEF Copies
<1>3. IsSequence(<<p>>) /\ Len(<<p>>) = 1 /\ <<p>>[1] = p
  BY SequenceOne
<1>4. \A i \in 1 .. 1 : <<p>>[i] = Copies(1, p)[i]
  BY <1>2, <1>3
<1> QED
  BY <1>1, <1>3, <1>4, SequencesEqual

\* Adding copies of one problem adds their number to one of the counters.
LEMMA ErrorsWithCopies ==
  ASSUME NEW ds, IsSequence(ds), NEW n \in Nat, NEW p
  PROVE  Cardinality(Errors(ds \o Copies(n, p)))
         = Cardinality(Errors(ds)) + (IF p.severity = "error" THEN n ELSE 0)
<1> DEFINE m == Len(ds)
           es == Copies(n, p)
           all == ds \o es
           new == IF p.severity = "error" THEN m + 1 .. m + n ELSE {}
<1>1. m \in Nat /\ DOMAIN ds = 1 .. m
  BY SequenceElim
<1>2. IsSequence(es) /\ Len(es) = n /\ \A i \in 1 .. n : es[i] = p
  BY CopiesAre DEF Copies
<1> HIDE DEF es, m
<1>3. /\ IsSequence(all) /\ Len(all) = m + n
      /\ \A i \in 1 .. m : all[i] = ds[i]
      /\ \A i \in 1 .. n : all[m + i] = p
  BY <1>2, SequenceConcat DEF m
<1>4. DOMAIN all = 1 .. m + n
  BY <1>3, SequenceElim
<1> HIDE DEF all
<1>5. ASSUME NEW i \in m + 1 .. m + n
      PROVE  all[i] = p
  <2>1. i - m \in 1 .. n /\ m + (i - m) = i
    BY <1>1
  <2> QED
    BY <1>3, <2>1
<1>6. \A i : i \in 1 .. m + n <=> i \in 1 .. m \/ i \in m + 1 .. m + n
  BY <1>1
<1>7. Errors(all) = Errors(ds) \cup new
  BY <1>1, <1>3, <1>4, <1>5, <1>6 DEF Errors
<1>8. Errors(ds) \cap new = {}
  BY <1>1 DEF Errors
<1>9. IsFiniteSet(new) /\ Cardinality(new) = IF p.severity = "error" THEN n ELSE 0
  <2>1. IsFiniteSet(m + 1 .. m + n) /\ Cardinality(m + 1 .. m + n) = n
    <3>1. m + 1 \in Int /\ m + n \in Int
      BY <1>1
    <3>2. Cardinality(m + 1 .. m + n) = IF m + 1 > m + n THEN 0 ELSE (m + n) - (m + 1) + 1
      BY <3>1, FS_Interval
    <3> QED
      BY <1>1, <3>1, <3>2, FS_Interval
  <2> QED
    BY <2>1, FS_EmptySet
<1>10. IsFiniteSet(Errors(ds)) /\ Cardinality(Errors(ds)) \in Nat
  BY ErrorsAreFinite
<1> HIDE DEF new
<1>11. Cardinality(Errors(ds) \cup new)
       = Cardinality(Errors(ds)) + Cardinality(new) - Cardinality(Errors(ds) \cap new)
  BY <1>9, <1>10, FS_Union
<1>12. Cardinality(Errors(ds) \cup new) = Cardinality(Errors(ds)) + Cardinality(new)
  BY <1>8, <1>9, <1>10, <1>11, FS_EmptySet
<1> QED
  BY <1>7, <1>9, <1>12 DEF all, es

LEMMA ListedWithCopies ==
  ASSUME NEW ds, IsSequence(ds), NEW n \in Nat, NEW p
  PROVE  Listed(ds \o Copies(n, p)) = Listed(ds) \o Copies(n, <<p.what, p.file>>)
<1> DEFINE m == Len(ds)
           es == Copies(n, p)
           all == ds \o es
           q == <<p.what, p.file>>
           fs == Copies(n, q)
<1>1. m \in Nat /\ DOMAIN ds = 1 .. m
  BY SequenceElim
<1>2. IsSequence(es) /\ Len(es) = n /\ \A i \in 1 .. n : es[i] = p
  BY CopiesAre DEF Copies
<1>3. IsSequence(fs) /\ Len(fs) = n /\ \A i \in 1 .. n : fs[i] = q
  BY CopiesAre DEF Copies
<1> HIDE DEF es, m, fs
<1>4. /\ IsSequence(all) /\ Len(all) = m + n
      /\ \A i \in 1 .. m : all[i] = ds[i]
      /\ \A i \in 1 .. n : all[m + i] = p
  BY <1>2, SequenceConcat DEF m
<1>5. DOMAIN all = 1 .. m + n
  BY <1>4, SequenceElim
<1>6. IsSequence(Listed(ds)) /\ Len(Listed(ds)) = m /\ \A i \in 1 .. m : Listed(ds)[i] = <<ds[i].what, ds[i].file>>
  BY <1>1, SequenceByIndex DEF Listed
<1> HIDE DEF all
<1>7. /\ IsSequence(Listed(all)) /\ Len(Listed(all)) = m + n
      /\ \A i \in 1 .. m + n : Listed(all)[i] = <<all[i].what, all[i].file>>
  BY <1>1, <1>5, m + n \in Nat, SequenceByIndex DEF Listed
<1>8. /\ IsSequence(Listed(ds) \o fs) /\ Len(Listed(ds) \o fs) = m + n
      /\ \A i \in 1 .. m : (Listed(ds) \o fs)[i] = Listed(ds)[i]
      /\ \A i \in 1 .. n : (Listed(ds) \o fs)[m + i] = fs[i]
  <2>1. IsSequence(Listed(ds)) /\ IsSequence(fs)
    BY <1>3, <1>6
  <2>2. /\ IsSequence(Listed(ds) \o fs) /\ Len(Listed(ds) \o fs) = Len(Listed(ds)) + Len(fs)
        /\ \A i \in 1 .. Len(Listed(ds)) : (Listed(ds) \o fs)[i] = Listed(ds)[i]
        /\ \A i \in 1 .. Len(fs) : (Listed(ds) \o fs)[Len(Listed(ds)) + i] = fs[i]
    BY <2>1, SequenceConcat
  <2> QED
    BY <1>3, <1>6, <2>2
<1>9. ASSUME NEW i \in 1 .. m + n
      PROVE  Listed(all)[i] = (Listed(ds) \o fs)[i]
  <2>1. CASE i \in 1 .. m
    BY <1>4, <1>6, <1>7, <1>8, <2>1
  <2>2. CASE i \notin 1 .. m
    <3>1. i - m \in 1 .. n /\ m + (i - m) = i
      BY <1>1, <2>2
    <3>2. all[i] = p /\ (Listed(ds) \o fs)[i] = q
      BY <1>3, <1>4, <1>8, <3>1
    <3> QED
      BY <1>7, <3>2
  <2> QED
    BY <2>1, <2>2
<1>10. Listed(all) = Listed(ds) \o fs
  BY <1>7, <1>8, <1>9, SequencesEqual
<1> QED
  BY <1>10 DEF all, es, fs

LEMMA FoundAppend ==
  ASSUME NEW jobs, IsSequence(jobs), NEW job, job.found \in Nat
  PROVE  FoundBy(Append(jobs, job)) = FoundBy(jobs) \o Copies(job.found, <<job.what, job.file>>)
<1> DEFINE n == Len(jobs)
           all == Append(jobs, job)
           F(j) == Copies(j.found, <<j.what, j.file>>)
           ss == [k \in DOMAIN jobs |-> F(jobs[k])]
           tt == [k \in DOMAIN all |-> F(all[k])]
<1>1. n \in Nat /\ DOMAIN jobs = 1 .. n
  BY SequenceElim
<1>2. IsSequence(all) /\ Len(all) = n + 1 /\ all[n + 1] = job /\ \A i \in 1 .. n : all[i] = jobs[i]
  BY SequenceAppend
<1>3. DOMAIN all = 1 .. n + 1
  BY <1>2, SequenceElim
<1>4. FoundBy(jobs) = FlattenSeq(ss)
  BY DEF FoundBy, Copies
<1>5. FoundBy(all) = FlattenSeq(tt)
  BY DEF FoundBy, Copies
<1> HIDE DEF all, n, F
<1>6. IsSequence(ss) /\ Len(ss) = n
  BY <1>1, SequenceByIndex
<1>7. IsSequence(tt) /\ Len(tt) = n + 1
  BY <1>1, <1>3, n + 1 \in Nat, SequenceByIndex
<1>8. tt = Append(ss, F(job))
  <2>1. /\ IsSequence(Append(ss, F(job))) /\ Len(Append(ss, F(job))) = n + 1
        /\ Append(ss, F(job))[n + 1] = F(job)
        /\ \A i \in 1 .. n : Append(ss, F(job))[i] = ss[i]
    <3> HIDE DEF ss
    <3> QED
      BY <1>6, SequenceAppend
  <2>2. ASSUME NEW i \in 1 .. n + 1
        PROVE  tt[i] = Append(ss, F(job))[i]
    <3>1. CASE i = n + 1
      BY <3>1, <1>2, <1>3, <2>1
    <3>2. CASE i \in 1 .. n
      BY <3>2, <1>1, <1>2, <1>3, <2>1
    <3> QED
      BY <1>1, <3>1, <3>2
  <2> HIDE DEF ss, tt
  <2> QED
    BY <1>7, <2>1, <2>2, SequencesEqual
<1>9. IsSequence(F(job))
  BY CopiesAre DEF F
<1> HIDE DEF ss, tt
<1>10. FlattenSeq(tt) = FlattenSeq(ss) \o F(job)
  BY <1>6, <1>8, <1>9, FlattenAppend
<1> QED
  BY <1>4, <1>5, <1>10 DEF all, F

LEMMA FoundNothing == FoundBy(<<>>) = <<>> /\ Listed(<<>>) = <<>>
<1>1. DOMAIN <<>> = {}
  OBVIOUS
<1>2. \A f : f = [i \in 1 .. 0 |-> f[i]] => f = <<>>
  <2>1. ASSUME NEW f, f = [i \in 1 .. 0 |-> f[i]]
        PROVE  f = <<>>
    <3>1. IsSequence(f) /\ Len(f) = 0
      BY <2>1, SequenceByIndex
    <3> QED
      BY <3>1, SequenceElim
  <2> QED
    BY <2>1
<1>3. Listed(<<>>) = <<>>
  BY <1>1, <1>2 DEF Listed
<1>4. [k \in DOMAIN <<>> |-> [i \in 1 .. <<>>[k].found |-> <<<<>>[k].what, <<>>[k].file>>]] = <<>>
  BY <1>1, <1>2
<1> QED
  BY <1>3, <1>4, FlattenNothing DEF FoundBy

\* What is emitted together with what was found keeps the sink and ran in step.
LEMMA EmitRecords ==
  ASSUME ShapeOf(sink, ran), Told,
         NEW n \in Nat, NEW what, NEW file, NEW severity,
         severity = IF what = "borrowck" /\ opts.safe_c = "warn" THEN "warning" ELSE "error",
         sink' = EmitAll(sink, Copies(n, Problem(what, file, severity))),
         ran' = Append(ran, Job(what, file, n)),
         opts' = opts
  PROVE  ShapeOf(sink, ran)' /\ Told'
<1> DEFINE p == Problem(what, file, severity)
           es == Copies(n, p)
           job == Job(what, file, n)
           e == IF severity = "error" THEN n ELSE 0
           ds == sink.diagnostics
<1>1. p.what = what /\ p.file = file /\ p.severity = severity
  BY DEF Problem
<1>2. job.what = what /\ job.file = file /\ job.found = n
  BY DEF Job
<1> HIDE DEF p, job
<1>3. IsSequence(es) /\ Len(es) = n /\ Cardinality(Errors(es)) = e
  BY <1>1, CopiesAre
<1>4. IsSequence(ds) /\ Len(ds) \in Nat /\ Cardinality(Errors(ds)) \in Nat
  BY ErrorsAreFinite, SequenceElim DEF ShapeOf
<1>5. IsSequence(ds \o es) /\ Len(ds \o es) = Len(ds) + n
  <2> HIDE DEF es, ds
  <2> QED
    BY <1>3, <1>4, SequenceConcat
<1>6. Cardinality(Errors(ds \o es)) = Cardinality(Errors(ds)) + e
  BY <1>1, <1>4, ErrorsWithCopies
<1>7. sink' = [diagnostics |-> ds \o es, error_count |-> sink.error_count + Cardinality(Errors(es)),
               warning_count |-> sink.warning_count + (Len(es) - Cardinality(Errors(es)))]
  BY DEF EmitAll, p
<1>8. /\ sink'.diagnostics = ds \o es
      /\ sink'.error_count = sink.error_count + e
      /\ sink'.warning_count = sink.warning_count + (n - e)
  <2> HIDE DEF es, ds, e
  <2> QED
    BY <1>3, <1>7
<1> HIDE DEF es, ds
<1>9. Counted'
  <2>1. sink.error_count = Cardinality(Errors(ds)) /\ sink.warning_count = Len(ds) - sink.error_count
    BY DEF Told, Counted, ds
  <2>2. e \in Nat
    OBVIOUS
  <2> HIDE DEF e
  <2>3. sink'.error_count = Cardinality(Errors(sink'.diagnostics))
    BY <1>6, <1>8, <2>1
  <2>4. sink'.warning_count = Len(sink'.diagnostics) - sink'.error_count
    BY <1>4, <1>5, <1>8, <2>1, <2>2
  <2> QED
    BY <2>3, <2>4 DEF Counted
<1>10. IsSequence(ran) /\ Len(ran) \in Nat /\ DOMAIN ran = 1 .. Len(ran)
  BY SequenceElim DEF ShapeOf
<1>11. /\ IsSequence(ran') /\ Len(ran') = Len(ran) + 1 /\ ran'[Len(ran) + 1] = job
       /\ \A k \in 1 .. Len(ran) : ran'[k] = ran[k]
  BY <1>10, SequenceAppend DEF job
<1>12. DOMAIN ran' = 1 .. Len(ran) + 1
  BY <1>11, SequenceElim
<1>13. \A k : k \in 1 .. Len(ran) + 1 <=> k \in 1 .. Len(ran) \/ k = Len(ran) + 1
  BY <1>10
<1>14. ShapeOf(sink, ran)'
  <2>1. \A k \in 1 .. Len(ran') : ran'[k].found \in Nat
    BY <1>2, <1>11, <1>13 DEF ShapeOf
  <2> QED
    BY <1>5, <1>7, <1>8, <1>11, <2>1 DEF ShapeOf
<1>15. Listed(sink.diagnostics)' = FoundBy(ran)'
  <2>1. Listed(ds \o es) = Listed(ds) \o Copies(n, <<what, file>>)
    BY <1>1, <1>4, ListedWithCopies DEF es
  <2>2. FoundBy(ran') = FoundBy(ran) \o Copies(n, <<what, file>>)
    BY <1>2, <1>10, FoundAppend DEF job
  <2> QED
    BY <1>8, <2>1, <2>2 DEF Told, ds
<1>16. (sink.error_count = 0)' <=> AllHarmless'
  <2>1. sink.error_count \in Nat /\ e \in Nat
    BY <1>4 DEF Told, Counted, ds
  <2>2. sink'.error_count = 0 <=> sink.error_count = 0 /\ e = 0
    <3> HIDE DEF e
    <3> QED
      BY <1>8, <2>1
  <2>3. e = 0 <=> Harmless(job)
    BY <1>2 DEF Harmless
  <2>4. AllHarmless' <=> AllHarmless /\ Harmless(job)
    BY <1>10, <1>11, <1>12, <1>13 DEF AllHarmless, Harmless
  <2> QED
    BY <2>2, <2>3, <2>4 DEF Told
<1> QED
  BY <1>9, <1>14, <1>15, <1>16 DEF Told

-----------------------------------------------------------------------------
(* What does not change.                                                      *)

LEMMA SameWords ==
  ASSUME UNCHANGED args
  PROVE  /\ Words' = Words /\ InputWords' = InputWords
         /\ \A n : Swallowed(n)' <=> Swallowed(n)
BY DEF Words, InputWords, Swallowed

LEMMA SameReading ==
  ASSUME UNCHANGED <<args, opts>>
  PROVE  ReadAll' <=> ReadAll
BY DEF ReadAll, Words, InputWords, Swallowed, EndsParsing, LastOf

LEMMA SameMode ==
  ASSUME UNCHANGED opts
  PROVE  Stages' = Stages /\ (Dumps' <=> Dumps) /\ GoodInputs' = GoodInputs
BY DEF Stages, Dumps, GoodInputs

LEMMA SameRan ==
  ASSUME UNCHANGED <<opts, ran>>
  PROVE  /\ \A w : FilesOf(w)' = FilesOf(w)
         /\ \A n : MissedBefore(n)' <=> MissedBefore(n)
         /\ NothingRan' <=> NothingRan
         /\ AllHarmless' <=> AllHarmless
BY DEF FilesOf, MissedBefore, GoodInputs, NothingRan, AllHarmless, Harmless, Stages

LEMMA SameInvariant ==
  ASSUME Inv, UNCHANGED vars
  PROVE  Inv'
<1>1. UNCHANGED <<args, next, opts, pc, loaded, stage, sink, emit, success, exit, stdout, stderr, ran>>
  BY DEF vars
<1>2. /\ Shape' <=> Shape
      /\ Counted' <=> Counted
      /\ After' <=> After
      /\ Before' <=> Before
  BY <1>1 DEF Shape, ShapeOf, Counted, After, Before
<1>3. Parsed' <=> Parsed
  BY <1>1 DEF Parsed, SetBy, Words, InputWords, Swallowed, EndsParsing, LastBefore
<1>4. ReadAll' <=> ReadAll
  BY <1>1, SameReading
<1>5. /\ Loaded' <=> Loaded
      /\ AllIn' <=> AllIn
      /\ RanSoFar' <=> RanSoFar
      /\ RanAll' <=> RanAll
  BY <1>1 DEF Loaded, AllIn, RanSoFar, RanAll, MissedBefore, NothingRan, GoodInputs, FilesOf, Stages,
       Dumps, Running
<1>6. Told' <=> Told
  BY <1>1 DEF Told, Counted, AllHarmless, Harmless
<1>7. Printed' <=> Printed
  BY <1>1 DEF Printed, AllHarmless, Harmless
<1> QED
  BY <1>1, <1>2, <1>3, <1>4, <1>5, <1>6, <1>7 DEF Inv

\* The process ends: with an error of the command line, a text, or a panic.
LEMMA QuitKeeps ==
  ASSUME Inv, NEW code \in {0, 1, 2, Panicked}, NEW out, NEW err, Quit(code, out, err),
         code # Panicked => ran = <<>> /\ (code = 0 <=> Errors(err) = {})
  PROVE  Inv'
<1>1. /\ UNCHANGED <<args, next, opts, loaded, stage, sink, emit, success, ran>>
      /\ pc' = "end" /\ exit' = code /\ stderr' = err
  BY DEF Quit
<1>2. Shape'
  BY <1>1 DEF Inv, Shape, ShapeOf
<1>3. Counted'
  BY <1>1 DEF Inv, Counted
<1>4. ~After'
  BY <1>1 DEF After
<1>5. ~Before'
  BY <1>1 DEF Before
<1>6. (pc = "end" /\ exit # Panicked)' => (exit = 0 <=> Errors(stderr) = {})'
  BY <1>1 DEF Errors
<1> QED
  BY <1>1, <1>2, <1>3, <1>4, <1>5, <1>6 DEF Inv, Phases, NoExit, Panicked

\* parse_args goes on with the words after those it has read.
LEMMA ParseOnKeeps ==
  ASSUME Inv, pc = "parse", NEW o, NEW m \in {1, 2}, ParseOn(o, m),
         o = [inputs |-> o.inputs, safe_c |-> o.safe_c, emit |-> o.emit],
         IsSequence(o.inputs), o.safe_c \in Modes, o.emit \in Emits,
         next + m <= Len(args) + 1, ~Swallowed(next + m), SetBy(next + m, o)
  PROVE  Inv'
<1>1. /\ UNCHANGED <<args, pc, loaded, stage, sink, emit, success, exit, stdout, stderr, ran>>
      /\ opts' = o /\ next' = next + m
  BY DEF ParseOn
<1>2. Shape'
  BY <1>1 DEF Inv, Shape, ShapeOf
<1>3. Parsed'
  <2>2. SetBy(next, opts)' <=> SetBy(next', opts')
    BY <1>1 DEF SetBy, Words, InputWords, Swallowed, EndsParsing, LastBefore
  <2>3. Swallowed(next)' <=> Swallowed(next')
    BY <1>1 DEF Swallowed
  <2> QED
    BY <1>1, <2>2, <2>3 DEF Parsed
<1>4. Counted'
  BY <1>1 DEF Inv, Counted
<1>5. Told'
  <2>1. AllHarmless /\ AllHarmless'
    BY <1>1 DEF Inv, AllHarmless
  <2>2. Told
    BY DEF Inv, Before
  <2> QED
    BY <1>1, <1>4, <2>1, <2>2 DEF Told
<1>6. ~After'
  BY <1>1 DEF After
<1> QED
  BY <1>1, <1>2, <1>3, <1>4, <1>5, <1>6 DEF Inv

-----------------------------------------------------------------------------
(* One step of each action: the command line.                                 *)

LEMMA ParseFacts ==
  ASSUME Inv, pc = "parse"
  PROVE  /\ args \in Seq(STRING) /\ next \in Nat \ {0} /\ Len(args) \in Nat
         /\ next <= Len(args) => next \in 1 .. Len(args)
         /\ ~Swallowed(next) /\ SetBy(next, opts) /\ ran = <<>>
         /\ opts = [inputs |-> opts.inputs, safe_c |-> opts.safe_c, emit |-> opts.emit]
         /\ IsSequence(opts.inputs) /\ opts.safe_c \in Modes /\ opts.emit \in Emits
<1>1. args \in Seq(STRING) /\ next \in Nat \ {0}
  BY DEF Inv, Shape
<1>2. Len(args) \in Nat
  BY <1>1, LenProperties
<1> QED
  BY <1>1, <1>2 DEF Inv, Shape, Parsed

\* A word that is no option with a value.
LEMMA WordKeeps ==
  ASSUME Inv, pc = "parse", next <= Len(args), Arg \notin ValueFlags, ~EndsParsing(next),
         NEW o, ParseOn(o, 1),
         o = [inputs |-> o.inputs, safe_c |-> o.safe_c, emit |-> o.emit],
         o.safe_c = IF Arg \in SafeCNames THEN SafeCFlags[Arg] ELSE opts.safe_c,
         o.emit = IF Arg \in EmitNames THEN EmitFlags[Arg] ELSE opts.emit,
         o.inputs = IF Arg \in Dashed THEN opts.inputs ELSE Append(opts.inputs, Arg)
  PROVE  Inv'
<1>1. next \in 1 .. Len(args) /\ args \in Seq(STRING) /\ Len(args) \in Nat
  BY ParseFacts
<1>2. SetBy(next + 1, o)
  BY <1>1, ParseFacts, WordIsRead DEF Arg
<1>3. ~Swallowed(next + 1)
  BY <1>1, SwallowedNext DEF Arg
<1>4. o.safe_c \in Modes /\ o.emit \in Emits
  BY ParseFacts, FlagNames
<1>5. IsSequence(o.inputs)
  <2>1. IsSequence(opts.inputs)
    BY ParseFacts
  <2>2. \A x : IsSequence(Append(opts.inputs, x))
    BY <2>1, SequenceAppend
  <2> QED
    BY <2>1, <2>2
<1>6. next + 1 <= Len(args) + 1 /\ 1 \in {1, 2}
  BY <1>1
<1> QED
  BY <1>2, <1>3, <1>4, <1>5, <1>6, ParseOnKeeps

LEMMA SetSafeCKeeps == Inv /\ SetSafeC => Inv'
<1> SUFFICES ASSUME Inv, SetSafeC
             PROVE  Inv'
  OBVIOUS
<1> DEFINE o == [opts EXCEPT !.safe_c = SafeCFlags[Arg]]
<1>1. pc = "parse" /\ next <= Len(args) /\ Arg \in SafeCNames /\ ParseOn(o, 1)
  BY FlagNames DEF SetSafeC, Parsing
<1>2. Arg \in Known /\ Arg \notin EmitNames \cup HelpFlags \cup {"--explain"} \cup ValueFlags
  BY <1>1, FlagNames DEF SafeCNames, EmitNames, HelpFlags, ValueFlags, Known, OtherFlags
<1>3. ~EndsParsing(next)
  BY <1>2 DEF EndsParsing, Arg, ValueFlags
<1>4. Arg \in Dashed
  BY <1>2, ArgumentsAssumption
<1>5. /\ o = [inputs |-> o.inputs, safe_c |-> o.safe_c, emit |-> o.emit]
      /\ o.safe_c = SafeCFlags[Arg] /\ o.emit = opts.emit /\ o.inputs = opts.inputs
  <2> opts = [inputs |-> opts.inputs, safe_c |-> opts.safe_c, emit |-> opts.emit]
    BY <1>1, ParseFacts
  <2> QED
    OBVIOUS
<1> HIDE DEF o
<1> QED
  BY <1>1, <1>2, <1>3, <1>4, <1>5, WordKeeps

LEMMA SetEmitKeeps == Inv /\ SetEmit => Inv'
<1> SUFFICES ASSUME Inv, SetEmit
             PROVE  Inv'
  OBVIOUS
<1> DEFINE o == [opts EXCEPT !.emit = EmitFlags[Arg]]
<1>1. pc = "parse" /\ next <= Len(args) /\ Arg \in EmitNames /\ ParseOn(o, 1)
  BY FlagNames DEF SetEmit, Parsing
<1>2. Arg \in Known /\ Arg \notin SafeCNames \cup HelpFlags \cup {"--explain"} \cup ValueFlags
  BY <1>1, FlagNames DEF SafeCNames, EmitNames, HelpFlags, ValueFlags, Known, OtherFlags
<1>3. ~EndsParsing(next)
  BY <1>2 DEF EndsParsing, Arg, ValueFlags
<1>4. Arg \in Dashed
  BY <1>2, ArgumentsAssumption
<1>5. /\ o = [inputs |-> o.inputs, safe_c |-> o.safe_c, emit |-> o.emit]
      /\ o.emit = EmitFlags[Arg] /\ o.safe_c = opts.safe_c /\ o.inputs = opts.inputs
  <2> opts = [inputs |-> opts.inputs, safe_c |-> opts.safe_c, emit |-> opts.emit]
    BY <1>1, ParseFacts
  <2> QED
    OBVIOUS
<1> HIDE DEF o
<1> QED
  BY <1>1, <1>2, <1>3, <1>4, <1>5, WordKeeps

LEMMA SkipFlagKeeps == Inv /\ SkipFlag => Inv'
<1> SUFFICES ASSUME Inv, SkipFlag
             PROVE  Inv'
  OBVIOUS
<1>1. pc = "parse" /\ next <= Len(args) /\ Arg \in PlainFlags /\ ParseOn(opts, 1)
  BY DEF SkipFlag, Parsing
<1>2. /\ Arg \in Known
      /\ Arg \notin SafeCNames \cup EmitNames \cup HelpFlags \cup {"--explain"} \cup ValueFlags
  BY <1>1, ArgumentsAssumption, FlagNames
  DEF PlainFlags, SafeCNames, EmitNames, HelpFlags, ValueFlags, Known, OtherFlags
<1>3. ~EndsParsing(next)
  BY <1>2 DEF EndsParsing, Arg, ValueFlags
<1>4. Arg \in Dashed
  BY <1>2, ArgumentsAssumption
<1> QED
  BY <1>1, <1>2, <1>3, <1>4, ParseFacts, WordKeeps

LEMMA AddInputKeeps == Inv /\ AddInput => Inv'
<1> SUFFICES ASSUME Inv, AddInput
             PROVE  Inv'
  OBVIOUS
<1> DEFINE o == [opts EXCEPT !.inputs = Append(@, Arg)]
<1>1. pc = "parse" /\ next <= Len(args) /\ Arg \notin Dashed /\ ParseOn(o, 1)
  BY DEF AddInput
<1>2. Arg \notin Known
  BY <1>1, ArgumentsAssumption
<1>3. Arg \notin SafeCNames \cup EmitNames \cup HelpFlags \cup {"--explain"} \cup ValueFlags
  BY <1>2, FlagNames DEF Known, OtherFlags
<1>4. ~EndsParsing(next)
  BY <1>1, <1>3 DEF EndsParsing, Arg, ValueFlags
<1>5. /\ o = [inputs |-> o.inputs, safe_c |-> o.safe_c, emit |-> o.emit]
      /\ o.emit = opts.emit /\ o.safe_c = opts.safe_c /\ o.inputs = Append(opts.inputs, Arg)
  <2> opts = [inputs |-> opts.inputs, safe_c |-> opts.safe_c, emit |-> opts.emit]
    BY <1>1, ParseFacts
  <2> QED
    OBVIOUS
<1> HIDE DEF o
<1> QED
  BY <1>1, <1>3, <1>4, <1>5, WordKeeps

LEMMA TakeValueKeeps == Inv /\ TakeValue => Inv'
<1> SUFFICES ASSUME Inv, TakeValue
             PROVE  Inv'
  OBVIOUS
<1>1. /\ pc = "parse" /\ next <= Len(args) /\ Arg \in ValueFlags /\ ParseOn(opts, 2)
      /\ next < Len(args) /\ (Arg = "-D" => args[next + 1] \in GoodDefines)
  BY DEF TakeValue, Parsing, HasValue
<1>2. /\ next \in 1 .. Len(args) /\ next + 1 \in 1 .. Len(args) /\ args \in Seq(STRING)
      /\ next + 2 = (next + 1) + 1 /\ next + 2 <= Len(args) + 1 /\ 2 \in {1, 2}
  BY <1>1, ParseFacts
<1>3. Arg \in Known /\ Arg \notin SafeCNames \cup EmitNames \cup HelpFlags \cup {"--explain"}
  BY <1>1 DEF SafeCNames, EmitNames, HelpFlags, ValueFlags, Known, OtherFlags
<1>4. ~EndsParsing(next)
  BY <1>1, <1>2, <1>3 DEF EndsParsing, Arg
<1>5. Arg \in Dashed
  BY <1>3, ArgumentsAssumption
<1>6. SetBy(next + 1, opts)
  BY <1>1, <1>2, <1>3, <1>4, <1>5, ParseFacts, WordIsRead DEF Arg
<1>7. Swallowed(next + 1)
  BY <1>1, <1>2, ParseFacts, SwallowedNext DEF Arg
<1>8. SetBy((next + 1) + 1, opts)
  BY <1>2, <1>6, <1>7, ValueIsSkipped
<1>9. ~Swallowed((next + 1) + 1)
  BY <1>2, <1>7, SwallowedNext
<1> QED
  BY <1>1, <1>2, <1>8, <1>9, ParseFacts, ParseOnKeeps

\* The command line is refused, or asks for a text.
LEMMA ParseQuits ==
  ASSUME Inv, pc = "parse", NEW code \in {0, 1, 2}, NEW out, NEW err, Quit(code, out, err),
         code = 0 <=> Errors(err) = {}
  PROVE  Inv'
<1>1. ran = <<>> /\ code # Panicked
  BY ParseFacts DEF Panicked
<1> QED
  BY <1>1, QuitKeeps

LEMMA ErrorsOfOne ==
  ASSUME NEW what, NEW file
  PROVE  Errors(<<Problem(what, file, "error")>>) # {} /\ Errors(<<>>) = {}
<1> DEFINE p == Problem(what, file, "error")
<1>1. IsSequence(<<p>>) /\ Len(<<p>>) = 1 /\ <<p>>[1] = p
  BY SequenceOne
<1>2. 1 \in DOMAIN <<p>>
  BY <1>1, SequenceElim
<1>3. p.severity = "error"
  BY DEF Problem
<1>4. Errors(<<p>>) # {}
  <2> HIDE DEF p
  <2> QED
    BY <1>1, <1>2, <1>3 DEF Errors
<1>5. DOMAIN <<>> = {}
  OBVIOUS
<1> QED
  BY <1>4, <1>5 DEF Errors

LEMMA HelpKeeps == Inv /\ Help => Inv'
BY ParseQuits, ErrorsOfOne DEF Help, Parsing

LEMMA ExplainKeeps == Inv /\ Explain => Inv'
<1> SUFFICES ASSUME Inv, Explain
             PROVE  Inv'
  OBVIOUS
<1> DEFINE err == <<Problem("unknown code", "", "error")>>
<1>1. pc = "parse" /\ (Quit(0, <<"explanation">>, <<>>) \/ Quit(1, <<>>, err))
  BY DEF Explain, Parsing
<1>2. Errors(err) # {} /\ Errors(<<>>) = {}
  BY ErrorsOfOne
<1> HIDE DEF err
<1>3. CASE Quit(0, <<"explanation">>, <<>>)
  BY <1>1, <1>2, <1>3, ParseQuits
<1>4. CASE Quit(1, <<>>, err)
  BY <1>1, <1>2, <1>4, ParseQuits
<1> QED
  BY <1>1, <1>3, <1>4

LEMMA UsageKeeps ==
  ASSUME Inv, pc = "parse", NEW what, Usage(what)
  PROVE  Inv'
<1> DEFINE err == <<Problem(what, "", "error")>>
<1>1. Quit(2, <<>>, err)
  BY DEF Usage
<1>2. Errors(err) # {}
  BY ErrorsOfOne
<1> HIDE DEF err
<1> QED
  BY <1>1, <1>2, ParseQuits

LEMMA MissingValueKeeps == Inv /\ MissingValue => Inv'
BY UsageKeeps DEF MissingValue, Parsing

LEMMA BadDefineKeeps == Inv /\ BadDefine => Inv'
BY UsageKeeps DEF BadDefine, Parsing

LEMMA BadOptionKeeps == Inv /\ BadOption => Inv'
BY UsageKeeps DEF BadOption, Parsing

-----------------------------------------------------------------------------
(* One step of each action: the compilation.                                  *)

LEMMA StartCompileKeeps == Inv /\ StartCompile => Inv'
<1> SUFFICES ASSUME Inv, StartCompile
             PROVE  Inv'
  OBVIOUS
<1>1. /\ pc = "parse" /\ args # <<>> /\ next > Len(args) /\ pc' = "load" /\ next' = 1
      /\ UNCHANGED <<args, opts, loaded, stage, sink, emit, success, exit, stdout, stderr, ran>>
  BY DEF StartCompile
<1>2. /\ args \in Seq(STRING) /\ next \in Nat /\ Len(args) \in Nat /\ SetBy(next, opts)
      /\ IsSequence(opts.inputs) /\ ran = <<>> /\ loaded = <<>>
  BY <1>1, ParseFacts DEF Inv
<1>3. next = Len(args) + 1
  BY <1>1, <1>2 DEF Inv, Parsed
<1>4. \A i \in Words : i < next
  BY <1>2, <1>3 DEF Words
<1>5. ReadAll
  <2>1. Prefix(args, next - 1) = args
    BY <1>2, <1>3, SubSeqFull DEF Prefix
  <2>2. ASSUME NEW flags, NEW default
        PROVE  LastBefore(next, flags, default) = LastOf(flags, default)
    <3>1. {i \in Words : i < next /\ args[i] \in DOMAIN flags}
          = {i \in Words : args[i] \in DOMAIN flags}
      BY <1>4
    <3> QED
      BY <3>1 DEF LastBefore, LastOf
  <2> QED
    BY <1>1, <1>2, <1>4, <2>1, <2>2 DEF ReadAll, SetBy
<1>6. ReadAll'
  BY <1>1, <1>5, SameReading
<1>7. Shape'
  BY <1>1 DEF Inv, Shape, ShapeOf
<1>8. Counted' /\ Told'
  BY <1>1 DEF Inv, Before, Counted, Told, AllHarmless, Harmless
<1>9. Loaded'
  <2>1. Prefix(opts.inputs, 1 - 1) = <<>>
    BY <1>2, SubSeqEmpty DEF Prefix
  <2>2. \A at : Only(Prefix(opts.inputs, 1 - 1), at) = <<>>
    BY <2>1, OnlyOfNothing
  <2>3. 1 <= Len(opts.inputs) + 1
    BY <1>2, SequenceElim
  <2>4. MissedBefore(1)'
    <3>1. DOMAIN opts.inputs = 1 .. Len(opts.inputs) /\ Len(opts.inputs) \in Nat
      BY <1>2, SequenceElim
    <3> QED
      BY <1>1, <3>1 DEF MissedBefore
  <2>5. NothingRan
    BY <1>2, FilesOfIs, FilesInNothing DEF NothingRan
  <2>6. NothingRan'
    BY <1>1, <2>5, SameRan
  <2> QED
    BY <1>1, <1>2, <2>2, <2>3, <2>4, <2>6 DEF Loaded
<1> QED
  BY <1>1, <1>6, <1>7, <1>8, <1>9 DEF Inv, Before, After, Phases

LEMMA LoadFacts ==
  ASSUME Inv, pc = "load"
  PROVE  /\ IsSequence(opts.inputs) /\ Len(opts.inputs) \in Nat
         /\ DOMAIN opts.inputs = 1 .. Len(opts.inputs)
         /\ next \in Nat \ {0} /\ next <= Len(opts.inputs) + 1
         /\ IsSequence(loaded) /\ ShapeOf(sink, ran) /\ Told /\ Loaded /\ ReadAll
         /\ emit = <<>> /\ stage = 1
<1>1. IsSequence(opts.inputs)
  BY DEF Inv, Shape
<1> QED
  BY <1>1, SequenceElim DEF Inv, Shape, Before, Loaded

LEMMA NoSuchStage ==
  ASSUME NEW job, job.what \notin StageNames, ran' = Append(ran, job), UNCHANGED opts,
         IsSequence(ran)
  PROVE  \A s \in DOMAIN Stages : FilesOf(Stages[s])' = FilesOf(Stages[s])
<1> SUFFICES ASSUME NEW s \in DOMAIN Stages
             PROVE  FilesOf(Stages[s])' = FilesOf(Stages[s])
  OBVIOUS
<1>1. Stages[s] \in StageNames /\ Stages' = Stages
  BY StagesAre, SequenceElim, SameMode
<1>2. FilesIn(ran', Stages[s]) = FilesIn(ran, Stages[s])
  BY <1>1, FilesAppend
<1>3. FilesOf(Stages[s])' = FilesIn(ran', Stages[s])
  BY <1>1 DEF FilesOf, FilesIn
<1> QED
  BY <1>2, <1>3, FilesOfIs

LEMMA KeepsJobs ==
  ASSUME IsSequence(ran), NEW job, ran' = Append(ran, job)
  PROVE  \A k \in DOMAIN ran : k \in DOMAIN ran' /\ ran'[k] = ran[k]
<1>1. Len(ran) \in Nat /\ DOMAIN ran = 1 .. Len(ran)
  BY SequenceElim
<1>2. /\ IsSequence(ran') /\ Len(ran') = Len(ran) + 1
      /\ \A k \in 1 .. Len(ran) : ran'[k] = ran[k]
  BY SequenceAppend
<1>3. DOMAIN ran' = 1 .. Len(ran) + 1
  BY <1>1, <1>2, SequenceElim
<1> QED
  BY <1>1, <1>2, <1>3

LEMMA StillMissed ==
  ASSUME NEW n, MissedBefore(n), UNCHANGED opts, IsSequence(ran), NEW job, ran' = Append(ran, job)
  PROVE  MissedBefore(n)'
<1>1. GoodInputs' = GoodInputs
  BY SameMode
<1>2. \A k \in DOMAIN ran : k \in DOMAIN ran' /\ ran'[k] = ran[k]
  BY KeepsJobs
<1> QED
  BY <1>1, <1>2 DEF MissedBefore

LEMMA NoInputFilesKeeps == Inv /\ NoInputFiles => Inv'
<1> SUFFICES ASSUME Inv, NoInputFiles
             PROVE  Inv'
  OBVIOUS
<1> DEFINE p == Problem("no input", "", "error")
           job == Job("no input", "", 1)
<1>1. /\ pc = "load" /\ opts.inputs = <<>> /\ pc' = "finish"
      /\ sink' = EmitAll(sink, <<p>>) /\ ran' = Append(ran, job)
      /\ UNCHANGED <<args, next, opts, loaded, stage, emit, success, exit, stdout, stderr>>
  BY DEF NoInputFiles, Emit, Record
<1>2. sink' = EmitAll(sink, Copies(1, p))
  BY <1>1, OneCopy
<1>3. ShapeOf(sink, ran)' /\ Told'
  BY <1>1, <1>2, LoadFacts, EmitRecords
<1>4. IsSequence(ran) /\ Len(opts.inputs) = 0
  BY <1>1, LoadFacts, SequenceEmpty DEF ShapeOf
<1>5. ReadAll'
  BY <1>1, LoadFacts, SameReading
<1>6. next = 1
  <2>1. next \in Nat \ {0} /\ next <= Len(opts.inputs) + 1
    BY <1>1, LoadFacts
  <2> QED
    BY <1>4, <2>1
<1>7. loaded = <<>>
  <2>1. Prefix(<<>>, 1 - 1) = <<>>
    BY SequenceEmpty, SubSeqEmpty DEF Prefix
  <2> QED
    BY <1>1, <1>6, <2>1, LoadFacts, OnlyOfNothing DEF Loaded
<1>8. AllIn'
  <2>1. loaded = Only(opts.inputs, GoodInputs)
    BY <1>1, <1>7, OnlyOfNothing
  <2>2. MissedBefore(1)
    BY <1>1, <1>6, LoadFacts DEF Loaded
  <2>3. MissedBefore(1)'
    BY <1>1, <1>4, <2>2, StillMissed
  <2>4. GoodInputs' = GoodInputs
    BY <1>1, SameMode
  <2>5. Len(opts.inputs) + 1 = 1
    BY <1>4
  <2>6. MissedBefore(Len(opts.inputs) + 1)'
    BY <1>1, <2>3, <2>5
  <2> QED
    BY <1>1, <2>1, <2>4, <2>6 DEF AllIn
<1>9. RanAll'
  <2>1. job.what \notin StageNames
    BY DEF Job, StageNames
  <2> HIDE DEF job
  <2>2. \A s \in DOMAIN Stages : FilesOf(Stages[s])' = FilesOf(Stages[s])
    BY <1>1, <1>4, <2>1, NoSuchStage
  <2>3. \A s \in DOMAIN Stages : FilesOf(Stages[s]) = <<>>
    BY <1>1, LoadFacts DEF Loaded, NothingRan
  <2>4. Stages' = Stages /\ (Dumps' <=> Dumps)
    BY <1>1, SameMode
  <2> QED
    BY <1>1, <1>7, <2>2, <2>3, <2>4, LoadFacts DEF RanAll
<1>10. Shape'
  BY <1>1, <1>3 DEF Inv, Shape
<1> QED
  BY <1>1, <1>3, <1>5, <1>8, <1>9, <1>10 DEF Inv, After, Phases, Told

\* The next input, whether it can be read or not.
LEMMA InputRead ==
  ASSUME Inv, Loading
  PROVE  Only(Prefix(opts.inputs, next), GoodInputs)
         = IF Input \in Readable THEN Append(loaded, Input) ELSE loaded
<1> DEFINE n == next - 1
           p == Prefix(opts.inputs, n)
<1>1. /\ IsSequence(opts.inputs) /\ Len(opts.inputs) \in Nat
      /\ DOMAIN opts.inputs = 1 .. Len(opts.inputs)
      /\ n \in Nat /\ n + 1 = next /\ n + 1 \in 1 .. Len(opts.inputs)
  BY LoadFacts DEF Loading
<1>2. Prefix(opts.inputs, n + 1) = Append(p, opts.inputs[n + 1])
  BY <1>1, PrefixGrows DEF Prefix
<1>3. IsSequence(p) /\ Len(p) = n
  <2>1. 1 \in 1 .. Len(opts.inputs) + 1 /\ n \in 1 - 1 .. Len(opts.inputs) /\ n - 1 + 1 = n
    BY <1>1
  <2> HIDE DEF n
  <2> QED
    BY <1>1, <2>1, SequenceSub DEF Prefix
<1>4. loaded = Only(p, GoodInputs)
  BY LoadFacts DEF Loaded, Loading
<1>5. n + 1 \in GoodInputs <=> Input \in Readable
  BY <1>1 DEF GoodInputs, Input
<1> HIDE DEF p, n
<1>6. \A x : Only(Append(p, x), GoodInputs)
             = IF n + 1 \in GoodInputs THEN Append(Only(p, GoodInputs), x) ELSE Only(p, GoodInputs)
  <2>1. ASSUME NEW x
        PROVE  Only(Append(p, x), GoodInputs)
               = IF Len(p) + 1 \in GoodInputs THEN Append(Only(p, GoodInputs), x)
                 ELSE Only(p, GoodInputs)
    BY <1>3, OnlyNext
  <2> QED
    BY <1>3, <2>1
<1> QED
  BY <1>1, <1>2, <1>4, <1>5, <1>6 DEF Input

LEMMA LoadFileKeeps == Inv /\ LoadFile => Inv'
<1> SUFFICES ASSUME Inv, LoadFile
             PROVE  Inv'
  OBVIOUS
<1>1. /\ pc = "load" /\ Loading /\ Input \in Readable /\ next <= Len(opts.inputs)
      /\ loaded' = Append(loaded, Input) /\ next' = next + 1
      /\ UNCHANGED <<args, opts, pc, stage, sink, emit, success, exit, stdout, stderr, ran>>
  BY DEF LoadFile, Loading
<1>2. next \in Nat \ {0} /\ Len(opts.inputs) \in Nat /\ IsSequence(loaded) /\ (next + 1) - 1 = next
  BY <1>1, LoadFacts
<1>3. IsSequence(loaded')
  <2>1. \A x : IsSequence(Append(loaded, x))
    BY <1>2, SequenceAppend
  <2> QED
    BY <1>1, <2>1
<1>4. Shape'
  BY <1>1, <1>2, <1>3 DEF Inv, Shape, ShapeOf
<1>5. Counted' /\ Told'
  BY <1>1, LoadFacts DEF Counted, Told, AllHarmless, Harmless
<1>6. ReadAll'
  BY <1>1, LoadFacts, SameReading
<1>7. Loaded'
  <2>1. GoodInputs' = GoodInputs
    BY <1>1, SameMode
  <2>2. loaded' = Only(Prefix(opts.inputs, next), GoodInputs)
    BY <1>1, InputRead
  <2>3. MissedBefore(next + 1)
    <3>1. next \in DOMAIN opts.inputs => next \in GoodInputs
      BY <1>1 DEF GoodInputs, Input
    <3>2. \A i \in DOMAIN opts.inputs : i < next + 1 => i < next \/ i = next
      BY <1>1, <1>2, LoadFacts
    <3> QED
      BY <1>1, <3>1, <3>2, LoadFacts DEF Loaded, MissedBefore
  <2>4. MissedBefore(next)'
    BY <1>1, <2>1, <2>3 DEF MissedBefore
  <2>5. NothingRan'
    BY <1>1, LoadFacts, SameRan DEF Loaded
  <2> QED
    BY <1>1, <1>2, <2>1, <2>2, <2>4, <2>5 DEF Loaded
<1> QED
  BY <1>1, <1>4, <1>5, <1>6, <1>7, LoadFacts DEF Inv, After

LEMMA LoadFailsKeeps == Inv /\ LoadFails => Inv'
<1> SUFFICES ASSUME Inv, LoadFails
             PROVE  Inv'
  OBVIOUS
<1> DEFINE p == Problem("unreadable", Input, "error")
           job == Job("unreadable", Input, 1)
<1>1. /\ pc = "load" /\ Loading /\ Input \notin Readable /\ next <= Len(opts.inputs)
      /\ sink' = EmitAll(sink, <<p>>) /\ ran' = Append(ran, job) /\ next' = next + 1
      /\ UNCHANGED <<args, opts, pc, loaded, stage, emit, success, exit, stdout, stderr>>
  BY DEF LoadFails, Loading, Emit, Record
<1>2. sink' = EmitAll(sink, Copies(1, p))
  BY <1>1, OneCopy
<1>3. ShapeOf(sink, ran)' /\ Told'
  BY <1>1, <1>2, LoadFacts, EmitRecords
<1>4. /\ next \in Nat \ {0} /\ Len(opts.inputs) \in Nat /\ (next + 1) - 1 = next
      /\ IsSequence(ran)
  BY <1>1, LoadFacts DEF ShapeOf
<1>5. Shape'
  BY <1>1, <1>3, <1>4 DEF Inv, Shape
<1>6. ReadAll'
  BY <1>1, LoadFacts, SameReading
<1>7. job.what = "unreadable" /\ job.found = 1 /\ job.what \notin StageNames
  BY DEF Job, StageNames
<1> HIDE DEF job
<1>8. Loaded'
  <2>1. GoodInputs' = GoodInputs /\ Stages' = Stages
    BY <1>1, SameMode
  <2>2. loaded = Only(Prefix(opts.inputs, next), GoodInputs)
    BY <1>1, InputRead
  <2>4. \E k \in DOMAIN ran' : ran'[k].what = "unreadable" /\ ran'[k].found = 1
    <3>1. Len(ran) \in Nat
      BY <1>4, SequenceElim
    <3>2. IsSequence(ran') /\ Len(ran') = Len(ran) + 1 /\ ran'[Len(ran) + 1] = job
      BY <1>1, <1>4, SequenceAppend
    <3>3. Len(ran) + 1 \in DOMAIN ran'
      BY <3>1, <3>2, SequenceElim
    <3> QED
      BY <1>7, <3>2, <3>3
  <2>5. MissedBefore(next)'
    BY <1>1, <2>1, <2>4 DEF MissedBefore
  <2>6. NothingRan'
    <3>1. \A s \in DOMAIN Stages : FilesOf(Stages[s])' = FilesOf(Stages[s])
      BY <1>1, <1>4, <1>7, NoSuchStage
    <3> QED
      BY <1>1, <2>1, <3>1, LoadFacts DEF Loaded, NothingRan
  <2> QED
    BY <1>1, <1>4, <2>1, <2>2, <2>5, <2>6 DEF Loaded
<1> QED
  BY <1>1, <1>3, <1>5, <1>6, <1>8, LoadFacts DEF Inv, After, Told

\* When the loop over the inputs is over, all of them have been tried.
LEMMA AllAreIn ==
  ASSUME Inv, AllLoaded
  PROVE  AllIn
<1>1. /\ IsSequence(opts.inputs) /\ Len(opts.inputs) \in Nat /\ next \in Nat
      /\ next <= Len(opts.inputs) + 1 /\ next > Len(opts.inputs)
  BY LoadFacts DEF AllLoaded
<1>2. next = Len(opts.inputs) + 1 /\ next - 1 = Len(opts.inputs)
  BY <1>1
<1>3. Prefix(opts.inputs, next - 1) = opts.inputs
  BY <1>1, <1>2, SubSeqFull DEF Prefix, IsSequence
<1> QED
  BY <1>2, <1>3, LoadFacts DEF AllLoaded, Loaded, AllIn

LEMMA StartStagesKeeps == Inv /\ StartStages => Inv'
<1> SUFFICES ASSUME Inv, StartStages
             PROVE  Inv'
  OBVIOUS
<1>1. /\ pc = "load" /\ AllLoaded /\ (Stages # <<>> \/ loaded = <<>>)
      /\ pc' = "stages" /\ next' = 1
      /\ UNCHANGED <<args, opts, loaded, stage, sink, emit, success, exit, stdout, stderr, ran>>
  BY DEF StartStages, AllLoaded
<1>2. Shape'
  BY <1>1 DEF Inv, Shape, ShapeOf
<1>3. Counted' /\ Told'
  BY <1>1, LoadFacts DEF Counted, Told, AllHarmless, Harmless
<1>4. ReadAll'
  BY <1>1, LoadFacts, SameReading
<1>5. AllIn'
  BY <1>1, AllAreIn DEF AllIn, MissedBefore, GoodInputs
<1>6. IsSequence(loaded) /\ Len(loaded) \in Nat /\ (loaded = <<>> <=> Len(loaded) = 0)
  BY <1>1, LoadFacts, SequenceElim
<1>7. RanSoFar'
  <2>1. Stages' = Stages /\ (Dumps' <=> Dumps)
    BY <1>1, SameMode
  <2>2. Prefix(loaded, 1 - 1) = <<>>
    BY SubSeqEmpty DEF Prefix
  <2>3. ASSUME Running'
        PROVE  stage' \in DOMAIN Stages
    <3>1. Len(loaded) # 0
      BY <1>1, <1>6, <2>3 DEF Running
    <3>2. Stages # <<>> /\ IsSequence(Stages)
      BY <1>1, <1>6, <3>1, StagesAre
    <3>3. 1 \in DOMAIN Stages
      BY <3>2, SequenceElim
    <3> QED
      BY <1>1, <3>3, LoadFacts
  <2>4. \A s \in DOMAIN Stages : s \in Nat \ {0}
    BY StagesAre, SequenceElim
  <2>5. \A s \in DOMAIN Stages : FilesOf(Stages[s])' = <<>>
    BY <1>1, <2>1, LoadFacts DEF Loaded, NothingRan, FilesOf
  <2>6. stage' = 1 /\ emit' = <<>> /\ next' = 1 /\ loaded' = loaded
    BY <1>1, LoadFacts
  <2>7. \A s \in DOMAIN Stages : ~ (s < 1)
    BY <2>4
  <2>8. 1 <= Len(loaded) + 1
    BY <1>6
  <2> QED
    BY <2>1, <2>2, <2>3, <2>5, <2>6, <2>7, <2>8 DEF RanSoFar
<1> QED
  BY <1>1, <1>2, <1>3, <1>4, <1>5, <1>7 DEF Inv, After, Phases

LEMMA NotImplementedKeeps == Inv /\ NotImplemented => Inv'
<1> SUFFICES ASSUME Inv, NotImplemented
             PROVE  Inv'
  OBVIOUS
<1> DEFINE p == Problem("not implemented", "", "error")
           job == Job("not implemented", "", 1)
<1>1. /\ pc = "load" /\ AllLoaded /\ Stages = <<>> /\ pc' = "finish"
      /\ sink' = EmitAll(sink, <<p>>) /\ ran' = Append(ran, job)
      /\ UNCHANGED <<args, next, opts, loaded, stage, emit, success, exit, stdout, stderr>>
  BY DEF NotImplemented, AllLoaded, Emit, Record
<1>2. sink' = EmitAll(sink, Copies(1, p))
  BY <1>1, OneCopy
<1>3. ShapeOf(sink, ran)' /\ Told'
  BY <1>1, <1>2, LoadFacts, EmitRecords
<1>4. IsSequence(ran)
  BY <1>1, LoadFacts DEF ShapeOf
<1>5. Shape'
  BY <1>1, <1>3 DEF Inv, Shape
<1>6. ReadAll'
  BY <1>1, LoadFacts, SameReading
<1>7. AllIn'
  <2> DEFINE n == Len(opts.inputs) + 1
  <2>1. AllIn /\ GoodInputs' = GoodInputs
    BY <1>1, AllAreIn, SameMode
  <2>2. MissedBefore(n)
    BY <2>1 DEF AllIn
  <2>3. \A k \in DOMAIN ran : k \in DOMAIN ran' /\ ran'[k] = ran[k]
    BY <1>1, <1>4, KeepsJobs
  <2>4. MissedBefore(n)'
    BY <1>1, <2>1, <2>2, <2>3 DEF MissedBefore
  <2> QED
    BY <1>1, <2>1, <2>4 DEF AllIn
<1>8. RanAll'
  <2>1. Stages' = <<>> /\ (Dumps' <=> Dumps)
    BY <1>1, SameMode
  <2>2. ~Dumps
    <3> SUFFICES ASSUME Dumps
                 PROVE  FALSE
      OBVIOUS
    <3>1. Stages # <<>>
      BY SequenceOne, SequenceTwo DEF Stages, Dumps
    <3> QED
      BY <1>1, <3>1
  <2>3. DOMAIN Stages' = {}
    BY <2>1
  <2>4. emit' = <<>>
    BY <1>1, LoadFacts
  <2> QED
    BY <2>1, <2>2, <2>3, <2>4 DEF RanAll
<1> QED
  BY <1>1, <1>3, <1>5, <1>6, <1>7, <1>8 DEF Inv, After, Phases, Told

LEMMA StageFacts ==
  ASSUME Inv, pc = "stages"
  PROVE  /\ ShapeOf(sink, ran) /\ Told /\ ReadAll /\ AllIn /\ RanSoFar
         /\ next \in Nat \ {0} /\ stage \in Nat \ {0}
         /\ IsSequence(loaded) /\ Len(loaded) \in Nat /\ DOMAIN loaded = 1 .. Len(loaded)
         /\ IsSequence(emit) /\ IsSequence(ran)
         /\ IsSequence(Stages) /\ Len(Stages) \in Nat /\ DOMAIN Stages = 1 .. Len(Stages)
<1>1. IsSequence(loaded)
  BY DEF Inv, Shape
<1> QED
  BY <1>1, SequenceElim, StagesAre DEF Inv, Shape, ShapeOf, Before

LEMMA StagesDoneKeeps == Inv /\ StagesDone => Inv'
<1> SUFFICES ASSUME Inv, StagesDone
             PROVE  Inv'
  OBVIOUS
<1>1. /\ pc = "stages" /\ next > Len(loaded) /\ pc' = "finish"
      /\ UNCHANGED <<args, next, opts, loaded, stage, sink, emit, success, exit, stdout, stderr, ran>>
  BY DEF StagesDone
<1>2. Shape'
  BY <1>1 DEF Inv, Shape, ShapeOf
<1>3. Counted' /\ Told'
  BY <1>1, StageFacts DEF Counted, Told, AllHarmless, Harmless
<1>4. ReadAll'
  BY <1>1, StageFacts, SameReading
<1>5. AllIn'
  BY <1>1, StageFacts DEF AllIn, MissedBefore, GoodInputs
<1>6. RanAll'
  <2>1. next = Len(loaded) + 1 /\ next - 1 = Len(loaded) /\ stage = 1
    BY <1>1, StageFacts DEF RanSoFar
  <2>2. Prefix(loaded, Len(loaded)) = loaded
    BY <1>1, StageFacts, SubSeqFull DEF Prefix, IsSequence
  <2>3. \A s \in DOMAIN Stages : ~ (s < stage)
    BY <1>1, <2>1, StageFacts
  <2>4. \A s \in DOMAIN Stages : FilesOf(Stages[s]) = loaded
    BY <1>1, <2>1, <2>2, <2>3, StageFacts DEF RanSoFar
  <2>5. emit = IF Dumps THEN loaded ELSE <<>>
    BY <1>1, <2>1, <2>2, StageFacts DEF RanSoFar
  <2>6. RanAll
    BY <2>4, <2>5 DEF RanAll
  <2> QED
    BY <1>1, <2>6 DEF RanAll, FilesOf, Stages, Dumps
<1> QED
  BY <1>1, <1>2, <1>3, <1>4, <1>5, <1>6 DEF Inv, After, Phases

\* The stage that runs next, and the file it runs on.
LEMMA RunningFacts ==
  ASSUME Inv, Running
  PROVE  /\ next \in 1 .. Len(loaded) /\ next \in Nat \ {0} /\ Len(loaded) \in Nat
         /\ stage \in 1 .. Len(Stages) /\ Len(Stages) \in Nat /\ DOMAIN Stages = 1 .. Len(Stages)
         /\ Prefix(loaded, next) = Append(Prefix(loaded, next - 1), File)
         /\ IsSequence(Prefix(loaded, next))
<1>1. pc = "stages" /\ next <= Len(loaded)
  BY DEF Running
<1>2. /\ next \in Nat \ {0} /\ Len(loaded) \in Nat /\ IsSequence(loaded)
      /\ Len(Stages) \in Nat /\ DOMAIN Stages = 1 .. Len(Stages)
  BY <1>1, StageFacts
<1>3. stage \in DOMAIN Stages
  BY <1>1, StageFacts DEF RanSoFar
<1> DEFINE m == next - 1
<1>4. m \in Nat /\ m + 1 = next /\ m + 1 \in 1 .. Len(loaded)
  BY <1>1, <1>2
<1>5. Prefix(loaded, m + 1) = Append(Prefix(loaded, m), loaded[m + 1])
  BY <1>2, <1>4, PrefixGrows DEF Prefix
<1>6. IsSequence(Prefix(loaded, next))
  <2>1. 1 \in 1 .. Len(loaded) + 1 /\ next \in 1 - 1 .. Len(loaded)
    BY <1>1, <1>2
  <2> QED
    BY <1>2, <2>1, SequenceSub DEF Prefix
<1> QED
  BY <1>1, <1>2, <1>3, <1>4, <1>5, <1>6 DEF File

\* One more file has gone through one more stage.
LEMMA FileGoesOn ==
  ASSUME Inv, Running, UNCHANGED opts, NEW n, ran' = Append(ran, Job(Stage, File, n))
  PROVE  \A s \in DOMAIN Stages :
           FilesOf(Stages[s])' = Prefix(loaded, IF s <= stage THEN next ELSE next - 1)
<1> DEFINE job == Job(Stage, File, n)
<1>1. job.what = Stages[stage] /\ job.file = File
  BY DEF Job, Stage
<1>2. ran' = Append(ran, job)
  OBVIOUS
<1> HIDE DEF job
<1> SUFFICES ASSUME NEW s \in DOMAIN Stages
             PROVE  FilesOf(Stages[s])' = Prefix(loaded, IF s <= stage THEN next ELSE next - 1)
  OBVIOUS
<1>3. Stages' = Stages
  BY SameMode
<1>4. s \in 1 .. Len(Stages) /\ stage \in 1 .. Len(Stages) /\ Len(Stages) \in Nat
  BY RunningFacts
<1>5. Stages[s] = Stages[stage] <=> s = stage
  BY <1>4, StagesAre
<1>6. FilesOf(Stages[s])' = FilesIn(ran', Stages[s])
  BY <1>3 DEF FilesOf, FilesIn
<1>7. pc = "stages" /\ IsSequence(ran)
  BY StageFacts DEF Running
<1>8. FilesIn(ran', Stages[s]) = IF s = stage THEN Append(FilesIn(ran, Stages[s]), File)
                                ELSE FilesIn(ran, Stages[s])
  BY <1>1, <1>2, <1>5, <1>7, FilesAppend
<1>9. FilesIn(ran, Stages[s]) = Prefix(loaded, IF s < stage THEN next ELSE next - 1)
  BY <1>7, StageFacts, FilesOfIs DEF RanSoFar
<1>10. CASE s = stage
  <2>1. FilesIn(ran, Stages[s]) = Prefix(loaded, next - 1)
    BY <1>4, <1>9, <1>10
  <2> QED
    BY <1>4, <1>6, <1>8, <1>10, <2>1, RunningFacts
<1>11. CASE s # stage
  <2>1. s <= stage <=> s < stage
    BY <1>4, <1>11
  <2> QED
    BY <1>6, <1>8, <1>9, <1>11, <2>1
<1> QED
  BY <1>10, <1>11

LEMMA RunStageKeeps == Inv /\ RunStage => Inv'
<1> SUFFICES ASSUME Inv, RunStage
             PROVE  Inv'
  OBVIOUS
<1>1. Running /\ pc = "stages"
  BY DEF RunStage, Running
<1>2. PICK n \in 0 .. MaxFound :
        /\ RunOn(n)
        /\ stage' = IF LastOfFile THEN 1 ELSE stage + 1
        /\ next' = IF LastOfFile THEN next + 1 ELSE next
  BY DEF RunStage
<1> DEFINE job == Job(Stage, File, n)
<1>3. /\ sink' = EmitAll(sink, Copies(n, Problem(Stage, File, Severity)))
      /\ ran' = Append(ran, job)
      /\ emit' = IF Dumps /\ LastOfFile THEN Append(emit, File) ELSE emit
      /\ UNCHANGED <<args, opts, pc, loaded, success, exit, stdout, stderr>>
  BY <1>2 DEF RunOn, Emit, Record, Reported, Copies
<1>4. n \in Nat
  BY ArgumentsAssumption
<1>5. ShapeOf(sink, ran)' /\ Told'
  <2>1. Severity = IF Stage = "borrowck" /\ opts.safe_c = "warn" THEN "warning" ELSE "error"
    BY DEF Severity
  <2> QED
    BY <1>1, <1>3, <1>4, <2>1, StageFacts, EmitRecords
<1>6. ReadAll'
  BY <1>1, <1>3, StageFacts, SameReading
<1>7. AllIn'
  <2> DEFINE last == Len(opts.inputs) + 1
  <2>1. AllIn /\ GoodInputs' = GoodInputs /\ IsSequence(ran)
    BY <1>1, <1>3, StageFacts, SameMode
  <2>2. \A k \in DOMAIN ran : k \in DOMAIN ran' /\ ran'[k] = ran[k]
    BY <1>3, <2>1, KeepsJobs
  <2>3. MissedBefore(last)'
    BY <1>3, <2>1, <2>2 DEF AllIn, MissedBefore
  <2> QED
    BY <1>3, <2>1, <2>3 DEF AllIn
<1>8. /\ next \in 1 .. Len(loaded) /\ next \in Nat \ {0} /\ Len(loaded) \in Nat
      /\ stage \in 1 .. Len(Stages) /\ Len(Stages) \in Nat /\ DOMAIN Stages = 1 .. Len(Stages)
      /\ Prefix(loaded, next) = Append(Prefix(loaded, next - 1), File)
      /\ IsSequence(Prefix(loaded, next))
  BY <1>1, RunningFacts
<1>9. Stages' = Stages /\ (Dumps' <=> Dumps) /\ loaded' = loaded
  BY <1>3, SameMode
<1>10. emit = IF Dumps THEN Prefix(loaded, next - 1) ELSE <<>>
  BY <1>1, StageFacts DEF RanSoFar
<1>11. emit' = IF Dumps THEN Prefix(loaded, IF LastOfFile THEN next ELSE next - 1) ELSE <<>>
  BY <1>3, <1>8, <1>10
<1>12. \A s \in DOMAIN Stages :
         FilesOf(Stages[s])' = Prefix(loaded, IF s <= stage THEN next ELSE next - 1)
  BY <1>1, <1>3, FileGoesOn
<1>13. Shape'
  <2>1. IsSequence(emit')
    <3>1. IsSequence(emit)
      BY <1>1, StageFacts
    <3>2. \A x : IsSequence(Append(emit, x))
      BY <3>1, SequenceAppend
    <3> QED
      BY <1>3, <3>1, <3>2
  <2>2. next' \in Nat \ {0} /\ stage' \in Nat \ {0}
    BY <1>2, <1>8
  <2> QED
    BY <1>3, <1>5, <2>1, <2>2 DEF Inv, Shape
<1>14. RanSoFar'
  <2>1. CASE LastOfFile
    <3>1. stage' = 1 /\ next' = next + 1 /\ stage = Len(Stages)
      BY <1>2, <2>1 DEF LastOfFile
    <3>2. next' - 1 = next /\ next' <= Len(loaded) + 1
      BY <1>8, <3>1
    <3>3. \A s \in DOMAIN Stages : s <= stage /\ ~ (s < stage')
      BY <1>8, <3>1
    <3>4. stage' \in DOMAIN Stages
      BY <1>8, <3>1
    <3> QED
      BY <1>9, <1>11, <1>12, <2>1, <3>1, <3>2, <3>3, <3>4 DEF RanSoFar
  <2>2. CASE ~LastOfFile
    <3>1. stage' = stage + 1 /\ stage # Len(Stages)
      BY <1>2, <2>2 DEF LastOfFile
    <3>2. next' = next
      BY <1>2, <2>2
    <3>3. next' <= Len(loaded) /\ next' # Len(loaded) + 1 /\ next' <= Len(loaded) + 1
      BY <1>8, <3>2
    <3> DEFINE last == Len(Stages)
    <3>4. stage \in 1 .. last /\ last \in Nat /\ stage # last /\ DOMAIN Stages = 1 .. last
      BY <1>8, <3>1
    <3> HIDE DEF last
    <3>5. \A s \in DOMAIN Stages : s <= stage <=> s < stage'
      BY <3>1, <3>4
    <3>6. stage' \in DOMAIN Stages
      BY <3>1, <3>4
    <3> QED
      BY <1>9, <1>11, <1>12, <2>2, <3>2, <3>3, <3>5, <3>6 DEF RanSoFar
  <2> QED
    BY <2>1, <2>2
<1> QED
  BY <1>1, <1>3, <1>5, <1>6, <1>7, <1>13, <1>14 DEF Inv, After, Phases, Told

LEMMA MirPanicsKeeps == Inv /\ MirPanics => Inv'
BY QuitKeeps DEF MirPanics

LEMMA SameCompilation ==
  ASSUME UNCHANGED <<args, opts, loaded, emit, ran>>
  PROVE  (AllIn' <=> AllIn) /\ (RanAll' <=> RanAll)
BY DEF AllIn, RanAll, MissedBefore, GoodInputs, FilesOf, Stages, Dumps

\* finish() reads the counter, and only then empties the sink.
LEMMA FinishCompileKeeps == Inv /\ FinishCompile => Inv'
<1> SUFFICES ASSUME Inv, FinishCompile
             PROVE  Inv'
  OBVIOUS
<1>1. /\ pc = "finish" /\ pc' = "exit" /\ success' = (sink.error_count = 0)
      /\ stderr' = sink.diagnostics /\ sink' = EmptySink
      /\ UNCHANGED <<args, next, opts, loaded, stage, emit, exit, ran>>
  BY DEF FinishCompile, Finish
<1>2. Told /\ ReadAll /\ AllIn /\ RanAll /\ ShapeOf(sink, ran)
  BY <1>1 DEF Inv, Before, Shape
<1>3. ReadAll' /\ AllIn' /\ RanAll'
  BY <1>1, <1>2, SameReading, SameCompilation
<1>4. Counted'
  <2>1. Cardinality(Errors(<<>>)) = 0
    BY ErrorsOfOne, FS_EmptySet
  <2>2. Len(<<>>) = 0
    BY SequenceEmpty
  <2> QED
    BY <1>1, <2>1, <2>2 DEF Counted, EmptySink
<1>5. Shape'
  <2>1. ShapeOf(sink, ran)'
    BY <1>1, <1>2, SequenceEmpty DEF ShapeOf, EmptySink
  <2>2. success' \in BOOLEAN
    BY <1>1
  <2> QED
    BY <1>1, <2>1, <2>2 DEF Inv, Shape
<1>6. Printed'
  <2>1. Listed(stderr)' = FoundBy(ran)'
    BY <1>1, <1>2 DEF Told
  <2>2. success' <=> AllHarmless'
    BY <1>1, <1>2, SameRan DEF Told
  <2>3. sink.error_count = 0 <=> Errors(sink.diagnostics) = {}
    BY <1>2, ErrorsAreFinite DEF Told, Counted, ShapeOf
  <2>4. success' <=> Errors(stderr)' = {}
    BY <1>1, <2>3
  <2> QED
    BY <2>1, <2>2, <2>4 DEF Printed
<1> QED
  BY <1>1, <1>3, <1>4, <1>5, <1>6 DEF Inv, Before, Phases

LEMMA ExitKeeps == Inv /\ Exit => Inv'
<1> SUFFICES ASSUME Inv, Exit
             PROVE  Inv'
  OBVIOUS
<1>1. /\ pc = "exit" /\ pc' = "end" /\ exit' = IF success THEN 0 ELSE 1
      /\ UNCHANGED <<args, next, opts, loaded, stage, sink, emit, success, stdout, stderr, ran>>
  BY DEF Exit
<1>2. AllIn /\ RanAll /\ Printed
  BY <1>1 DEF Inv, After
<1>3. Shape'
  BY <1>1 DEF Inv, Shape, ShapeOf
<1>4. Counted'
  BY <1>1 DEF Inv, Counted
<1>5. AllIn' /\ RanAll'
  BY <1>1, <1>2, SameCompilation
<1>6. Printed'
  <2>1. AllHarmless' <=> AllHarmless
    BY <1>1, SameRan
  <2>2. Listed(stderr)' = FoundBy(ran)'
    BY <1>1, <1>2 DEF Printed
  <2>3. Errors(stderr)' = Errors(stderr)
    BY <1>1
  <2> QED
    BY <1>1, <1>2, <2>1, <2>2, <2>3 DEF Printed
<1>7. exit' \in {0, 1} /\ (exit' = 0 <=> Errors(stderr') = {})
  BY <1>1, <1>2 DEF Printed
<1> QED
  BY <1>1, <1>3, <1>4, <1>5, <1>6, <1>7 DEF Inv, Before, Phases, NoExit, Panicked

-----------------------------------------------------------------------------
(* The invariant.                                                             *)

LEMMA InitInv == Init => Inv
<1> SUFFICES ASSUME Init
             PROVE  Inv
  OBVIOUS
<1>1. args \in Seq(STRING) /\ Len(args) \in Nat
  BY ArgumentsAssumption, LenProperties DEF Init
<1>2. /\ next = 1 /\ opts = [inputs |-> <<>>, safe_c |-> "off", emit |-> "none"]
      /\ pc = "parse" /\ loaded = <<>> /\ stage = 1 /\ sink = EmptySink /\ emit = <<>>
      /\ success = FALSE /\ exit = NoExit /\ ran = <<>>
  BY DEF Init
<1>3. Shape
  <2>1. ShapeOf(sink, ran)
    BY <1>2, SequenceEmpty DEF ShapeOf, EmptySink
  <2>2. /\ opts = [inputs |-> opts.inputs, safe_c |-> opts.safe_c, emit |-> opts.emit]
        /\ opts.inputs = <<>> /\ opts.safe_c \in Modes /\ opts.emit \in Emits
    BY <1>2 DEF Modes, Emits
  <2>3. IsSequence(opts.inputs) /\ IsSequence(loaded) /\ IsSequence(emit)
    BY <1>2, <2>2, SequenceEmpty
  <2>4. next = 1 /\ stage = 1
    BY <1>2
  <2>5. next \in Nat \ {0} /\ stage \in Nat \ {0}
    BY <2>4
  <2>6. success \in BOOLEAN
    BY DEF Init
  <2> QED
    BY <1>1, <2>1, <2>2, <2>3, <2>5, <2>6 DEF Shape
<1>4. Counted
  <2>1. Cardinality(Errors(<<>>)) = 0
    BY ErrorsOfOne, FS_EmptySet
  <2>2. Len(<<>>) = 0
    BY SequenceEmpty
  <2> QED
    BY <1>2, <2>1, <2>2 DEF Counted, EmptySink
<1>5. Told
  <2>1. AllHarmless
    BY <1>2 DEF AllHarmless
  <2> QED
    BY <1>2, <1>4, <2>1, FoundNothing DEF Told, EmptySink
<1>6. Parsed
  <2>1. Words \subseteq Nat \ {0}
    BY <1>1 DEF Words
  <2>2. \A i \in Words : ~ (i < 1)
    BY <2>1
  <2>3. \A flags, default : LastBefore(1, flags, default) = default
    BY <2>2 DEF LastBefore
  <2>4. Only(Prefix(args, 1 - 1), InputWords) = <<>>
    <3>1. Prefix(args, 1 - 1) = <<>>
      BY <1>1, SubSeqEmpty DEF Prefix
    <3> QED
      BY <3>1, OnlyOfNothing
  <2>5. ~Swallowed(1)
    BY DEF Swallowed
  <2> QED
    BY <1>1, <1>2, <2>2, <2>3, <2>4, <2>5 DEF Parsed, SetBy
<1> QED
  BY <1>2, <1>3, <1>4, <1>5, <1>6 DEF Inv, Phases, After, NoExit

LEMMA StepKeepsInv == Inv /\ [Next]_vars => Inv'
<1> SUFFICES ASSUME Inv, [Next]_vars
             PROVE  Inv'
  OBVIOUS
<1>1. CASE Help \/ Explain \/ MissingValue \/ BadDefine \/ BadOption
  BY <1>1, HelpKeeps, ExplainKeeps, MissingValueKeeps, BadDefineKeeps, BadOptionKeeps
<1>2. CASE SetSafeC \/ SetEmit \/ SkipFlag \/ TakeValue \/ AddInput \/ StartCompile
  BY <1>2, SetSafeCKeeps, SetEmitKeeps, SkipFlagKeeps, TakeValueKeeps, AddInputKeeps,
     StartCompileKeeps
<1>3. CASE NoInputFiles \/ LoadFile \/ LoadFails \/ StartStages \/ NotImplemented
  BY <1>3, NoInputFilesKeeps, LoadFileKeeps, LoadFailsKeeps, StartStagesKeeps, NotImplementedKeeps
<1>4. CASE RunStage \/ MirPanics \/ StagesDone \/ FinishCompile \/ Exit
  BY <1>4, RunStageKeeps, MirPanicsKeeps, StagesDoneKeeps, FinishCompileKeeps, ExitKeeps
<1>5. CASE Ended \/ UNCHANGED vars
  BY <1>5, SameInvariant DEF Ended
<1> QED
  BY <1>1, <1>2, <1>3, <1>4, <1>5 DEF Next

\* Every state of every run satisfies the inductive invariant: the loops of
\* parse_args and compile() have done what they were to do with all they have
\* passed, the sink's counters count what is in it, and what is in it is what
\* was found.
THEOREM Invariance == Spec => []Inv
<1>1. Init => Inv
  BY InitInv
<1>2. Inv /\ [Next]_vars => Inv'
  BY StepKeepsInv
<1> QED
  BY <1>1, <1>2, PTL DEF Spec

LEMMA InvTypeOK == Inv => TypeOK
BY DEF Inv, TypeOK, Phases, Counted, RanSoFar, Running

\* The counters of the sink are the numbers of the errors and warnings in it
\* from the first call of emit() to the drain, the process has an exit code
\* exactly when it has ended, and compile() never asks for a stage past the last.
THEOREM TypeCorrectness == Spec => []TypeOK
BY Invariance, InvTypeOK, PTL

LEMMA InvCommandLineIsRead == Inv => CommandLineIsRead
BY DEF Inv, CommandLineIsRead, ReadAll, InputWords

\* Whatever the command line, what compile() is given is what its words say:
\* parse_args takes no value of an option for an option or an input, and every
\* word that is neither is an input, in order.
THEOREM ReadsTheCommandLine == Spec => []CommandLineIsRead
BY Invariance, InvCommandLineIsRead, PTL

LEMMA CompiledIsAfter ==
  ASSUME Inv, Compiled
  PROVE  AllIn /\ RanAll /\ Printed /\ Shape
BY DEF Inv, Compiled, After

LEMMA InvFailuresStayLocal == Inv => FailuresStayLocal
<1> SUFFICES ASSUME Inv, Compiled
             PROVE  LET good == Only(opts.inputs, {i \in DOMAIN opts.inputs : opts.inputs[i] \in Readable})
                    IN  /\ \A s \in DOMAIN Stages : FilesOf(Stages[s]) = good
                        /\ emit = IF Dumps THEN good ELSE <<>>
  BY DEF FailuresStayLocal
<1> QED
  BY CompiledIsAfter DEF AllIn, RanAll, GoodInputs

\* For every set of inputs and whatever the stages find in them, every input
\* that can be read goes through all the stages of the mode, in the order of the
\* command line, and is dumped if dumps were asked for.
THEOREM OneFileDoesNotStopTheOthers == Spec => []FailuresStayLocal
BY Invariance, InvFailuresStayLocal, PTL

LEMMA InvNothingIsLost == Inv => NothingIsLost
<1> SUFFICES ASSUME Inv
             PROVE  NothingIsLost
  OBVIOUS
<1>1. ASSUME Compiled
      PROVE  Listed(stderr) = FoundBy(ran)
  BY <1>1, CompiledIsAfter DEF Printed
<1>2. pc = "end" /\ exit # Panicked => (exit = 0 <=> Errors(stderr) = {})
  BY DEF Inv
<1> QED
  BY <1>1, <1>2 DEF NothingIsLost, Listed, FoundBy

\* The sink loses, repeats and reorders nothing of what compile() emits into it,
\* and run_with exits with 0 exactly when no error was printed: finish() reads
\* the counter before it drains the sink.
THEOREM PrintsWhatWasFound == Spec => []NothingIsLost
BY Invariance, InvNothingIsLost, PTL

LEMMA InvSafeCModesDecide == Inv => SafeCModesDecide
<1> SUFFICES ASSUME Inv, Compiled
             PROVE  /\ success /\ opts.safe_c = "error" /\ ~Dumps =>
                         FilesOf("borrowck") = opts.inputs /\ \A k \in DOMAIN ran : ran[k].found = 0
                    /\ ~success /\ opts.safe_c = "warn" =>
                         \E k \in DOMAIN ran : ran[k].found > 0 /\ ran[k].what # "borrowck"
  BY DEF SafeCModesDecide
<1>1. AllIn /\ RanAll /\ Printed /\ Shape
  BY CompiledIsAfter
<1>2. ASSUME success, opts.safe_c = "error", ~Dumps
      PROVE  FilesOf("borrowck") = opts.inputs /\ \A k \in DOMAIN ran : ran[k].found = 0
  <2>1. \A k \in DOMAIN ran : ran[k].found = 0
    BY <1>1, <1>2 DEF Printed, AllHarmless, Harmless
  <2>2. IsSequence(opts.inputs) /\ Len(opts.inputs) \in Nat
        /\ DOMAIN opts.inputs = 1 .. Len(opts.inputs)
    BY <1>1, SequenceElim DEF Shape
  <2>3. ASSUME NEW i \in 1 .. Len(opts.inputs), i \notin GoodInputs
        PROVE  FALSE
    <3>1. i < Len(opts.inputs) + 1 /\ i \in DOMAIN opts.inputs \ GoodInputs
      BY <2>2, <2>3
    <3>2. \E k \in DOMAIN ran : ran[k].found = 1
      BY <1>1, <3>1 DEF AllIn, MissedBefore
    <3> QED
      BY <2>1, <3>2
  <2>4. loaded = opts.inputs
    BY <1>1, <2>2, <2>3, OnlyAll DEF AllIn
  <2>5. 5 \in DOMAIN Stages /\ Stages[5] = "borrowck"
    BY <1>2, SafeCStages
  <2>6. FilesOf("borrowck") = loaded
    BY <1>1, <2>5 DEF RanAll
  <2> QED
    BY <2>1, <2>4, <2>6
<1>3. ASSUME ~success, opts.safe_c = "warn"
      PROVE  \E k \in DOMAIN ran : ran[k].found > 0 /\ ran[k].what # "borrowck"
  <2>1. PICK k \in DOMAIN ran : ~Harmless(ran[k])
    BY <1>1, <1>3 DEF Printed, AllHarmless
  <2>2. ran[k].found \in Nat
    BY <1>1, <2>1, SequenceElim DEF Shape, ShapeOf
  <2> QED
    BY <1>3, <2>1, <2>2 DEF Harmless
<1> QED
  BY <1>2, <1>3

\* For every command line with -fsafe-c: a compilation that succeeds, and dumps
\* no intermediate form, has borrow-checked every input, and nothing was wrong
\* with any; with -fsafe-c=warn no report of the borrow checker fails a build.
THEOREM SafeCDecides == Spec => []SafeCModesDecide
BY Invariance, InvSafeCModesDecide, PTL
=============================================================================
