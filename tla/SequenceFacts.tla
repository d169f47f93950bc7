--------------------------- MODULE SequenceFacts ---------------------------
(***************************************************************************)
(* What the proofs need to know of sequences whose elements are of no      *)
(* particular set: the theorems of SequenceTheorems without the set.  And  *)
(* of sets of numbers: what is least, what is greatest, and induction.     *)
(***************************************************************************)
EXTENDS Integers, SequencesExt, SequenceTheorems, WellFoundedInduction, TLAPS

IsSequence(s) == s \in Seq(Range(s))

\* A sequence over some set is one, and its elements are found by index.
LEMMA SequenceIntro ==
  ASSUME NEW S, NEW s \in Seq(S)
  PROVE  IsSequence(s)
BY SeqOfRange DEF IsSequence

LEMMA SequenceElim ==
  ASSUME NEW s, IsSequence(s)
  PROVE  /\ Len(s) \in Nat /\ DOMAIN s = 1 .. Len(s)
         /\ s = [i \in 1 .. Len(s) |-> s[i]]
         /\ \A x : x \in Range(s) <=> \E i \in 1 .. Len(s) : s[i] = x
         /\ s = <<>> <=> Len(s) = 0
<1>1. Len(s) \in Nat /\ DOMAIN s = 1 .. Len(s) /\ s \in [1 .. Len(s) -> Range(s)]
  BY LenProperties DEF IsSequence
<1>2. s = <<>> <=> Len(s) = 0
  BY EmptySeq DEF IsSequence
<1> QED
  BY <1>1, <1>2 DEF Range

\* A function on an initial segment is a sequence.
LEMMA SequenceByIndex ==
  ASSUME NEW n \in Nat, NEW f, f = [i \in 1 .. n |-> f[i]]
  PROVE  IsSequence(f) /\ Len(f) = n
<1>1. f \in [1 .. n -> Range(f)]
  BY DEF Range
<1>2. f \in Seq(Range(f))
  BY <1>1, SeqDef
<1> QED
  BY <1>1, <1>2, LenProperties DEF IsSequence

LEMMA SequenceOver ==
  ASSUME NEW S, NEW s, IsSequence(s), \A i \in 1 .. Len(s) : s[i] \in S
  PROVE  s \in Seq(S)
<1>1. Range(s) \subseteq S
  BY SequenceElim
<1> QED
  BY <1>1, SeqMonotonic DEF IsSequence

LEMMA SequencesEqual ==
  ASSUME NEW s, IsSequence(s), NEW t, IsSequence(t),
         Len(s) = Len(t), \A i \in 1 .. Len(s) : s[i] = t[i]
  PROVE  s = t
BY SequenceElim

LEMMA SequenceEmpty == IsSequence(<<>>) /\ Len(<<>>) = 0
BY EmptySeq, SequenceIntro

LEMMA SequenceOne ==
  ASSUME NEW x
  PROVE  IsSequence(<<x>>) /\ Len(<<x>>) = 1 /\ <<x>>[1] = x /\ <<x>> # <<>>
<1>1. <<x>> \in Seq({x})
  OBVIOUS
<1> QED
  BY <1>1, SequenceIntro

LEMMA SequenceTwo ==
  ASSUME NEW x, NEW y
  PROVE  /\ IsSequence(<<x, y>>) /\ Len(<<x, y>>) = 2
         /\ <<x, y>>[1] = x /\ <<x, y>>[2] = y
<1>1. <<x, y>> \in Seq({x, y})
  OBVIOUS
<1> QED
  BY <1>1, SequenceIntro

LEMMA SequenceThree ==
  ASSUME NEW a, NEW b, NEW c
  PROVE  LET s == <<a, b, c>>
         IN /\ IsSequence(s) /\ Len(s) = 3
            /\ s[1] = a /\ s[2] = b /\ s[3] = c
<1> DEFINE s == <<a, b, c>>
<1>1. s \in Seq({a, b, c}) /\ Len(s) = 3
  OBVIOUS
<1>2. /\ s[1] = a /\ s[2] = b /\ s[3] = c
  OBVIOUS
<1> QED
  BY <1>1, <1>2, SequenceIntro

LEMMA SequenceFour ==
  ASSUME NEW a, NEW b, NEW c, NEW d
  PROVE  LET s == <<a, b, c, d>>
         IN /\ IsSequence(s) /\ Len(s) = 4
            /\ s[1] = a /\ s[2] = b /\ s[3] = c /\ s[4] = d
<1> DEFINE s == <<a, b, c, d>>
<1>1. s \in Seq({a, b, c, d}) /\ Len(s) = 4
  OBVIOUS
<1>2. /\ s[1] = a /\ s[2] = b /\ s[3] = c /\ s[4] = d
  OBVIOUS
<1> QED
  BY <1>1, <1>2, SequenceIntro

LEMMA SequenceEight ==
  ASSUME NEW a, NEW b, NEW c, NEW d, NEW e, NEW f, NEW g, NEW h
  PROVE  LET s == <<a, b, c, d, e, f, g, h>>
         IN /\ IsSequence(s) /\ Len(s) = 8
            /\ s[1] = a /\ s[2] = b /\ s[3] = c /\ s[4] = d
            /\ s[5] = e /\ s[6] = f /\ s[7] = g /\ s[8] = h
<1> DEFINE s == <<a, b, c, d, e, f, g, h>>
<1>1. s \in Seq({a, b, c, d, e, f, g, h}) /\ Len(s) = 8
  OBVIOUS
<1>2. /\ s[1] = a /\ s[2] = b /\ s[3] = c /\ s[4] = d
      /\ s[5] = e /\ s[6] = f /\ s[7] = g /\ s[8] = h
  OBVIOUS
<1> QED
  BY <1>1, <1>2, SequenceIntro

LEMMA SequenceTen ==
  ASSUME NEW a, NEW b, NEW c, NEW d, NEW e, NEW f, NEW g, NEW h, NEW i, NEW j
  PROVE  LET s == <<a, b, c, d, e, f, g, h, i, j>>
         IN /\ IsSequence(s) /\ Len(s) = 10
            /\ s[1] = a /\ s[2] = b /\ s[3] = c /\ s[4] = d
            /\ s[5] = e /\ s[6] = f /\ s[7] = g /\ s[8] = h
            /\ s[9] = i /\ s[10] = j
<1> DEFINE s == <<a, b, c, d, e, f, g, h, i, j>>
<1>1. s \in Seq({a, b, c, d, e, f, g, h, i, j}) /\ Len(s) = 10
  OBVIOUS
<1>2. /\ s[1] = a /\ s[2] = b /\ s[3] = c /\ s[4] = d
      /\ s[5] = e /\ s[6] = f /\ s[7] = g /\ s[8] = h
      /\ s[9] = i /\ s[10] = j
  OBVIOUS
<1> QED
  BY <1>1, <1>2, SequenceIntro

LEMMA SequenceConcat ==
  ASSUME NEW s, IsSequence(s), NEW t, IsSequence(t)
  PROVE  /\ IsSequence(s \o t)
         /\ Len(s \o t) = Len(s) + Len(t)
         /\ \A i \in 1 .. Len(s) : (s \o t)[i] = s[i]
         /\ \A i \in 1 .. Len(t) : (s \o t)[Len(s) + i] = t[i]
<1> DEFINE T == Range(s) \cup Range(t)
<1>1. s \in Seq(T) /\ t \in Seq(T)
  BY SeqMonotonic DEF IsSequence
<1>2. /\ s \o t \in Seq(T)
      /\ Len(s \o t) = Len(s) + Len(t)
      /\ \A i \in 1 .. Len(s) + Len(t) :
           (s \o t)[i] = IF i <= Len(s) THEN s[i] ELSE t[i - Len(s)]
  BY <1>1, ConcatProperties
<1>3. Len(s) \in Nat /\ Len(t) \in Nat
  BY SequenceElim
<1>4. IsSequence(s \o t)
  BY <1>2, SequenceIntro
<1>5. ASSUME NEW i \in 1 .. Len(t)
      PROVE  (s \o t)[Len(s) + i] = t[i]
  <2>1. Len(s) + i \in 1 .. Len(s) + Len(t) /\ ~ (Len(s) + i <= Len(s)) /\ Len(s) + i - Len(s) = i
    BY <1>3
  <2> QED
    BY <2>1, <1>2
<1> QED
  BY <1>2, <1>3, <1>4, <1>5

LEMMA SequenceAppend ==
  ASSUME NEW s, IsSequence(s), NEW x
  PROVE  /\ IsSequence(Append(s, x))
         /\ Len(Append(s, x)) = Len(s) + 1
         /\ \A i \in 1 .. Len(s) : Append(s, x)[i] = s[i]
         /\ Append(s, x)[Len(s) + 1] = x
         /\ Append(s, x) = s \o <<x>>
<1> DEFINE T == Range(s) \cup {x}
<1>1. s \in Seq(T) /\ x \in T
  BY SeqMonotonic DEF IsSequence
<1>2. /\ Append(s, x) \in Seq(T)
      /\ Len(Append(s, x)) = Len(s) + 1
      /\ \A i \in 1 .. Len(s) : Append(s, x)[i] = s[i]
      /\ Append(s, x)[Len(s) + 1] = x
  BY <1>1, AppendProperties
<1>3. Append(s, x) = s \o <<x>>
  BY <1>1, AppendIsConcat
<1>4. IsSequence(Append(s, x))
  BY <1>2, SequenceIntro
<1> QED
  BY <1>2, <1>3, <1>4

LEMMA SequenceTail ==
  ASSUME NEW s, IsSequence(s), s # <<>>
  PROVE  /\ IsSequence(Tail(s))
         /\ Len(Tail(s)) = Len(s) - 1
         /\ \A i \in 1 .. Len(s) - 1 : Tail(s)[i] = s[i + 1]
         /\ Head(s) = s[1]
         /\ Len(s) \in Nat \ {0}
<1>1. /\ Tail(s) \in Seq(Range(s)) /\ Len(Tail(s)) = Len(s) - 1
      /\ \A i \in 1 .. Len(Tail(s)) : Tail(s)[i] = s[i + 1]
  BY HeadTailProperties DEF IsSequence
<1>2. IsSequence(Tail(s))
  BY <1>1, SequenceIntro
<1>3. Len(s) \in Nat \ {0} /\ Head(s) = s[1]
  BY EmptySeq DEF IsSequence
<1> QED
  BY <1>1, <1>2, <1>3

LEMMA SequenceSub ==
  ASSUME NEW s, IsSequence(s), NEW m \in 1 .. Len(s) + 1, NEW n \in m - 1 .. Len(s)
  PROVE  /\ IsSequence(SubSeq(s, m, n))
         /\ Len(SubSeq(s, m, n)) = n - m + 1
         /\ \A i \in 1 .. n - m + 1 : SubSeq(s, m, n)[i] = s[m + i - 1]
<1>1. Len(s) \in Nat /\ m \in Int /\ n \in Int /\ \A i \in m .. n : s[i] \in Range(s)
  <2>1. Len(s) \in Nat /\ DOMAIN s = 1 .. Len(s)
    BY SequenceElim
  <2> QED
    BY <2>1 DEF Range
<1>2. /\ SubSeq(s, m, n) \in Seq(Range(s))
      /\ Len(SubSeq(s, m, n)) = IF m <= n THEN n - m + 1 ELSE 0
      /\ \A i \in 1 .. n - m + 1 : SubSeq(s, m, n)[i] = s[m + i - 1]
  BY <1>1, SubSeqProperties
<1>3. IsSequence(SubSeq(s, m, n))
  BY <1>2, SequenceIntro
<1> QED
  BY <1>1, <1>2, <1>3

\* What is left of a sequence without its first n elements.
LEMMA SequenceDrop ==
  ASSUME NEW s, IsSequence(s), NEW n \in Nat, n <= Len(s)
  PROVE  /\ IsSequence(SubSeq(s, n + 1, Len(s)))
         /\ Len(SubSeq(s, n + 1, Len(s))) = Len(s) - n
         /\ \A i \in 1 .. Len(s) - n : SubSeq(s, n + 1, Len(s))[i] = s[n + i]
<1>1. Len(s) \in Nat
  BY SequenceElim
<1>2. n + 1 \in 1 .. Len(s) + 1 /\ Len(s) \in (n + 1) - 1 .. Len(s)
  BY <1>1
<1>3. /\ IsSequence(SubSeq(s, n + 1, Len(s)))
      /\ Len(SubSeq(s, n + 1, Len(s))) = Len(s) - (n + 1) + 1
      /\ \A i \in 1 .. Len(s) - (n + 1) + 1 : SubSeq(s, n + 1, Len(s))[i] = s[(n + 1) + i - 1]
  BY <1>2, SequenceSub
<1>4. Len(s) - (n + 1) + 1 = Len(s) - n /\ \A i \in 1 .. Len(s) - n : (n + 1) + i - 1 = n + i
  BY <1>1
<1> QED
  BY <1>3, <1>4

\* A sequence that is not empty has a last element and what is before it.
LEMMA SequenceFront ==
  ASSUME NEW s, IsSequence(s), s # <<>>
  PROVE  /\ IsSequence(Front(s))
         /\ Len(Front(s)) = Len(s) - 1
         /\ \A i \in 1 .. Len(s) - 1 : Front(s)[i] = s[i]
         /\ Last(s) = s[Len(s)]
         /\ Len(s) \in Nat \ {0}
<1>1. Len(s) \in Nat \ {0}
  BY SequenceTail
<1>2. /\ IsSequence(SubSeq(s, 1, Len(s) - 1))
      /\ Len(SubSeq(s, 1, Len(s) - 1)) = Len(s) - 1
      /\ \A i \in 1 .. Len(s) - 1 : SubSeq(s, 1, Len(s) - 1)[i] = s[i]
  <2>1. 1 \in 1 .. Len(s) + 1 /\ Len(s) - 1 \in 1 - 1 .. Len(s) /\ Len(s) - 1 - 1 + 1 = Len(s) - 1
    BY <1>1
  <2>2. /\ IsSequence(SubSeq(s, 1, Len(s) - 1))
        /\ Len(SubSeq(s, 1, Len(s) - 1)) = Len(s) - 1 - 1 + 1
        /\ \A i \in 1 .. Len(s) - 1 - 1 + 1 : SubSeq(s, 1, Len(s) - 1)[i] = s[1 + i - 1]
    BY <2>1, SequenceSub
  <2> QED
    BY <1>1, <2>1, <2>2
<1> QED
  BY <1>1, <1>2 DEF Front, Last

LEMMA SequenceReverse ==
  ASSUME NEW s, IsSequence(s)
  PROVE  /\ IsSequence(Reverse(s))
         /\ Len(Reverse(s)) = Len(s)
         /\ \A i \in 1 .. Len(s) : Reverse(s)[i] = s[Len(s) + 1 - i]
<1>1. Len(s) \in Nat
  BY SequenceElim
<1>2. Reverse(s) = [i \in 1 .. Len(s) |-> Reverse(s)[i]]
  BY DEF Reverse
<1>3. IsSequence(Reverse(s)) /\ Len(Reverse(s)) = Len(s)
  BY <1>1, <1>2, SequenceByIndex
<1>4. \A i \in 1 .. Len(s) : Reverse(s)[i] = s[Len(s) + 1 - i]
  BY <1>1 DEF Reverse
<1> QED
  BY <1>3, <1>4
LEMMA ConsTail ==
  ASSUME NEW s, IsSequence(s), 1 <= Len(s), NEW x
  PROVE  <<x>> \o s = <<x, s[1]>> \o Tail(s)
<1>1. Len(s) \in Nat /\ s # <<>>
  BY SequenceElim
<1>2. /\ IsSequence(Tail(s)) /\ Len(Tail(s)) = Len(s) - 1
      /\ \A i \in 1 .. Len(s) - 1 : Tail(s)[i] = s[i + 1]
  BY <1>1, SequenceTail
<1> DEFINE a == <<x>> \o s
           b == <<x, s[1]>> \o Tail(s)
<1>3. IsSequence(a) /\ Len(a) = 1 + Len(s) /\ a[1] = x /\ \A i \in 1 .. Len(s) : a[1 + i] = s[i]
  <2>1. IsSequence(<<x>>) /\ Len(<<x>>) = 1 /\ <<x>>[1] = x /\ 1 \in 1 .. 1
    BY SequenceOne
  <2> QED
    BY <2>1, SequenceConcat
<1>4. /\ IsSequence(b) /\ Len(b) = 2 + (Len(s) - 1) /\ b[1] = x /\ b[2] = s[1]
      /\ \A i \in 1 .. Len(s) - 1 : b[2 + i] = s[i + 1]
  <2> DEFINE u == <<x, s[1]>>
             v == Tail(s)
  <2>1. IsSequence(u) /\ Len(u) = 2 /\ u[1] = x /\ u[2] = s[1] /\ 1 \in 1 .. 2 /\ 2 \in 1 .. 2
    BY SequenceTwo
  <2>2. b = u \o v
    OBVIOUS
  <2>3. IsSequence(v) /\ Len(v) = Len(s) - 1 /\ \A i \in 1 .. Len(s) - 1 : v[i] = s[i + 1]
    BY <1>2
  <2> HIDE DEF u, v, b
  <2>4. /\ IsSequence(u \o v) /\ Len(u \o v) = Len(u) + Len(v)
        /\ \A i \in 1 .. Len(u) : (u \o v)[i] = u[i]
        /\ \A i \in 1 .. Len(v) : (u \o v)[Len(u) + i] = v[i]
    <3>1. IsSequence(u) /\ IsSequence(v)
      BY <2>1, <2>3
    <3> QED
      BY <3>1, SequenceConcat
  <2> QED
    BY <2>1, <2>2, <2>3, <2>4
<1> SUFFICES a = b
  OBVIOUS
<1> HIDE DEF a, b
<1>5. ASSUME NEW i \in 1 .. 1 + Len(s)
      PROVE  a[i] = b[i]
  <2>1. CASE i = 1
    BY <1>3, <1>4, <2>1
  <2>2. CASE i = 2
    <3>1. 1 \in 1 .. Len(s) /\ 1 + 1 = 2
      BY <1>1
    <3> QED
      BY <1>3, <1>4, <2>2, <3>1
  <2>3. CASE i > 2
    <3>1. i - 1 \in 1 .. Len(s) /\ 1 + (i - 1) = i /\ i - 2 \in 1 .. Len(s) - 1 /\ 2 + (i - 2) = i
          /\ i - 2 + 1 = i - 1
      BY <1>1, <2>3
    <3>2. a[i] = s[i - 1]
      BY <1>3, <3>1
    <3>3. b[i] = s[i - 1]
      BY <1>4, <3>1
    <3> QED
      BY <3>2, <3>3
  <2>4. i = 1 \/ i = 2 \/ i > 2
    BY <1>1
  <2> QED
    BY <2>1, <2>2, <2>3, <2>4
<1>6. Len(a) = Len(b) /\ Len(a) = 1 + Len(s)
  BY <1>1, <1>3, <1>4
<1> QED
  BY <1>3, <1>4, <1>5, <1>6, SequencesEqual

\* Concatenations of one and two values.
LEMMA ConcatOnes ==
  ASSUME NEW x, NEW y
  PROVE  <<x>> \o <<y>> = <<x, y>>
<1> DEFINE a == <<x>>
           b == <<y>>
           c == <<x, y>>
<1>1. /\ IsSequence(a) /\ Len(a) = 1 /\ a[1] = x /\ IsSequence(b) /\ Len(b) = 1 /\ b[1] = y
      /\ IsSequence(c) /\ Len(c) = 2 /\ c[1] = x /\ c[2] = y
  BY SequenceOne, SequenceTwo
<1> SUFFICES a \o b = c
  OBVIOUS
<1> HIDE DEF a, b, c
<1>2. /\ IsSequence(a \o b) /\ Len(a \o b) = Len(a) + Len(b)
      /\ \A i \in 1 .. Len(a) : (a \o b)[i] = a[i]
      /\ \A i \in 1 .. Len(b) : (a \o b)[Len(a) + i] = b[i]
  <2>1. IsSequence(a) /\ IsSequence(b)
    BY <1>1
  <2> QED
    BY <2>1, SequenceConcat
<1>3. 1 \in 1 .. 1 /\ 1 + 1 = 2 /\ \A i \in 1 .. 2 : i = 1 \/ i = 2
  OBVIOUS
<1>4. Len(a \o b) = 2 /\ (a \o b)[1] = x /\ (a \o b)[2] = y
  BY <1>1, <1>2, <1>3
<1>5. \A i \in 1 .. 2 : (a \o b)[i] = c[i]
  BY <1>1, <1>3, <1>4
<1> QED
  BY <1>1, <1>2, <1>4, <1>5, SequencesEqual

LEMMA ConcatThree ==
  ASSUME NEW x, NEW y, NEW z
  PROVE  <<x, y>> \o <<z>> = <<x, y, z>> /\ <<x>> \o <<y, z>> = <<x, y, z>>
<1> DEFINE a == <<x>>
           b == <<y, z>>
           c == <<x, y>>
           d == <<z>>
           e == <<x, y, z>>
<1>1. /\ IsSequence(a) /\ Len(a) = 1 /\ a[1] = x
      /\ IsSequence(b) /\ Len(b) = 2 /\ b[1] = y /\ b[2] = z
      /\ IsSequence(c) /\ Len(c) = 2 /\ c[1] = x /\ c[2] = y
      /\ IsSequence(d) /\ Len(d) = 1 /\ d[1] = z
  BY SequenceOne, SequenceTwo
<1>2. IsSequence(e) /\ Len(e) = 3 /\ e[1] = x /\ e[2] = y /\ e[3] = z
  <2>1. e \in Seq({x, y, z}) /\ Len(e) = 3 /\ e[1] = x /\ e[2] = y /\ e[3] = z
    OBVIOUS
  <2> QED
    BY <2>1, SequenceIntro
<1> SUFFICES a \o b = e /\ c \o d = e
  OBVIOUS
<1> HIDE DEF a, b, c, d, e
<1>3. /\ 1 \in 1 .. 1 /\ 1 \in 1 .. 2 /\ 2 \in 1 .. 2 /\ 1 + 1 = 2 /\ 1 + 2 = 3 /\ 2 + 1 = 3
      /\ \A i \in 1 .. 3 : i = 1 \/ i = 2 \/ i = 3
  OBVIOUS
<1>4. a \o b = e
  <2>1. /\ IsSequence(a \o b) /\ Len(a \o b) = Len(a) + Len(b)
        /\ \A i \in 1 .. Len(a) : (a \o b)[i] = a[i]
        /\ \A i \in 1 .. Len(b) : (a \o b)[Len(a) + i] = b[i]
    <3>1. IsSequence(a) /\ IsSequence(b)
      BY <1>1, <1>2
    <3> QED
      BY <3>1, SequenceConcat
  <2>2. Len(a \o b) = 3 /\ (a \o b)[1] = x /\ (a \o b)[2] = y /\ (a \o b)[3] = z
    BY <1>1, <1>3, <2>1
  <2>3. \A i \in 1 .. 3 : (a \o b)[i] = e[i]
    BY <1>2, <1>3, <2>2
  <2> QED
    BY <1>2, <2>1, <2>2, <2>3, SequencesEqual
<1>5. c \o d = e
  <2>1. /\ IsSequence(c \o d) /\ Len(c \o d) = Len(c) + Len(d)
        /\ \A i \in 1 .. Len(c) : (c \o d)[i] = c[i]
        /\ \A i \in 1 .. Len(d) : (c \o d)[Len(c) + i] = d[i]
    <3>1. IsSequence(c) /\ IsSequence(d)
      BY <1>1, <1>2
    <3> QED
      BY <3>1, SequenceConcat
  <2>2. Len(c \o d) = 3 /\ (c \o d)[1] = x /\ (c \o d)[2] = y /\ (c \o d)[3] = z
    BY <1>1, <1>3, <2>1
  <2>3. \A i \in 1 .. 3 : (c \o d)[i] = e[i]
    BY <1>2, <1>3, <2>2
  <2> QED
    BY <1>2, <2>1, <2>2, <2>3, SequencesEqual
<1> QED
  BY <1>4, <1>5

\* One more element of a sequence.
LEMMA PrefixGrows ==
  ASSUME NEW s, IsSequence(s), NEW n \in Nat, n + 1 \in 1 .. Len(s)
  PROVE  SubSeq(s, 1, n + 1) = Append(SubSeq(s, 1, n), s[n + 1])
<1>1. Len(s) \in Nat
  BY SequenceElim
<1> DEFINE p == SubSeq(s, 1, n)
           q == SubSeq(s, 1, n + 1)
<1>2. IsSequence(p) /\ Len(p) = n /\ \A i \in 1 .. n : p[i] = s[i]
  BY <1>1, SequenceSub
<1>3. IsSequence(q) /\ Len(q) = n + 1 /\ \A i \in 1 .. n + 1 : q[i] = s[i]
  BY <1>1, SequenceSub
<1> HIDE DEF p, q
<1>4. /\ IsSequence(Append(p, s[n + 1])) /\ Len(Append(p, s[n + 1])) = n + 1
      /\ Append(p, s[n + 1])[n + 1] = s[n + 1]
      /\ \A i \in 1 .. n : Append(p, s[n + 1])[i] = p[i]
  BY <1>2, SequenceAppend, ZenonT(40)
<1>5. \A i \in 1 .. n + 1 : q[i] = Append(p, s[n + 1])[i]
  BY <1>2, <1>3, <1>4
<1>6. q = Append(p, s[n + 1])
  BY <1>3, <1>4, <1>5, SequencesEqual
<1> QED
  BY <1>6 DEF p, q

-----------------------------------------------------------------------------
(* Least and greatest numbers.                                                *)

\* A set of natural numbers has a least element.
LEMMA MinIsLeast ==
  ASSUME NEW S \in SUBSET Nat, S # {}
  PROVE  Min(S) \in S /\ \A y \in S : Min(S) <= y
<1>1. PICK x \in S : \A y \in S : ~ (<<y, x>> \in OpToRel(<, Nat))
  BY NatLessThanWellFounded, WFMin
<1>2. ASSUME NEW y \in S PROVE x <= y
  <2>1. y \in Nat /\ x \in Nat
    OBVIOUS
  <2>2. ~ (<<y, x>> \in OpToRel(<, Nat))
    BY <1>1
  <2>3. ~ (y < x)
    BY <2>1, <2>2 DEF OpToRel
  <2> QED
    BY <2>1, <2>3
<1> QED
  BY <1>2 DEF Min

\* A set of numbers that has a bound has a greatest element.
LEMMA MaxIsGreatest ==
  ASSUME NEW n \in Nat, NEW S \in SUBSET (0 .. n), S # {}
  PROVE  Max(S) \in S /\ \A y \in S : y <= Max(S)
<1> DEFINE T == {n - y : y \in S}
<1>1. T \in SUBSET Nat /\ T # {}
  <2>1. \A y \in S : y \in 0 .. n /\ n - y \in Nat
    OBVIOUS
  <2>2. T \in SUBSET Nat
    BY <2>1
  <2> QED
    BY <2>2
<1>2. PICK m \in T : \A y \in T : m <= y
  <2> HIDE DEF T
  <2> QED
    BY <1>1, MinIsLeast
<1>3. PICK x \in S : m = n - x
  BY <1>2
<1>4. ASSUME NEW y \in S
      PROVE  x >= y
  <2>1. n - y \in T
    OBVIOUS
  <2>2. n - x <= n - y /\ x \in Nat /\ y \in Nat
    BY <1>2, <1>3, <2>1
  <2> QED
    BY <2>2
<1>5. Max(S) \in S /\ \A y \in S : Max(S) >= y
  BY <1>4 DEF Max
<1> DEFINE z == Max(S)
<1>6. z \in S /\ \A y \in S : z >= y
  BY <1>5
<1> HIDE DEF z
<1>7. ASSUME NEW y \in S
      PROVE  y <= z
  <2>1. y \in 0 .. n /\ z \in 0 .. n /\ z >= y
    BY <1>6
  <2> QED
    BY <2>1
<1> QED
  BY <1>6, <1>7 DEF z

-----------------------------------------------------------------------------
(* Induction, and what a recursive function over a sequence computes.         *)

\* A set that has 0 and with every number its successor has all of them.
LEMMA SetInduction ==
  ASSUME NEW S, 0 \in S, \A n \in Nat : n \in S => n + 1 \in S
  PROVE  Nat \subseteq S
<1> DEFINE T == Nat \ S
<1> SUFFICES ASSUME T # {}
             PROVE  FALSE
  OBVIOUS
<1>1. PICK x \in T : \A y \in T : ~ (<<y, x>> \in OpToRel(<, Nat))
  <2>1. T \subseteq Nat
    OBVIOUS
  <2> HIDE DEF T
  <2> QED
    BY <2>1, NatLessThanWellFounded, WFMin
<1>2. \A y \in T : ~ (y < x)
  BY <1>1 DEF OpToRel
<1>3. x - 1 \in Nat /\ x - 1 < x /\ x - 1 + 1 = x
  OBVIOUS
<1> QED
  BY <1>2, <1>3

FlatBy(f, ss, n) == f = [i \in 1 .. n |-> IF i = 1 THEN ss[i] ELSE f[i - 1] \o ss[i]]

LEMMA FlatAt ==
  ASSUME NEW f, NEW ss, NEW n \in Nat, FlatBy(f, ss, n)
  PROVE  /\ n # 0 => f[1] = ss[1]
         /\ \A i \in Nat \ {0} : i + 1 <= n => f[i + 1] = f[i] \o ss[i + 1]
<1> DEFINE F(i) == IF i = 1 THEN ss[i] ELSE f[i - 1] \o ss[i]
<1>1. f = [i \in 1 .. n |-> F(i)]
  BY DEF FlatBy
<1>2. \A i \in 1 .. n : f[i] = F(i)
  <2> HIDE DEF F
  <2> QED
    BY <1>1
<1>3. ASSUME n # 0
      PROVE  f[1] = ss[1]
  BY <1>2, <1>3
<1>4. ASSUME NEW i \in Nat \ {0}, i + 1 <= n
      PROVE  f[i + 1] = f[i] \o ss[i + 1]
  <2>1. i + 1 \in 1 .. n /\ i + 1 # 1 /\ (i + 1) - 1 = i
    BY <1>4
  <2>2. f[i + 1] = F(i + 1)
    <3> HIDE DEF F
    <3> QED
      BY <1>2, <2>1
  <2> QED
    BY <2>1, <2>2
<1> QED
  BY <1>3, <1>4

LEMMA FlatExists ==
  ASSUME NEW ss
  PROVE  \A n \in Nat : \E f : FlatBy(f, ss, n)
<1> DEFINE S == {n \in Nat : \E f : FlatBy(f, ss, n)}
<1>1. 0 \in S
  <2>1. FlatBy([i \in 1 .. 0 |-> ss], ss, 0)
    BY DEF FlatBy
  <2> QED
    BY <2>1
<1>2. ASSUME NEW n \in Nat, n \in S
      PROVE  n + 1 \in S
  <2>1. PICK f : FlatBy(f, ss, n)
    BY <1>2
  <2> DEFINE x == IF n = 0 THEN ss[1] ELSE f[n] \o ss[n + 1]
             g == [i \in 1 .. n + 1 |-> IF i = n + 1 THEN x ELSE f[i]]
  <2>2. g[n + 1] = x /\ \A i \in 1 .. n : g[i] = f[i]
    <3> HIDE DEF x
    <3> QED
      OBVIOUS
  <2>3. ASSUME NEW i \in 1 .. n + 1
        PROVE  g[i] = IF i = 1 THEN ss[i] ELSE g[i - 1] \o ss[i]
    <3>1. CASE i = n + 1 /\ n = 0
      BY <3>1, <2>2
    <3>2. CASE i = n + 1 /\ n # 0
      <4>1. i # 1 /\ i - 1 = n /\ g[n] = f[n]
        BY <3>2, <2>2
      <4> QED
        BY <4>1, <2>2, <3>2
    <3>3. CASE i \in 1 .. n
      <4>1. f[i] = IF i = 1 THEN ss[i] ELSE f[i - 1] \o ss[i]
        BY <2>1, <3>3 DEF FlatBy
      <4>2. i # 1 => g[i - 1] = f[i - 1]
        BY <3>3, <2>2
      <4> QED
        BY <4>1, <4>2, <2>2, <3>3
    <3> QED
      BY <3>1, <3>2, <3>3
  <2>4. FlatBy(g, ss, n + 1)
    <3>1. g = [i \in 1 .. n + 1 |-> g[i]]
      OBVIOUS
    <3> HIDE DEF g
    <3> QED
      BY <3>1, <2>3 DEF FlatBy
  <2> QED
    BY <2>4
<1>3. Nat \subseteq S
  <2> HIDE DEF S
  <2> QED
    BY <1>1, <1>2, SetInduction
<1> QED
  BY <1>3

LEMMA FlatAgree ==
  ASSUME NEW ss, NEW tt, NEW m \in Nat, NEW n \in Nat, m <= n,
         NEW f, FlatBy(f, ss, m), NEW g, FlatBy(g, tt, n),
         \A i \in 1 .. m : ss[i] = tt[i]
  PROVE  \A i \in 1 .. m : f[i] = g[i]
<1> DEFINE S == {i \in Nat : i \in 1 .. m => f[i] = g[i]}
<1>1. 0 \in S
  OBVIOUS
<1>2. ASSUME NEW i \in Nat, i \in S
      PROVE  i + 1 \in S
  <2> SUFFICES ASSUME i + 1 \in 1 .. m
               PROVE  f[i + 1] = g[i + 1]
    OBVIOUS
  <2>1. ss[i + 1] = tt[i + 1] /\ i + 1 <= n /\ i + 1 <= m /\ m # 0 /\ n # 0
    OBVIOUS
  <2>2. CASE i = 0
    <3>1. f[1] = ss[1] /\ g[1] = tt[1]
      BY <2>1, FlatAt, ZenonT(40)
    <3> QED
      BY <2>1, <2>2, <3>1
  <2>3. CASE i # 0
    <3>1. f[i] = g[i]
      BY <1>2, <2>3
    <3> i \in Nat \ {0}
      BY <2>3
    <3>2. f[i + 1] = f[i] \o ss[i + 1]
      <4>1. \A j \in Nat \ {0} : j + 1 <= m => f[j + 1] = f[j] \o ss[j + 1]
        BY FlatAt
      <4> QED
        BY <2>1, <4>1
    <3>3. g[i + 1] = g[i] \o tt[i + 1]
      <4>1. \A j \in Nat \ {0} : j + 1 <= n => g[j + 1] = g[j] \o tt[j + 1]
        BY FlatAt
      <4> QED
        BY <2>1, <4>1
    <3> QED
      BY <2>1, <3>1, <3>2, <3>3
  <2> QED
    BY <2>2, <2>3
<1>3. Nat \subseteq S
  <2> HIDE DEF S
  <2> QED
    BY <1>1, <1>2, SetInduction
<1> QED
  BY <1>3

LEMMA FlattenIsFlat ==
  ASSUME NEW ss, IsSequence(ss), ss # <<>>
  PROVE  \E f : FlatBy(f, ss, Len(ss)) /\ FlattenSeq(ss) = f[Len(ss)]
<1> DEFINE h == CHOOSE f : FlatBy(f, ss, Len(ss))
<1>1. Len(ss) \in Nat /\ Len(ss) # 0
  BY SequenceElim
<1>2. FlatBy(h, ss, Len(ss))
  BY <1>1, FlatExists
<1>3. FlattenSeq(ss) = h[Len(ss)]
  BY <1>1 DEF FlattenSeq, FlatBy
<1> QED
  BY <1>2, <1>3

\* Flattening goes on where it was when a sequence is added.
LEMMA FlattenAppend ==
  ASSUME NEW ss, IsSequence(ss), NEW s, IsSequence(s)
  PROVE  FlattenSeq(Append(ss, s)) = FlattenSeq(ss) \o s
<1> DEFINE n == Len(ss)
           tt == Append(ss, s)
<1>1. n \in Nat /\ (ss = <<>> <=> n = 0)
  BY SequenceElim
<1>2. IsSequence(tt) /\ Len(tt) = n + 1 /\ tt[n + 1] = s /\ \A i \in 1 .. n : tt[i] = ss[i]
  BY SequenceAppend
<1> HIDE DEF tt, n
<1>3. tt # <<>>
  BY <1>1, <1>2, SequenceEmpty
<1>4. PICK g : FlatBy(g, tt, n + 1) /\ FlattenSeq(tt) = g[n + 1]
  BY <1>2, <1>3, FlattenIsFlat
<1>5. CASE ss = <<>>
  <2>1. g[1] = tt[1]
    BY <1>1, <1>4, n + 1 \in Nat /\ n + 1 # 0, FlatAt
  <2>2. FlattenSeq(tt) = s
    BY <1>1, <1>2, <1>4, <1>5, <2>1
  <2>3. FlattenSeq(ss) = <<>>
    BY <1>1, <1>5 DEF FlattenSeq, n
  <2>4. <<>> \o s = s
    BY ConcatEmptySeq DEF IsSequence
  <2> QED
    BY <2>2, <2>3, <2>4 DEF tt
<1>6. CASE ss # <<>>
  <2>1. PICK f : FlatBy(f, ss, n) /\ FlattenSeq(ss) = f[n]
    BY <1>6, FlattenIsFlat DEF n
  <2>2. n + 1 \in Nat /\ n <= n + 1 /\ n \in Nat \ {0} /\ n \in 1 .. n /\ n + 1 <= n + 1
    BY <1>1, <1>6
  <2>3. \A i \in 1 .. n : f[i] = g[i]
    BY <1>1, <1>2, <1>4, <2>1, <2>2, FlatAgree
  <2>4. g[n + 1] = g[n] \o tt[n + 1]
    BY <1>4, <2>2, FlatAt
  <2> QED
    BY <1>2, <1>4, <2>1, <2>2, <2>3, <2>4 DEF tt
<1> QED
  BY <1>5, <1>6

LEMMA FlattenNothing == FlattenSeq(<<>>) = <<>>
BY SequenceEmpty DEF FlattenSeq

LEMMA ConcatNothing ==
  ASSUME NEW s, IsSequence(s)
  PROVE  <<>> \o s = s
BY ConcatEmptySeq DEF IsSequence

\* new is s and then t, element by element.
JoinOf(new, s, t) ==
  /\ IsSequence(new) /\ Len(new) = Len(s) + Len(t)
  /\ \A i \in 1 .. Len(s) : new[i] = s[i]
  /\ \A i \in Len(s) + 1 .. Len(s) + Len(t) : new[i] = t[i - Len(s)]

LEMMA JoinOfIs ==
  ASSUME NEW s, IsSequence(s), NEW t, IsSequence(t)
  PROVE  JoinOf(s \o t, s, t)
<1> DEFINE new == s \o t
<1>1. /\ IsSequence(new) /\ Len(new) = Len(s) + Len(t)
      /\ \A i \in 1 .. Len(s) : new[i] = s[i]
      /\ \A i \in 1 .. Len(t) : new[Len(s) + i] = t[i]
  BY SequenceConcat
<1>2. Len(s) \in Nat /\ Len(t) \in Nat
  BY SequenceElim
<1> HIDE DEF new
<1>3. ASSUME NEW i \in Len(s) + 1 .. Len(s) + Len(t) PROVE new[i] = t[i - Len(s)]
  <2>1. i - Len(s) \in 1 .. Len(t) /\ Len(s) + (i - Len(s)) = i
    BY <1>2
  <2> QED
    BY <1>1, <2>1
<1> QED
  BY <1>1, <1>3 DEF JoinOf, new

\* What is left to do when ts replaces the first task of td.
LEMMA HeadReplaced ==
  ASSUME NEW ts, IsSequence(ts), NEW td, IsSequence(td), td # <<>>
  PROVE  LET new == ts \o Tail(td)
         IN /\ IsSequence(new) /\ Len(ts) \in Nat /\ Len(td) \in Nat \ {0}
            /\ Len(new) = Len(ts) + Len(td) - 1
            /\ \A i \in 1 .. Len(ts) : new[i] = ts[i]
            /\ \A i \in 2 .. Len(td) : new[Len(ts) + i - 1] = td[i]
<1> DEFINE r == Tail(td)
           new == ts \o r
<1>1. /\ IsSequence(r) /\ Len(r) = Len(td) - 1 /\ Len(td) \in Nat \ {0}
      /\ \A i \in 1 .. Len(td) - 1 : r[i] = td[i + 1]
  BY SequenceTail
<1>2. Len(ts) \in Nat
  BY SequenceElim
<1> HIDE DEF r
<1>3. /\ IsSequence(new) /\ Len(new) = Len(ts) + Len(r)
      /\ \A i \in 1 .. Len(ts) : new[i] = ts[i]
      /\ \A i \in 1 .. Len(r) : new[Len(ts) + i] = r[i]
  <2>1. IsSequence(r)
    BY <1>1
  <2> QED
    BY <2>1, SequenceConcat
<1> HIDE DEF new
<1>4. ASSUME NEW i \in 2 .. Len(td) PROVE new[Len(ts) + i - 1] = td[i]
  <2>1. i - 1 \in 1 .. Len(r) /\ (i - 1) + 1 = i /\ Len(ts) + (i - 1) = Len(ts) + i - 1
        /\ i - 1 \in 1 .. Len(td) - 1
    BY <1>1, <1>2
  <2>2. new[Len(ts) + (i - 1)] = r[i - 1] /\ r[i - 1] = td[(i - 1) + 1]
    BY <1>1, <1>3, <2>1
  <2> QED
    BY <2>1, <2>2
<1>5. Len(new) = Len(ts) + Len(td) - 1
  BY <1>1, <1>2, <1>3
<1> QED
  BY <1>1, <1>2, <1>3, <1>4, <1>5 DEF new, r

LEMMA FirstOrLater ==
  ASSUME NEW n \in Nat, NEW i \in 1 .. n
  PROVE  i = 1 \/ i \in 2 .. n
OBVIOUS

-----------------------------------------------------------------------------
(* The lesser and the greater of two numbers.                                 *)

LEMMA LesserOfTwo ==
  ASSUME NEW a \in Nat, NEW b \in Nat
  PROVE  Min({a, b}) = IF a <= b THEN a ELSE b
<1>1. {a, b} \in SUBSET Nat /\ {a, b} # {}
  OBVIOUS
<1>2. Min({a, b}) \in {a, b} /\ Min({a, b}) <= a /\ Min({a, b}) <= b
  BY <1>1, MinIsLeast
<1> QED
  BY <1>2

LEMMA GreaterOfTwo ==
  ASSUME NEW a \in Nat, NEW b \in Nat
  PROVE  Max({a, b}) = IF a <= b THEN b ELSE a
<1> DEFINE S == {a, b}
<1>1. S \in SUBSET (0 .. a + b) /\ S # {} /\ a + b \in Nat
  OBVIOUS
<1>2. Max(S) \in S /\ \A y \in S : y <= Max(S)
  BY <1>1, MaxIsGreatest
<1>3. S = {a, b}
  OBVIOUS
<1> HIDE DEF S
<1> DEFINE m == Max(S)
<1>4. m \in S /\ \A y \in S : y <= m
  BY <1>2
<1> HIDE DEF m
<1>5. m = IF a <= b THEN b ELSE a
  BY <1>3, <1>4
<1> QED
  BY <1>5 DEF m, S

-----------------------------------------------------------------------------
(* A function that never goes back: the places it passes through from one on,  *)
(* up to the first that it maps to itself.                                     *)

StopsFrom(next, f, q) == IF next[q] = q THEN <<q>> ELSE <<q>> \o f[next[q]]

\* f is the function that lists these places, from n on.
StopsBy(next, f, n, m) == f = [q \in n .. m |-> StopsFrom(next, f, q)]

LoopsUpwards(next, m) ==
  /\ m \in Nat /\ next \in [1 .. m -> 1 .. m]
  /\ \A q \in 1 .. m : q <= next[q]

LEMMA StopsExist ==
  ASSUME NEW m, NEW next, LoopsUpwards(next, m), 1 <= m
  PROVE  \E f : StopsBy(next, f, 1, m)
<1> DEFINE S == {k \in Nat : k < m => \E f : StopsBy(next, f, m - k, m)}
<1>1. m \in Nat /\ \A q \in 1 .. m : next[q] \in q .. m
  BY DEF LoopsUpwards
<1>2. 0 \in S
  <2> DEFINE f == [q \in m .. m |-> <<q>>]
  <2>1. \A q \in m .. m : q = m /\ next[q] = q
    BY <1>1
  <2>2. \A q \in m .. m : f[q] = StopsFrom(next, f, q)
    BY <2>1 DEF StopsFrom
  <2>3. f = [q \in m .. m |-> f[q]]
    OBVIOUS
  <2> HIDE DEF f
  <2>4. StopsBy(next, f, m, m)
    BY <2>2, <2>3 DEF StopsBy
  <2>5. m - 0 = m
    BY <1>1
  <2> QED
    BY <2>4, <2>5
<1>3. ASSUME NEW k \in Nat, k \in S
      PROVE  k + 1 \in S
  <2> SUFFICES ASSUME k + 1 < m
               PROVE  \E f : StopsBy(next, f, m - (k + 1), m)
    OBVIOUS
  <2> DEFINE n == m - (k + 1)
  <2>1. n \in Nat /\ 1 <= n /\ n + 1 = m - k /\ n < m /\ k < m
    BY <1>1
  <2>2. PICK f : StopsBy(next, f, n + 1, m)
    BY <1>3, <2>1
  <2> HIDE DEF n
  <2> DEFINE g == [q \in n .. m |-> IF q = n THEN StopsFrom(next, f, n) ELSE f[q]]
  <2>3. \A q \in n + 1 .. m : g[q] = f[q]
    BY <2>1
  <2>4. ASSUME NEW q \in n .. m
        PROVE  g[q] = StopsFrom(next, g, q)
    <3>1. next[q] # q => next[q] \in n + 1 .. m
      BY <1>1, <2>1
    <3>2. next[q] # q => f[next[q]] = g[next[q]]
      BY <2>3, <3>1
    <3>3. StopsFrom(next, f, q) = StopsFrom(next, g, q)
      <4> HIDE DEF g
      <4> QED
        BY <3>2, Zenon DEF StopsFrom
    <3>4. CASE q = n
      BY <3>3, <3>4
    <3>5. CASE q # n
      <4>1. q \in n + 1 .. m
        BY <2>1, <3>5
      <4>2. f[q] = StopsFrom(next, f, q)
        <5> DEFINE F(x) == StopsFrom(next, f, x)
        <5>1. f = [x \in n + 1 .. m |-> F(x)]
          BY <2>2 DEF StopsBy
        <5> HIDE DEF F
        <5>2. f[q] = F(q)
          BY <4>1, <5>1
        <5> QED
          BY <5>2 DEF F
      <4> QED
        BY <2>3, <3>3, <4>1, <4>2
    <3> QED
      BY <3>4, <3>5
  <2>5. StopsBy(next, g, n, m)
    <3>1. g = [q \in n .. m |-> g[q]]
      OBVIOUS
    <3> HIDE DEF g
    <3> QED
      BY <2>4, <3>1 DEF StopsBy
  <2> QED
    BY <2>5 DEF n
<1>4. Nat \subseteq S
  <2> HIDE DEF S
  <2> QED
    BY <1>2, <1>3, SetInduction
<1>5. m - 1 \in S /\ m - 1 < m /\ m - (m - 1) = 1
  <2>1. m - 1 \in Nat /\ m - 1 < m /\ m - (m - 1) = 1
    BY <1>1
  <2> QED
    BY <1>4, <2>1
<1> QED
  BY <1>5

\* The rounds of a loop from p on: each goes on from where the last one ended.
IsLoopFrom(s, next, p, m) ==
  /\ IsSequence(s) /\ s # <<>> /\ s[1] = p
  /\ \A i \in 1 .. Len(s) : s[i] \in p .. m
  /\ \A i \in 1 .. Len(s) - 1 : s[i + 1] = next[s[i]] /\ next[s[i]] # s[i]

LEMMA LoopOne ==
  ASSUME NEW m \in Nat, NEW p \in 1 .. m, NEW next
  PROVE  IsLoopFrom(<<p>>, next, p, m)
<1>1. IsSequence(<<p>>) /\ Len(<<p>>) = 1 /\ <<p>>[1] = p /\ <<p>> # <<>>
  BY SequenceOne
<1> DEFINE s == <<p>>
<1> HIDE DEF s
<1>2. \A i \in 1 .. Len(s) : s[i] \in p .. m
  BY <1>1 DEF s
<1>3. \A i \in 1 .. Len(s) - 1 : FALSE
  BY <1>1 DEF s
<1> QED
  BY <1>1, <1>2, <1>3 DEF IsLoopFrom, s

LEMMA LoopOn ==
  ASSUME NEW m \in Nat, NEW p \in 1 .. m, NEW next, NEW s, NEW q \in p + 1 .. m,
         next[p] = q, IsLoopFrom(s, next, q, m)
  PROVE  IsLoopFrom(<<p>> \o s, next, p, m)
<1>1. IsSequence(<<p>>) /\ Len(<<p>>) = 1 /\ <<p>>[1] = p
  BY SequenceOne
<1>2. /\ IsSequence(s) /\ s # <<>> /\ s[1] = q
      /\ \A i \in 1 .. Len(s) : s[i] \in q .. m
      /\ \A i \in 1 .. Len(s) - 1 : s[i + 1] = next[s[i]] /\ next[s[i]] # s[i]
  BY DEF IsLoopFrom
<1>3. Len(s) \in Nat \ {0}
  BY <1>2, SequenceElim
<1> DEFINE t == <<p>> \o s
           n == Len(s)
<1>4. /\ IsSequence(t) /\ Len(t) = 1 + n
      /\ t[1] = p /\ \A i \in 1 .. n : t[1 + i] = s[i]
  <2>1. /\ IsSequence(t) /\ Len(t) = Len(<<p>>) + n
        /\ \A i \in 1 .. Len(<<p>>) : t[i] = <<p>>[i]
        /\ \A i \in 1 .. n : t[Len(<<p>>) + i] = s[i]
    BY <1>1, <1>2, SequenceConcat
  <2> DEFINE o == <<p>>
  <2> HIDE DEF o, t, n
  <2>2. Len(o) = 1 /\ o[1] = p
    BY <1>1 DEF o
  <2>3. /\ IsSequence(t) /\ Len(t) = 1 + n
        /\ \A i \in 1 .. 1 : t[i] = o[i]
        /\ \A i \in 1 .. n : t[1 + i] = s[i]
    BY <2>1, <2>2 DEF o
  <2> QED
    BY <2>2, <2>3
<1> HIDE DEF t, n
<1>5. n \in Nat \ {0}
  BY <1>3 DEF n
<1>6. t # <<>>
  BY <1>4, <1>5, SequenceElim
<1>7. ASSUME NEW i \in 1 .. Len(t) PROVE t[i] \in p .. m
  <2>1. CASE i = 1
    BY <1>4, <2>1
  <2>2. CASE i # 1
    <3>1. i - 1 \in 1 .. n /\ 1 + (i - 1) = i
      BY <1>4, <1>5, <2>2
    <3>2. t[i] = s[i - 1] /\ s[i - 1] \in q .. m
      BY <1>2, <1>4, <3>1 DEF n
    <3> QED
      BY <3>2
  <2> QED
    BY <2>1, <2>2
<1>8. ASSUME NEW i \in 1 .. Len(t) - 1 PROVE t[i + 1] = next[t[i]] /\ next[t[i]] # t[i]
  <2>1. CASE i = 1
    <3>1. t[1] = p /\ t[2] = q
      BY <1>2, <1>4, <1>5
    <3> QED
      BY <2>1, <3>1
  <2>2. CASE i # 1
    <3>1. i - 1 \in 1 .. n - 1 /\ i - 1 \in 1 .. n /\ i \in 1 .. n /\ 1 + (i - 1) = i /\ 1 + i = i + 1 /\ (i - 1) + 1 = i
      BY <1>4, <1>5, <2>2
    <3>2. t[i] = s[i - 1] /\ t[i + 1] = s[i]
      BY <1>4, <3>1
    <3>3. s[(i - 1) + 1] = next[s[i - 1]] /\ next[s[i - 1]] # s[i - 1]
      BY <1>2, <3>1 DEF n
    <3> QED
      BY <3>1, <3>2, <3>3
  <2> QED
    BY <2>1, <2>2
<1> QED
  BY <1>4, <1>6, <1>7, <1>8 DEF IsLoopFrom, t
=============================================================================
