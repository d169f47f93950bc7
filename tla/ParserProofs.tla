---------------------------- MODULE ParserProofs ----------------------------
(***************************************************************************)
(* Theorems about Parser, for every set of token lists.                    *)
(*                                                                         *)
(* As in MirBuildProofs, the invariant says that what is left to do fits   *)
(* what is at hand, here the tokens ahead and the nodes made so far:       *)
(* `InOrder' for the tokens, `Shaped' for the nodes, and `Nested' for the  *)
(* tokens between which a node of an expression spans.  An action replaces *)
(* the first task by tasks that do the same together, or drops the tasks   *)
(* before the next handler.                                                *)
(***************************************************************************)
EXTENDS Parser, SequenceFacts

-----------------------------------------------------------------------------
(* The tokens.                                                                *)

LEMMA TokensAre ==
  ASSUME tokens \in Texts
  PROVE  /\ Len(tokens) \in Nat \ {0} /\ DOMAIN tokens = 1 .. Len(tokens)
         /\ Places = 1 .. Len(tokens) + 1 /\ Places \subseteq Nat /\ 1 \in Places
         /\ \A p : p \in DOMAIN tokens <=> Kind(p) # "none"
         /\ \A p \in DOMAIN tokens : Kind(p) = tokens[p].k
         /\ Kind(Len(tokens)) = "eof"
<1> DEFINE T == [k : STRING \ {"none"}, text : STRING, file : Nat]
<1>1. tokens \in Seq(T) /\ tokens # <<>> /\ Last(tokens).k = "eof"
  BY TextsAssumption DEF TextsAssumption
<1> HIDE DEF T
<1>2. IsSequence(tokens)
  BY <1>1, SequenceIntro
<1>3. Len(tokens) \in Nat \ {0} /\ DOMAIN tokens = 1 .. Len(tokens) /\ Last(tokens) = tokens[Len(tokens)]
  BY <1>1, <1>2, SequenceElim, SequenceFront
<1>4. ASSUME NEW p \in DOMAIN tokens PROVE tokens[p].k # "none"
  <2>1. tokens[p] \in T
    BY <1>1
  <2> QED
    BY <2>1 DEF T
<1>5. \A p \in DOMAIN tokens : Kind(p) = tokens[p].k
  BY DEF Kind
<1>6. \A p : p \in DOMAIN tokens <=> Kind(p) # "none"
  BY <1>4 DEF Kind
<1>7. Kind(Len(tokens)) = "eof"
  BY <1>1, <1>3, <1>5
<1>8. Places = 1 .. Len(tokens) + 1 /\ Places \subseteq Nat /\ 1 \in Places
  BY <1>3 DEF Places
<1> QED
  BY <1>3, <1>5, <1>6, <1>7, <1>8

\* Behind a token there is a place, and behind one that is not the last there is
\* another token.
LEMMA Behind ==
  ASSUME tokens \in Texts, NEW p, Kind(p) # "none"
  PROVE  /\ p \in DOMAIN tokens /\ p \in Places /\ p \in Nat /\ p + 1 \in Places
         /\ Kind(p) # "eof" => p + 1 \in DOMAIN tokens /\ Kind(p + 1) # "none"
<1>1. p \in 1 .. Len(tokens) /\ Len(tokens) \in Nat
  BY TokensAre
<1>2. p \in DOMAIN tokens /\ p \in Places /\ p \in Nat /\ p + 1 \in Places
  BY <1>1, TokensAre
<1>3. ASSUME Kind(p) # "eof" PROVE p + 1 \in DOMAIN tokens
  <2>1. p # Len(tokens)
    BY <1>3, TokensAre
  <2> QED
    BY <1>1, <2>1, TokensAre
<1> QED
  BY <1>2, <1>3, TokensAre

\* After: a place ahead, and what is passed over is of one of the kinds.
LEMMA AfterIs ==
  ASSUME tokens \in Texts, NEW p \in Places, NEW kinds, "none" \notin kinds
  PROVE  /\ After(p, kinds) \in Places /\ p <= After(p, kinds)
         /\ \A q \in p .. After(p, kinds) - 1 : Kind(q) \in kinds
<1> DEFINE S == {q \in p .. Len(tokens) + 1 : Kind(q) \notin kinds}
           n == Len(tokens)
<1>1. n \in Nat /\ p \in 1 .. n + 1 /\ Places = 1 .. n + 1
  BY TokensAre
<1>2. Kind(n + 1) = "none"
  <2>1. n + 1 \notin DOMAIN tokens
    BY TokensAre
  <2> QED
    BY <2>1, TokensAre
<1> HIDE DEF n
<1>3. S = {q \in p .. n + 1 : Kind(q) \notin kinds}
  BY DEF n
<1>4. S \in SUBSET Nat /\ n + 1 \in S
  BY <1>1, <1>2, <1>3
<1> HIDE DEF S
<1>5. Min(S) \in S /\ \A y \in S : Min(S) <= y
  BY <1>4, MinIsLeast
<1> DEFINE m == Min(S)
<1>6. After(p, kinds) = m
  BY DEF After, S
<1> HIDE DEF m
<1>7. m \in p .. n + 1
  BY <1>3, <1>5 DEF m
<1>8. ASSUME NEW q \in p .. m - 1 PROVE Kind(q) \in kinds
  <2>1. q \in p .. n + 1 /\ ~ (m <= q)
    BY <1>1, <1>7
  <2>2. q \notin S
    BY <1>5, <2>1 DEF m
  <2> QED
    BY <1>3, <2>1, <2>2
<1> QED
  BY <1>1, <1>6, <1>7, <1>8

LEMMA SyncIs ==
  ASSUME tokens \in Texts, NEW p \in Places
  PROVE  SyncAfterStatement(p) \in Places /\ p <= SyncAfterStatement(p)
<1> DEFINE Stop(q) == Kind(q) = "eof" \/ (Kind(q) \in {";", "}"} /\ Depth(p, q) = 0)
           n == Len(tokens)
           S == {q \in p .. n : Stop(q)}
           m == Min(S)
           skips == Kind(m) = ";"
<1>1. n \in Nat /\ p \in 1 .. n + 1 /\ Places = 1 .. n + 1
  BY TokensAre
<1>2. SyncAfterStatement(p) = IF S = {} THEN n + 1 ELSE IF skips THEN m + 1 ELSE m
  BY Zenon DEF SyncAfterStatement
<1> HIDE DEF Stop, n
<1>3. S \in SUBSET Nat /\ \A q \in S : q \in p .. n
  BY <1>1
<1> HIDE DEF S, skips
<1>4. S # {} => m \in S
  BY <1>3, MinIsLeast
<1> HIDE DEF m
<1>5. CASE S = {}
  BY <1>1, <1>2, <1>5
<1>6. CASE S # {}
  <2>1. m \in p .. n
    BY <1>3, <1>4, <1>6
  <2>2. SyncAfterStatement(p) = m + 1 \/ SyncAfterStatement(p) = m
    BY <1>2, <1>6, Zenon
  <2> QED
    BY <1>1, <2>1, <2>2
<1> QED
  BY <1>5, <1>6

-----------------------------------------------------------------------------
(* Loops over tokens: Stops lists the places from p on.                       *)

LEMMA StopsAre ==
  ASSUME NEW m, NEW next, LoopsUpwards(next, m), NEW p \in 1 .. m
  PROVE  IsLoopFrom(Stops(next, p), next, p, m)
<1>1. m \in Nat /\ DOMAIN next = 1 .. m /\ 1 <= m /\ \A q \in 1 .. m : next[q] \in q .. m
  BY DEF LoopsUpwards
<1> DEFINE f == CHOOSE from : from = [q \in DOMAIN next |-> IF next[q] = q THEN <<q>>
                                                          ELSE <<q>> \o from[next[q]]]
<1>2. Stops(next, p) = f[p]
  BY DEF Stops
<1>3. StopsBy(next, f, 1, m)
  <2>1. PICK g : StopsBy(next, g, 1, m)
    BY <1>1, StopsExist
  <2>2. g = [q \in DOMAIN next |-> IF next[q] = q THEN <<q>> ELSE <<q>> \o g[next[q]]]
    BY <1>1, <2>1 DEF StopsBy, StopsFrom
  <2>3. f = [q \in DOMAIN next |-> IF next[q] = q THEN <<q>> ELSE <<q>> \o f[next[q]]]
    BY <2>2, Zenon
  <2> HIDE DEF f
  <2> QED
    BY <1>1, <2>3 DEF StopsBy, StopsFrom
<1> HIDE DEF f
<1>4. \A q \in 1 .. m : f[q] = IF next[q] = q THEN <<q>> ELSE <<q>> \o f[next[q]]
  <2> DEFINE F(x) == StopsFrom(next, f, x)
  <2>1. f = [x \in 1 .. m |-> F(x)]
    BY <1>3 DEF StopsBy
  <2> HIDE DEF F
  <2>2. \A q \in 1 .. m : f[q] = F(q)
    BY <2>1
  <2> QED
    BY <2>2 DEF F, StopsFrom
<1> DEFINE S == {k \in Nat : \A q \in 1 .. m : m - q <= k => IsLoopFrom(f[q], next, q, m)}
<1>5. 0 \in S
  <2> SUFFICES ASSUME NEW q \in 1 .. m, m - q <= 0
               PROVE  IsLoopFrom(f[q], next, q, m)
    OBVIOUS
  <2>1. next[q] = q
    BY <1>1
  <2>2. f[q] = <<q>>
    BY <1>4, <2>1
  <2> QED
    BY <1>1, <2>2, LoopOne
<1>6. ASSUME NEW k \in Nat, k \in S
      PROVE  k + 1 \in S
  <2> SUFFICES ASSUME NEW q \in 1 .. m, m - q <= k + 1
               PROVE  IsLoopFrom(f[q], next, q, m)
    OBVIOUS
  <2>1. CASE next[q] = q
    <3>1. f[q] = <<q>>
      BY <1>4, <2>1
    <3> QED
      BY <1>1, <3>1, LoopOne
  <2>2. CASE next[q] # q
    <3> DEFINE r == next[q]
    <3>1. r \in q + 1 .. m /\ r \in 1 .. m /\ m - r <= k
      BY <1>1, <2>2
    <3>2. IsLoopFrom(f[r], next, r, m)
      BY <1>6, <3>1
    <3>3. f[q] = <<q>> \o f[r]
      BY <1>4, <2>2
    <3>4. next[q] = r
      OBVIOUS
    <3> HIDE DEF r
    <3>5. IsLoopFrom(<<q>> \o f[r], next, q, m)
      BY <1>1, <3>1, <3>2, <3>4, LoopOn
    <3> QED
      BY <3>3, <3>5
  <2> QED
    BY <2>1, <2>2
<1>7. Nat \subseteq S
  <2> HIDE DEF S
  <2> QED
    BY <1>5, <1>6, SetInduction
<1>8. m - p \in S
  <2>1. m - p \in Nat
    BY <1>1
  <2> HIDE DEF S
  <2> QED
    BY <1>7, <2>1
<1>9. m - p <= m - p
  BY <1>1
<1> QED
  BY <1>2, <1>8, <1>9

-----------------------------------------------------------------------------
(* Where the methods end that only loop over tokens: ahead of where they      *)
(* begin.                                                                     *)

Ahead(p, q) == q \in Places /\ p <= q

LEMMA AheadIs ==
  ASSUME tokens \in Texts, NEW p \in Places, NEW q, Ahead(p, q)
  PROVE  /\ q \in Places /\ p \in Nat /\ q \in Nat /\ p <= q
         /\ \A r : Ahead(q, r) => Ahead(p, r)
         /\ Ahead(p, p)
<1>1. Places \subseteq Nat
  BY TokensAre
<1>2. q \in Places /\ p \in Nat /\ q \in Nat /\ p <= q
  BY <1>1 DEF Ahead
<1>3. ASSUME NEW r, Ahead(q, r) PROVE Ahead(p, r)
  <2>1. r \in Places /\ r \in Nat /\ q <= r
    BY <1>1, <1>3 DEF Ahead
  <2> QED
    BY <1>2, <2>1 DEF Ahead
<1>4. Ahead(p, p)
  BY <1>2 DEF Ahead
<1> QED
  BY <1>2, <1>3, <1>4

LEMMA AheadThen ==
  ASSUME tokens \in Texts, NEW p \in Places, NEW q, Ahead(p, q), NEW r, Ahead(q, r)
  PROVE  Ahead(p, r)
BY AheadIs

\* One token on.
LEMMA NextPlace ==
  ASSUME tokens \in Texts, NEW p, Kind(p) # "none"
  PROVE  /\ Ahead(p, p + 1) /\ p \in Places /\ p \in Nat /\ p + 1 \in Places
         /\ p < p + 1 /\ p + 1 # p
<1>1. p \in Places /\ p \in Nat /\ p + 1 \in Places
  BY Behind
<1> QED
  BY <1>1 DEF Ahead

LEMMA AheadOn ==
  ASSUME tokens \in Texts, NEW p \in Places, NEW q, Ahead(p, q), Ahead(q, q + 1)
  PROVE  Ahead(p, q + 1) /\ q + 1 # p
<1>1. p \in Nat /\ q \in Nat /\ p <= q
  BY AheadIs
<1>2. Ahead(p, q + 1)
  BY AheadIs
<1> QED
  BY <1>1, <1>2

LEMMA AheadOver ==
  ASSUME tokens \in Texts, NEW p \in Places, Ahead(p, p + 1), NEW q, Ahead(p + 1, q),
         NEW r, Ahead(q, r)
  PROVE  Ahead(p, r) /\ r # p
<1>1. p \in Nat /\ p + 1 \in Places
  BY AheadIs
<1>2. q \in Places /\ q \in Nat /\ p + 1 <= q /\ Ahead(p, q)
  BY <1>1, AheadIs
<1>3. r \in Nat /\ q <= r /\ Ahead(p, r)
  BY <1>2, AheadIs
<1> QED
  BY <1>1, <1>2, <1>3

\* Two tokens on.
LEMMA NextTwo ==
  ASSUME tokens \in Texts, NEW p, Kind(p) # "none", Kind(p + 1) # "none"
  PROVE  Ahead(p, p + 2) /\ p + 2 # p
<1>1. p \in Nat /\ p \in Places /\ Ahead(p, p + 1)
  BY NextPlace
<1>2. Ahead(p + 1, (p + 1) + 1)
  BY NextPlace
<1>3. (p + 1) + 1 = p + 2 /\ p + 2 # p
  BY <1>1
<1> QED
  BY <1>1, <1>2, <1>3, AheadIs

LEMMA LoopEndsAhead ==
  ASSUME tokens \in Texts, NEW next, LoopsUpwards(next, Len(tokens) + 1), NEW p \in Places
  PROVE  /\ Ahead(p, Last(Stops(next, p)))
         /\ IsLoopFrom(Stops(next, p), next, p, Len(tokens) + 1)
         /\ Last(Stops(next, p)) = Stops(next, p)[Len(Stops(next, p))]
         /\ Len(Stops(next, p)) \in Nat \ {0}
<1> DEFINE m == Len(tokens) + 1
           s == Stops(next, p)
<1>1. m \in Nat /\ Places = 1 .. m
  BY TokensAre
<1> HIDE DEF m, s
<1>2. IsLoopFrom(s, next, p, m)
  BY <1>1, StopsAre DEF m, s
<1>3. IsSequence(s) /\ s # <<>> /\ \A i \in 1 .. Len(s) : s[i] \in p .. m
  BY <1>2 DEF IsLoopFrom
<1>4. Last(s) = s[Len(s)] /\ Len(s) \in Nat \ {0}
  BY <1>3, SequenceFront
<1>5. Last(s) \in p .. m
  BY <1>3, <1>4
<1>6. Ahead(p, Last(s))
  BY <1>1, <1>5 DEF Ahead
<1> QED
  BY <1>2, <1>4, <1>6 DEF m, s

LEMMA KindAt ==
  ASSUME NEW p \in Nat, NEW n \in Nat
  PROVE  /\ IsSequence(KindsOf(p, p + n)) /\ Len(KindsOf(p, p + n)) = n
         /\ \A i \in 1 .. n : KindsOf(p, p + n)[i] = Kind(p + i - 1)
<1> DEFINE f == KindsOf(p, p + n)
<1>1. f = [i \in 1 .. n |-> Kind(p + i - 1)]
  <2>1. (p + n) - p = n
    OBVIOUS
  <2> QED
    BY <2>1, Zenon DEF KindsOf
<1> HIDE DEF f
<1>2. f = [i \in 1 .. n |-> f[i]] /\ \A i \in 1 .. n : f[i] = Kind(p + i - 1)
  BY <1>1
<1>3. IsSequence(f) /\ Len(f) = n
  BY <1>2, SequenceByIndex
<1> QED
  BY <1>2, <1>3 DEF f

LEMMA AfterParensIs ==
  ASSUME tokens \in Texts, NEW p \in Places
  PROVE  Ahead(p, AfterParens(p))
<1> DEFINE n == Len(tokens)
           Closes(q) == Count("(", p, q) = Count(")", p, q)
           S == {q \in p + 1 .. n : Closes(q)}
           m == Min(S)
<1>1. n \in Nat /\ p \in 1 .. n + 1 /\ Places = 1 .. n + 1
  BY TokensAre
<1>2. AfterParens(p) = IF S = {} THEN n + 1 ELSE m + 1
  BY Zenon DEF AfterParens
<1> HIDE DEF n, Closes
<1>3. S \in SUBSET Nat /\ \A q \in S : q \in p + 1 .. n
  BY <1>1
<1> HIDE DEF S
<1>4. S # {} => m \in S
  BY <1>3, MinIsLeast
<1> HIDE DEF m
<1>5. CASE S = {}
  BY <1>1, <1>2, <1>5 DEF Ahead
<1>6. CASE S # {}
  <2>1. m \in p + 1 .. n
    BY <1>3, <1>4, <1>6
  <2> QED
    BY <1>1, <1>2, <1>6, <2>1 DEF Ahead
<1> QED
  BY <1>5, <1>6

LEMMA AttributeEndIs ==
  ASSUME tokens \in Texts, NEW p \in Places
  PROVE  Ahead(p, AttributeEnd(p))
<1> USE AheadIs
<1>1. Ahead(p, p) /\ p \in Nat
  BY TokensAre DEF Ahead
<1>2. CASE Kind(p) \in {"]", "none"}
  <2>1. AttributeEnd(p) = p
    BY <1>2 DEF AttributeEnd, AfterAttribute
  <2> QED
    BY <1>1, <2>1
<1>3. CASE Kind(p) \notin {"]", "none"} /\ KindsOf(p, p + 2) # <<"ident", "::">>
  <2>1. AttributeEnd(p) = p + 1
    BY <1>3 DEF AttributeEnd, AfterAttribute
  <2> QED
    BY <1>3, <2>1, NextPlace
<1>4. CASE Kind(p) \notin {"]", "none"} /\ KindsOf(p, p + 2) = <<"ident", "::">>
  <2> DEFINE r == IF Kind(p + 2) = "ident" THEN p + 3 ELSE p + 2
  <2>1. AttributeEnd(p) = AfterArguments(r)
    BY <1>4 DEF AttributeEnd, AfterAttribute
  <2>2. Kind(p + 1) = "::"
    <3> DEFINE k == KindsOf(p, p + 2)
    <3>1. \A i \in 1 .. 2 : k[i] = Kind(p + i - 1)
      BY <1>1, KindAt
    <3>2. k[2] = "::"
      BY <1>4
    <3> HIDE DEF k
    <3>3. k[2] = Kind(p + 2 - 1)
      BY <3>1
    <3>4. p + 2 - 1 = p + 1
      BY <1>1
    <3> QED
      BY <3>2, <3>3, <3>4
  <2>3. (p + 1) + 1 = p + 2 /\ (p + 2) + 1 = p + 3
    BY <1>1
  <2>4. p + 2 \in Places
    BY <2>2, <2>3, NextPlace
  <2>5. Kind(p + 2) = "ident" => p + 3 \in Places
    BY <2>3, NextPlace
  <2>6. r \in Places /\ p <= r
    BY <1>1, <2>4, <2>5
  <2> HIDE DEF r
  <2>7. Ahead(r, AfterArguments(r)) /\ Ahead(p, r)
    BY <2>6, AfterParensIs, TokensAre DEF AfterArguments, Ahead
  <2> QED
    BY <2>1, <2>7
<1> QED
  BY <1>2, <1>3, <1>4

LEMMA ClosedIs ==
  ASSUME tokens \in Texts, NEW p \in Places
  PROVE  Ahead(p, Closed(p))
<1>1. p \in Nat /\ Ahead(p, p)
  BY TokensAre DEF Ahead
<1>2. Kind(p) = "]" => p + 1 \in Places
  BY NextPlace
<1>3. (p + 1) + 1 = p + 2
  BY <1>1
<1>4. Kind(p + 1) = "]" => p + 2 \in Places
  BY <1>3, NextPlace
<1> QED
  BY <1>1, <1>2, <1>4 DEF Closed, Ahead

LEMMA UpwardsBy ==
  ASSUME tokens \in Texts, NEW next, next = [q \in Places |-> next[q]],
         \A q \in Places : Ahead(q, next[q])
  PROVE  LoopsUpwards(next, Len(tokens) + 1)
<1> DEFINE m == Len(tokens) + 1
<1>1. m \in Nat /\ Places = 1 .. m
  BY TokensAre
<1> HIDE DEF m
<1>2. next \in [1 .. m -> 1 .. m] /\ \A q \in 1 .. m : q <= next[q]
  BY <1>1 DEF Ahead
<1> QED
  BY <1>1, <1>2 DEF LoopsUpwards, m

LEMMA AttributeListIs ==
  ASSUME tokens \in Texts, NEW p \in Places
  PROVE  Ahead(p, AttributeList(p).end)
<1> DEFINE F(q) == IF Kind(AttributeEnd(q)) = "," THEN AttributeEnd(q) + 1 ELSE q
           next == [q \in Places |-> F(q)]
           last == Last(Stops(next, p))
<1>1. AttributeList(p).end = Closed(AttributeEnd(last))
  BY DEF AttributeList
<1>2. ASSUME NEW q \in Places PROVE Ahead(q, F(q))
  <2>1. Ahead(q, AttributeEnd(q)) /\ Ahead(q, q)
    BY AttributeEndIs, AheadIs
  <2> DEFINE e == AttributeEnd(q)
  <2>2. Kind(e) = "," => Ahead(e, e + 1)
    <3> HIDE DEF e
    <3> QED
      BY NextPlace
  <2>3. Kind(e) = "," => Ahead(q, e + 1)
    BY <2>1, <2>2, AheadIs
  <2> HIDE DEF e
  <2> QED
    BY <2>1, <2>3 DEF e
<1> HIDE DEF F
<1>3. \A q \in Places : next[q] = F(q)
  OBVIOUS
<1>4. next = [q \in Places |-> next[q]]
  BY <1>3
<1> HIDE DEF next
<1>5. Ahead(p, last)
  BY <1>2, <1>3, <1>4, UpwardsBy, LoopEndsAhead
<1> HIDE DEF last
<1>6. last \in Places
  BY <1>5, AheadIs
<1>7. Ahead(last, AttributeEnd(last))
  BY <1>6, AttributeEndIs
<1>8. AttributeEnd(last) \in Places
  BY <1>6, <1>7, AheadIs
<1>9. Ahead(AttributeEnd(last), Closed(AttributeEnd(last)))
  BY <1>8, ClosedIs
<1> QED
  BY <1>1, <1>5, <1>6, <1>7, <1>8, <1>9, AheadIs

\* Behind the two brackets that open a list there is a place.
LEMMA OpensIs ==
  ASSUME tokens \in Texts, NEW p \in Places, OpensAttributes(p)
  PROVE  Ahead(p, p + 2)
<1>1. p \in Nat /\ Kind(p) # "none" /\ Kind(p + 1) # "none"
  BY TokensAre DEF OpensAttributes
<1>2. Ahead(p, p + 1) /\ Ahead(p + 1, (p + 1) + 1) /\ (p + 1) + 1 = p + 2
  BY <1>1, NextPlace
<1> QED
  BY <1>2, AheadIs

LEMMA AttributesIs ==
  ASSUME tokens \in Texts, NEW p \in Places
  PROVE  Ahead(p, Attributes(p).end)
<1> DEFINE F(q) == IF OpensAttributes(q) THEN AttributeList(q + 2).end ELSE q
           next == [q \in Places |-> F(q)]
           last == Last(Stops(next, p))
<1>1. Attributes(p).end = last
  BY DEF Attributes
<1>2. ASSUME NEW q \in Places PROVE Ahead(q, F(q))
  <2>1. Ahead(q, q)
    BY TokensAre DEF Ahead
  <2>2. ASSUME OpensAttributes(q) PROVE Ahead(q, AttributeList(q + 2).end)
    <3>1. Ahead(q, q + 2)
      BY <2>2, OpensIs
    <3>2. q + 2 \in Places
      BY <3>1, AheadIs
    <3>3. Ahead(q + 2, AttributeList(q + 2).end)
      BY <3>2, AttributeListIs
    <3> QED
      BY <3>1, <3>3, AheadIs
  <2> QED
    BY <2>1, <2>2
<1> HIDE DEF F
<1>3. \A q \in Places : next[q] = F(q)
  OBVIOUS
<1>4. next = [q \in Places |-> next[q]]
  BY <1>3
<1> HIDE DEF next
<1>5. Ahead(p, last)
  BY <1>2, <1>3, <1>4, UpwardsBy, LoopEndsAhead
<1> QED
  BY <1>1, <1>5

LEMMA LevelIs ==
  ASSUME tokens \in Texts, NEW p, Kind(p) = "*", NEW attributed
  PROVE  Ahead(p + 1, Level(p, attributed).end) /\ Ahead(p, Level(p, attributed).end)
<1> DEFINE q == After(p + 1, Qualifiers)
<1>1. Level(p, attributed).end = IF attributed THEN Attributes(q).end ELSE q
  BY DEF Level
<1>2. Ahead(p, p + 1) /\ p \in Places /\ p + 1 \in Places
  BY NextPlace
<1>3. Ahead(p + 1, q)
  <2>1. "none" \notin Qualifiers
    BY DEF Qualifiers
  <2> QED
    BY <1>2, <2>1, AfterIs DEF Ahead
<1> HIDE DEF q
<1>4. q \in Places
  BY <1>2, <1>3, AheadIs
<1>5. Ahead(q, Attributes(q).end)
  BY <1>4, AttributesIs
<1>6. Ahead(p + 1, Level(p, attributed).end)
  BY <1>1, <1>2, <1>3, <1>5, AheadIs
<1> QED
  BY <1>2, <1>6, AheadIs

LEMMA PointersIs ==
  ASSUME tokens \in Texts, NEW p \in Places, NEW ty, NEW attributed
  PROVE  Ahead(p, Pointers(p, ty, attributed).end)
<1> DEFINE F(q) == IF Kind(q) = "*" THEN Level(q, attributed).end ELSE q
           next == [q \in Places |-> F(q)]
           last == Last(Stops(next, p))
<1>1. Pointers(p, ty, attributed).end = last
  BY DEF Pointers
<1>2. ASSUME NEW q \in Places PROVE Ahead(q, F(q))
  <2>1. Ahead(q, q)
    BY TokensAre DEF Ahead
  <2>2. Kind(q) = "*" => Ahead(q, Level(q, attributed).end)
    BY LevelIs
  <2> QED
    BY <2>1, <2>2
<1> HIDE DEF F
<1>3. \A q \in Places : next[q] = F(q)
  OBVIOUS
<1>4. next = [q \in Places |-> next[q]]
  BY <1>3
<1> HIDE DEF next
<1>5. Ahead(p, last)
  BY <1>2, <1>3, <1>4, UpwardsBy, LoopEndsAhead
<1> QED
  BY <1>1, <1>5

LEMMA TypeSpecifierIs ==
  ASSUME tokens \in Texts, NEW p \in Places
  PROVE  Ahead(p, TypeSpecifier(p).end)
<1> DEFINE end == After(p, TypeSpecs \cup Qualifiers)
<1>1. TypeSpecifier(p).end = IF Kind(p) = "none" THEN p ELSE end
  BY DEF TypeSpecifier, Specified
<1>2. "none" \notin TypeSpecs \cup Qualifiers
  BY DEF TypeSpecs, Qualifiers, BaseSpecs, Signs
<1>3. Ahead(p, end)
  BY <1>2, AfterIs DEF Ahead
<1>4. Ahead(p, p)
  BY TokensAre DEF Ahead
<1> QED
  BY <1>1, <1>3, <1>4

LEMMA SpecifiersAre ==
  ASSUME NEW p
  PROVE  LET attrs == Attributes(After(p, StorageSpecs))
             spec == TypeSpecifier(attrs.end)
             s == Specifiers(p)
         IN s.end = spec.end /\ s.errors = spec.errors /\ s.ty = spec.ty /\ s.own = attrs.own
BY DEF Specifiers

\* There are no operators behind the end of the list.
LEMMA OperatorsAre ==
  (StmtKeywords \cup {"none", "eof", ";", "{", "}", "ident"}) \cap
    (DOMAIN Precedence \cup DOMAIN UnaryOps \cup DOMAIN PostfixOps \cup DOMAIN MemberKind) = {}
<1> DEFINE closed == StmtKeywords \cup {"none", "eof", ";", "{", "}", "ident"}
           levels == BinaryOps
<1>1. /\ IsSequence(levels) /\ Len(levels) = 10
      /\ levels[1] = {"||"} /\ levels[2] = {"&&"} /\ levels[3] = {"|"} /\ levels[4] = {"^"}
      /\ levels[5] = {"&"} /\ levels[6] = {"==", "!="} /\ levels[7] = {"<", ">", "<=", ">="}
      /\ levels[8] = {"<<", ">>"} /\ levels[9] = {"+", "-"} /\ levels[10] = {"*", "/", "%"}
  BY SequenceTen, Zenon DEF BinaryOps
<1>2. DOMAIN Precedence = UNION Range(levels)
  BY DEF Precedence
<1> HIDE DEF levels
<1>3. ASSUME NEW k \in closed, NEW i \in 1 .. 10 PROVE k \notin levels[i]
  <2>1. k \notin levels[1] /\ k \notin levels[2] /\ k \notin levels[3] /\ k \notin levels[4]
    BY <1>1 DEF StmtKeywords
  <2>2. k \notin levels[5] /\ k \notin levels[6] /\ k \notin levels[7] /\ k \notin levels[8]
    BY <1>1 DEF StmtKeywords
  <2>3. k \notin levels[9] /\ k \notin levels[10]
    BY <1>1 DEF StmtKeywords
  <2>4. i = 1 \/ i = 2 \/ i = 3 \/ i = 4 \/ i = 5 \/ i = 6 \/ i = 7 \/ i = 8 \/ i = 9 \/ i = 10
    <3> HIDE DEF closed
    <3> QED
      OBVIOUS
  <2> QED
    BY <2>1, <2>2, <2>3, <2>4, Zenon
<1>4. ASSUME NEW k \in DOMAIN Precedence PROVE k \notin closed
  <2>1. PICK i \in 1 .. 10 : k \in levels[i]
    BY <1>1, <1>2, <1>4, SequenceElim
  <2> QED
    BY <1>3, <2>1
<1>5. closed \cap (DOMAIN UnaryOps \cup DOMAIN PostfixOps \cup DOMAIN MemberKind) = {}
  BY DEF UnaryOps, PostfixOps, MemberKind, StmtKeywords
<1> QED
  BY <1>4, <1>5

LEMMA OperatorsAreTokens ==
  ASSUME NEW k,
         k \in DOMAIN Precedence \/ k \in DOMAIN UnaryOps \/ k \in DOMAIN PostfixOps
           \/ k \in DOMAIN MemberKind
  PROVE  k # "none" /\ k # "eof"
BY OperatorsAre, Zenon

LEMMA SpecifiersIs ==
  ASSUME tokens \in Texts, NEW p \in Places
  PROVE  Ahead(p, Specifiers(p).end)
<1> DEFINE q == After(p, StorageSpecs)
           e == Attributes(q).end
<1>1. Specifiers(p).end = TypeSpecifier(e).end
  BY SpecifiersAre
<1>2. "none" \notin StorageSpecs
  BY DEF StorageSpecs
<1>3. Ahead(p, q)
  BY <1>2, AfterIs DEF Ahead
<1> HIDE DEF q
<1>4. q \in Places
  BY <1>3, AheadIs
<1>5. Ahead(q, e)
  BY <1>4, AttributesIs
<1> HIDE DEF e
<1>6. e \in Places
  BY <1>4, <1>5, AheadIs
<1>7. Ahead(e, TypeSpecifier(e).end)
  BY <1>6, TypeSpecifierIs
<1> QED
  BY <1>1, <1>3, <1>4, <1>5, <1>6, <1>7, AheadIs

-----------------------------------------------------------------------------
(* The order of what is left to do.                                           *)

Rounds == {"items", "stmts"}

\* What begins, and what may begin only at a token.
Consuming ==
  {"item", "local", "declarator", "stmt", "expr", "assignment", "unary", "primary", "block"}
AtToken == {"item", "local", "stmt", "for_init", "block"}

IsLoop(t) ==
  /\ t = [do |-> t.do, ok |-> t.ok, at |-> t.at, height |-> t.height]
  /\ t.ok \in BOOLEAN /\ t.at \in 0 .. Len(tokens)

TaskIs(t) ==
  /\ t.do \in Tasks
  /\ t.do \in Handlers => IsLoop(t)
  /\ t.do = "expect" => t.k \notin {"none", "eof"}

\* Whatever returns None is caught at the latest by the loop over the items.
LastCatches(ts) == ts # <<>> => ts[Len(ts)].do = "items"

\* Statements and declarations begin at a token: where the parser is, or behind
\* one that was expected.
BeginAtTokens(ts, p) ==
  \A i \in 1 .. Len(ts) :
    /\ ts[i].do \in AtToken =>
         IF i = 1 THEN Kind(p) # "none" ELSE ts[i - 1].do = "expect"
    /\ ts[i].do = "block" => i = 1 /\ Kind(p) = "{"

\* A loop whose round has consumed nothing yet will consume, or has failed.
RoundsConsume(ts, p) ==
  \A j \in 1 .. Len(ts) :
    ts[j].do \in Rounds =>
      /\ ts[j].at <= p
      /\ ts[j].at = p =>
           IF j = 1 THEN ~ts[1].ok
           ELSE ts[1].do \in Consuming /\ \A i \in 2 .. j - 1 : ts[i].do \notin Handlers

Ordered(ts, p) ==
  /\ p \in Places
  /\ IsSequence(ts) /\ \A i \in 1 .. Len(ts) : TaskIs(ts[i])
  /\ LastCatches(ts) /\ BeginAtTokens(ts, p) /\ RoundsConsume(ts, p)

InOrder == tokens \in Texts /\ Ordered(todo, pos)

\* ts can take the place of the task h, from p on.
FitsOrder(h, ts, p) ==
  /\ IsSequence(ts) /\ \A i \in 1 .. Len(ts) : TaskIs(ts[i])
  /\ h.do = "items" => LastCatches(ts)
  /\ ts # <<>> => h.do # "expect"
  /\ ts = <<>> /\ h.do = "expect" => Kind(p) # "none"
  /\ BeginAtTokens(ts, p) /\ RoundsConsume(ts, p)
  /\ p = pos /\ h.do \in Consuming =>
       ts # <<>> /\ ts[1].do \in Consuming /\ \A i \in 1 .. Len(ts) : ts[i].do \notin Handlers

LEMMA StepInOrder ==
  ASSUME tokens \in Texts, Ordered(todo, pos), todo # <<>>,
         NEW ts, NEW p, Ahead(pos, p), FitsOrder(todo[1], ts, p)
  PROVE  Ordered(ts \o Tail(todo), p)
<1> DEFINE new == ts \o Tail(todo)
           n == Len(todo)
           k == Len(ts)
<1>1. /\ IsSequence(ts) /\ IsSequence(todo)
      /\ pos \in Nat /\ p \in Nat /\ pos <= p /\ p \in Places
  BY AheadIs DEF FitsOrder, Ordered
<1>2. /\ IsSequence(new) /\ k \in Nat /\ n \in Nat \ {0} /\ Len(new) = k + n - 1
      /\ \A i \in 1 .. k : new[i] = ts[i]
      /\ \A i \in 2 .. n : new[k + i - 1] = todo[i]
  BY <1>1, HeadReplaced
<1>3. /\ ts = <<>> <=> k = 0
      /\ new # <<>> <=> k + n - 1 # 0
  BY <1>1, <1>2, SequenceElim
<1> HIDE DEF new, n, k
<1>4. \A j \in 1 .. k + n - 1 :
        \/ j \in 1 .. k /\ new[j] = ts[j]
        \/ j > k /\ j - k + 1 \in 2 .. n /\ new[j] = todo[j - k + 1] /\ k + (j - k + 1) - 1 = j
  <2> SUFFICES ASSUME NEW j \in 1 .. k + n - 1, ~ (j \in 1 .. k)
               PROVE  j > k /\ j - k + 1 \in 2 .. n /\ new[j] = todo[j - k + 1] /\ k + (j - k + 1) - 1 = j
    BY <1>2
  <2>1. j > k /\ j - k + 1 \in 2 .. n /\ k + (j - k + 1) - 1 = j
    BY <1>2
  <2> QED
    BY <1>2, <2>1
<1>5. \A i \in 1 .. Len(new) : TaskIs(new[i])
  <2>1. \A i \in 1 .. n : TaskIs(todo[i])
    BY DEF Ordered, n
  <2>2. \A i \in 1 .. k : TaskIs(ts[i])
    BY DEF FitsOrder, k
  <2>3. \A i : i \in 2 .. n => i \in 1 .. n
    BY <1>2
  <2> QED
    BY <1>2, <1>4, <2>1, <2>2, <2>3
<1>6. LastCatches(new)
  <2>1. CASE n = 1
    <3>1. todo[1].do = "items"
      BY <1>1, <2>1 DEF Ordered, LastCatches, n
    <3>2. ts # <<>> => ts[k].do = "items"
      BY <3>1 DEF FitsOrder, LastCatches, k
    <3>3. new # <<>> => k \in 1 .. k /\ ts # <<>> /\ Len(new) = k
      BY <1>2, <1>3, <2>1
    <3> QED
      BY <1>2, <3>2, <3>3 DEF LastCatches
  <2>2. CASE n # 1
    <3>1. n \in 2 .. n /\ Len(new) = k + n - 1
      BY <1>2, <2>2
    <3>2. todo[n].do = "items"
      BY DEF Ordered, LastCatches, n
    <3> QED
      BY <1>2, <3>1, <3>2 DEF LastCatches
  <2> QED
    BY <2>1, <2>2
<1>7. BeginAtTokens(new, p)
  <2> SUFFICES ASSUME NEW j \in 1 .. k + n - 1
               PROVE  /\ new[j].do \in AtToken =>
                           IF j = 1 THEN Kind(p) # "none" ELSE new[j - 1].do = "expect"
                      /\ new[j].do = "block" => j = 1 /\ Kind(p) = "{"
    BY <1>2 DEF BeginAtTokens
  <2>1. \A i \in 1 .. k :
          /\ ts[i].do \in AtToken =>
               IF i = 1 THEN Kind(p) # "none" ELSE ts[i - 1].do = "expect"
          /\ ts[i].do = "block" => i = 1 /\ Kind(p) = "{"
    BY DEF FitsOrder, BeginAtTokens, k
  <2>2. \A i \in 2 .. n :
          (todo[i].do \in AtToken => todo[i - 1].do = "expect") /\ todo[i].do # "block"
    <3> SUFFICES ASSUME NEW i \in 2 .. n
                 PROVE  (todo[i].do \in AtToken => todo[i - 1].do = "expect") /\ todo[i].do # "block"
      OBVIOUS
    <3>1. i \in 1 .. n /\ i # 1
      BY <1>2
    <3> QED
      BY <3>1, Zenon DEF Ordered, BeginAtTokens, n
  <2>3. CASE j \in 1 .. k /\ new[j] = ts[j]
    <3>1. j = 1 \/ (j - 1 \in 1 .. k /\ new[j - 1] = ts[j - 1])
      BY <1>2, <2>3
    <3> QED
      BY <2>1, <2>3, <3>1, Zenon
  <2>4. CASE j > k /\ j - k + 1 \in 2 .. n /\ new[j] = todo[j - k + 1] /\ k + (j - k + 1) - 1 = j
    <3> DEFINE i == j - k + 1
    <3>1. i \in 2 .. n /\ new[j] = todo[i] /\ j = k + i - 1
      BY <2>4
    <3> HIDE DEF i
    <3>2. (new[j].do \in AtToken => todo[i - 1].do = "expect") /\ new[j].do # "block"
      BY <2>2, <3>1
    <3>3. CASE i = 2
      <4>1. ASSUME new[j].do \in AtToken
            PROVE  IF j = 1 THEN Kind(p) # "none" ELSE new[j - 1].do = "expect"
        <5>1. todo[1].do = "expect"
          BY <3>2, <3>3, <4>1
        <5>2. ts = <<>> /\ Kind(p) # "none"
          BY <5>1 DEF FitsOrder
        <5>3. j = 1
          BY <1>2, <1>3, <3>1, <3>3, <5>2
        <5> QED
          BY <5>2, <5>3
      <4> QED
        BY <3>2, <4>1, Zenon
    <3>4. CASE i # 2
      <4>1. i - 1 \in 2 .. n /\ j # 1 /\ j - 1 = k + (i - 1) - 1
        BY <1>2, <3>1, <3>4
      <4>2. new[j - 1] = todo[i - 1]
        BY <1>2, <4>1
      <4> QED
        BY <3>2, <4>1, <4>2, Zenon
    <3> QED
      BY <3>3, <3>4
  <2> QED
    BY <1>4, <2>3, <2>4
<1>8. RoundsConsume(new, p)
  <2> SUFFICES ASSUME NEW j \in 1 .. k + n - 1, new[j].do \in Rounds
               PROVE  /\ new[j].at <= p
                      /\ new[j].at = p =>
                           IF j = 1 THEN ~new[1].ok
                           ELSE new[1].do \in Consuming /\ \A i \in 2 .. j - 1 : new[i].do \notin Handlers
    BY <1>2 DEF RoundsConsume
  <2>1. \A i \in 1 .. k :
          ts[i].do \in Rounds =>
            /\ ts[i].at <= p
            /\ ts[i].at = p =>
                 IF i = 1 THEN ~ts[1].ok
                 ELSE ts[1].do \in Consuming /\ \A l \in 2 .. i - 1 : ts[l].do \notin Handlers
    BY DEF FitsOrder, RoundsConsume, k
  <2>2. \A i \in 2 .. n :
          todo[i].do \in Rounds =>
            /\ todo[i].at <= pos
            /\ todo[i].at = pos =>
                 todo[1].do \in Consuming /\ \A l \in 2 .. i - 1 : todo[l].do \notin Handlers
    <3> SUFFICES ASSUME NEW i \in 2 .. n, todo[i].do \in Rounds
                 PROVE  /\ todo[i].at <= pos
                        /\ todo[i].at = pos =>
                             todo[1].do \in Consuming /\ \A l \in 2 .. i - 1 : todo[l].do \notin Handlers
      OBVIOUS
    <3>1. i \in 1 .. n /\ i # 1
      BY <1>2
    <3> QED
      BY <3>1, Zenon DEF Ordered, RoundsConsume, n
  <2>3. CASE j \in 1 .. k /\ new[j] = ts[j]
    <3>1. 1 \in 1 .. k /\ \A i \in 2 .. j - 1 : i \in 1 .. k
      BY <1>2, <2>3
    <3>2. new[1] = ts[1] /\ \A i \in 2 .. j - 1 : new[i] = ts[i]
      BY <1>2, <3>1
    <3> QED
      BY <2>1, <2>3, <3>2, Zenon
  <2>4. CASE j > k /\ j - k + 1 \in 2 .. n /\ new[j] = todo[j - k + 1] /\ k + (j - k + 1) - 1 = j
    <3> DEFINE i == j - k + 1
    <3>1. i \in 2 .. n /\ new[j] = todo[i] /\ j = k + i - 1 /\ i \in 1 .. n
      BY <1>2, <2>4
    <3> HIDE DEF i
    <3>2. todo[i].do \in Rounds /\ todo[i].at <= pos
      BY <2>2, <3>1
    <3>3. todo[i].at \in Nat
      <4>1. TaskIs(todo[i]) /\ todo[i].do \in Handlers
        BY <3>1, <3>2 DEF Ordered, Rounds, Handlers, n
      <4>2. Len(tokens) \in Nat
        BY TokensAre
      <4> QED
        BY <4>1, <4>2 DEF TaskIs, IsLoop
    <3>4. ASSUME todo[i].at = p
          PROVE  j # 1 /\ new[1].do \in Consuming /\ \A l \in 2 .. j - 1 : new[l].do \notin Handlers
      <4>1. p = pos /\ todo[i].at = pos
        BY <1>1, <3>2, <3>3, <3>4
      <4>2. todo[1].do \in Consuming /\ \A l \in 2 .. i - 1 : todo[l].do \notin Handlers
        BY <2>2, <3>1, <3>2, <4>1
      <4>3. ts # <<>> /\ ts[1].do \in Consuming /\ \A l \in 1 .. k : ts[l].do \notin Handlers
        BY <4>1, <4>2 DEF FitsOrder, k
      <4>4. j # 1 /\ 1 \in 1 .. k
        BY <1>2, <1>3, <3>1, <4>3
      <4>5. ASSUME NEW l \in 2 .. j - 1 PROVE new[l].do \notin Handlers
        <5>1. CASE l \in 1 .. k
          BY <1>2, <4>3, <5>1
        <5>2. CASE l \notin 1 .. k
          <6>1. l - k + 1 \in 2 .. i - 1 /\ l - k + 1 \in 2 .. n /\ k + (l - k + 1) - 1 = l
            BY <1>2, <3>1, <5>2
          <6>2. new[l] = todo[l - k + 1]
            BY <1>2, <6>1
          <6> QED
            BY <4>2, <6>1, <6>2
        <5> QED
          BY <5>1, <5>2
      <4> QED
        BY <1>2, <4>3, <4>4, <4>5
    <3>5. todo[i].at <= p
      BY <1>1, <3>2, <3>3
    <3> QED
      BY <3>1, <3>4, <3>5, Zenon
  <2> QED
    BY <1>4, <2>3, <2>4
<1> QED
  BY <1>1, <1>2, <1>5, <1>6, <1>7, <1>8 DEF Ordered, new

\* The first task that handles a None of the first task of td.
IsHandlerOf(h, td) ==
  /\ h \in 2 .. Len(td) /\ td[h].do \in Handlers
  /\ \A i \in 2 .. h - 1 : td[i].do \notin Handlers

Resumed(h, td) == <<[td[h] EXCEPT !.ok = FALSE]>> \o SubSeq(td, h + 1, Len(td))

LEMMA HandlerExists ==
  ASSUME NEW td, IsSequence(td), td # <<>>, td[1].do # "items", LastCatches(td)
  PROVE  IsHandlerOf(Min({i \in DOMAIN td : i > 1 /\ td[i].do \in Handlers}), td)
<1> DEFINE S == {i \in DOMAIN td : i > 1 /\ td[i].do \in Handlers}
           n == Len(td)
<1>1. DOMAIN td = 1 .. n /\ n \in Nat \ {0} /\ td[n].do = "items"
  BY SequenceElim DEF LastCatches
<1> HIDE DEF n
<1>2. n > 1
  <2>1. n # 1
    BY <1>1
  <2> QED
    BY <1>1, <2>1
<1>3. S = {i \in 1 .. n : i > 1 /\ td[i].do \in Handlers}
  BY <1>1
<1>4. n \in S
  BY <1>1, <1>2, <1>3 DEF Handlers
<1>5. S \in SUBSET Nat
  BY <1>1, <1>3
<1> HIDE DEF S
<1> DEFINE h == Min(S)
<1>6. h \in S /\ \A y \in S : h <= y
  BY <1>4, <1>5, MinIsLeast
<1> HIDE DEF h
<1>7. h \in 2 .. n /\ td[h].do \in Handlers
  BY <1>1, <1>3, <1>6
<1>8. ASSUME NEW i \in 2 .. h - 1 PROVE td[i].do \notin Handlers
  <2>1. i \in 1 .. n /\ i > 1 /\ ~ (h <= i)
    BY <1>1, <1>7
  <2> QED
    BY <1>3, <1>6, <2>1
<1> QED
  BY <1>7, <1>8 DEF IsHandlerOf, h, S, n

GoesOnAt(new, h, td) ==
  /\ IsSequence(new) /\ Len(new) = Len(td) - h + 1
  /\ IsLoop(new[1]) /\ new[1].do = td[h].do /\ new[1].ok = FALSE
  /\ new[1].at = td[h].at /\ new[1].height = td[h].height
  /\ \A i \in h + 1 .. Len(td) : new[i - h + 1] = td[i]

LEMMA ResumedIs ==
  ASSUME NEW td, IsSequence(td), NEW h, IsHandlerOf(h, td), IsLoop(td[h])
  PROVE  GoesOnAt(Resumed(h, td), h, td)
<1> DEFINE r == [td[h] EXCEPT !.ok = FALSE]
           o == <<r>>
           s == SubSeq(td, h + 1, Len(td))
           new == Resumed(h, td)
           n == Len(td)
<1>1. n \in Nat \ {0} /\ h \in 2 .. n /\ h \in Nat /\ h <= n
  BY SequenceElim DEF IsHandlerOf
<1>2. IsLoop(r) /\ r.do = td[h].do /\ r.ok = FALSE /\ r.at = td[h].at /\ r.height = td[h].height
  <2> DEFINE t == td[h]
  <2>1. t = [do |-> t.do, ok |-> t.ok, at |-> t.at, height |-> t.height]
    BY DEF IsLoop
  <2>2. r = [do |-> t.do, ok |-> FALSE, at |-> t.at, height |-> t.height]
    <3> DEFINE a == t.do
               b == t.ok
               c == t.at
               d == t.height
    <3>1. t = [do |-> a, ok |-> b, at |-> c, height |-> d]
      BY <2>1
    <3>2. r = [t EXCEPT !.ok = FALSE]
      OBVIOUS
    <3> HIDE DEF a, b, c, d, t, r
    <3>3. r = [[do |-> a, ok |-> b, at |-> c, height |-> d] EXCEPT !.ok = FALSE]
      BY <3>1, <3>2, Zenon
    <3>4. r = [do |-> a, ok |-> FALSE, at |-> c, height |-> d]
      BY <3>3
    <3> QED
      BY <3>4 DEF a, c, d
  <2>3. t.at \in 0 .. Len(tokens)
    BY DEF IsLoop
  <2> HIDE DEF t, r
  <2>4. r.do = t.do /\ r.ok = FALSE /\ r.at = t.at /\ r.height = t.height
    BY <2>2
  <2> QED
    BY <2>2, <2>3, <2>4 DEF IsLoop, t
<1> HIDE DEF r
<1>3. IsSequence(o) /\ Len(o) = 1 /\ o[1] = r
  BY SequenceOne
<1>4. IsSequence(s) /\ Len(s) = n - h /\ \A i \in 1 .. n - h : s[i] = td[h + i]
  BY <1>1, SequenceDrop
<1>5. new = o \o s
  BY DEF Resumed, r
<1> HIDE DEF o, s, new, n
<1>6. /\ IsSequence(new) /\ Len(new) = Len(o) + Len(s)
      /\ \A i \in 1 .. Len(o) : new[i] = o[i]
      /\ \A i \in 1 .. Len(s) : new[Len(o) + i] = s[i]
  <2>1. IsSequence(o) /\ IsSequence(s)
    BY <1>3, <1>4
  <2> QED
    BY <1>5, <2>1, SequenceConcat
<1>7. Len(new) = n - h + 1 /\ new[1] = r
  BY <1>1, <1>3, <1>4, <1>6
<1>8. ASSUME NEW i \in h + 1 .. n PROVE new[i - h + 1] = td[i]
  <2>1. i - h \in 1 .. n - h /\ 1 + (i - h) = i - h + 1 /\ h + (i - h) = i
    BY <1>1
  <2>2. new[1 + (i - h)] = s[i - h] /\ s[i - h] = td[h + (i - h)]
    BY <1>3, <1>4, <1>6, <2>1
  <2> QED
    BY <2>1, <2>2
<1> QED
  BY <1>2, <1>6, <1>7, <1>8 DEF n, new, GoesOnAt

LEMMA FailInOrder ==
  ASSUME tokens \in Texts, Ordered(todo, pos), NEW p, Ahead(pos, p), NEW h, IsHandlerOf(h, todo)
  PROVE  Ordered(Resumed(h, todo), p)
<1> DEFINE new == Resumed(h, todo)
           n == Len(todo)
           m == n - h + 1
<1>1. /\ IsSequence(todo) /\ \A i \in 1 .. n : TaskIs(todo[i])
      /\ pos \in Nat /\ p \in Nat /\ pos <= p /\ p \in Places
  BY AheadIs DEF Ordered
<1>2. h \in 2 .. n /\ h \in 1 .. n /\ n \in Nat /\ todo[h].do \in Handlers
  BY <1>1, SequenceElim DEF IsHandlerOf
<1>3. TaskIs(todo[h]) /\ IsLoop(todo[h])
  BY <1>1, <1>2 DEF TaskIs
<1>4. /\ IsSequence(new) /\ Len(new) = m
      /\ IsLoop(new[1]) /\ new[1].do = todo[h].do /\ new[1].ok = FALSE /\ new[1].at = todo[h].at
      /\ \A i \in h + 1 .. n : new[i - h + 1] = todo[i]
  <2>1. IsSequence(todo) /\ IsLoop(todo[h])
    BY <1>1, <1>3
  <2>2. GoesOnAt(Resumed(h, todo), h, todo)
    BY <2>1, ResumedIs
  <2> QED
    BY <2>2 DEF GoesOnAt
<1> HIDE DEF new, n, m
<1>5. m = n - h + 1 /\ m \in Nat \ {0}
  BY <1>2 DEF m
<1>6. \A j \in 2 .. m : j + h - 1 \in h + 1 .. n /\ j + h - 1 \in 2 .. n /\ new[j] = todo[j + h - 1]
  <2> SUFFICES ASSUME NEW j \in 2 .. m
               PROVE  j + h - 1 \in h + 1 .. n /\ j + h - 1 \in 2 .. n /\ new[j] = todo[j + h - 1]
    OBVIOUS
  <2>1. j + h - 1 \in h + 1 .. n /\ j + h - 1 \in 2 .. n /\ (j + h - 1) - h + 1 = j
    BY <1>2, <1>5
  <2> QED
    BY <1>4, <2>1
<1>7. new[1].do \in Tasks /\ new[1].do \in Handlers /\ TaskIs(new[1])
  BY <1>2, <1>3, <1>4, Zenon DEF TaskIs, Handlers
<1>8. \A i \in 1 .. m : TaskIs(new[i])
  <2> SUFFICES ASSUME NEW i \in 1 .. m PROVE TaskIs(new[i])
    OBVIOUS
  <2>1. CASE i = 1
    BY <1>7, <2>1
  <2>2. CASE i # 1
    <3>1. i \in 2 .. m
      BY <1>5, <2>2
    <3>2. new[i] = todo[i + h - 1] /\ i + h - 1 \in 1 .. n
      BY <1>2, <1>6, <3>1
    <3> QED
      BY <1>1, <3>2
  <2> QED
    BY <2>1, <2>2
<1>9. LastCatches(new)
  <2>1. todo[n].do = "items"
    BY <1>1, <1>2, SequenceElim DEF Ordered, LastCatches, n
  <2>2. CASE m = 1
    <3>1. h = n
      BY <1>2, <1>5, <2>2
    <3> QED
      BY <1>4, <2>1, <2>2, <3>1 DEF LastCatches
  <2>3. CASE m # 1
    <3>1. m \in 2 .. m /\ m + h - 1 = n
      BY <1>2, <1>5, <2>3
    <3> QED
      BY <1>4, <1>6, <2>1, <3>1 DEF LastCatches
  <2> QED
    BY <2>2, <2>3
<1>10. BeginAtTokens(new, p)
  <2>1. new[1].do \notin AtToken /\ new[1].do # "block" /\ new[1].do # "expect"
    BY <1>7 DEF Handlers, AtToken
  <2>2. \A i \in 2 .. n :
          (todo[i].do \in AtToken => todo[i - 1].do = "expect") /\ todo[i].do # "block"
    <3> SUFFICES ASSUME NEW i \in 2 .. n
                 PROVE  (todo[i].do \in AtToken => todo[i - 1].do = "expect") /\ todo[i].do # "block"
      OBVIOUS
    <3>1. i \in 1 .. n /\ i # 1
      BY <1>2
    <3> QED
      BY <3>1, Zenon DEF Ordered, BeginAtTokens, n
  <2>3. ASSUME NEW j \in 2 .. m
        PROVE  (new[j].do \in AtToken => new[j - 1].do = "expect") /\ new[j].do # "block"
    <3>1. (new[j].do \in AtToken => todo[j + h - 2].do = "expect") /\ new[j].do # "block"
      <4>1. (j + h - 1) - 1 = j + h - 2
        BY <1>2, <1>5
      <4> QED
        BY <1>6, <2>2, <4>1
    <3>2. CASE j = 2
      <4>1. j + h - 2 = h /\ j - 1 = 1
        BY <1>2, <3>2
      <4> QED
        BY <1>4, <3>1, <4>1, Zenon
    <3>3. CASE j # 2
      <4>1. j - 1 \in 2 .. m /\ (j - 1) + h - 1 = j + h - 2
        BY <1>2, <1>5, <3>3
      <4>2. new[j - 1] = todo[j + h - 2]
        BY <1>6, <4>1
      <4> QED
        BY <3>1, <4>2, Zenon
    <3> QED
      BY <3>2, <3>3
  <2>4. \A j \in 1 .. m : j = 1 \/ j \in 2 .. m
    BY <1>5
  <2> QED
    BY <1>4, <2>1, <2>3, <2>4, Zenon DEF BeginAtTokens
<1>11. RoundsConsume(new, p)
  <2> SUFFICES ASSUME NEW j \in 1 .. m, new[j].do \in Rounds
               PROVE  /\ new[j].at <= p
                      /\ new[j].at = p =>
                           IF j = 1 THEN ~new[1].ok
                           ELSE new[1].do \in Consuming /\ \A i \in 2 .. j - 1 : new[i].do \notin Handlers
    BY <1>4 DEF RoundsConsume
  <2>1. \A i \in 2 .. n :
          todo[i].do \in Rounds =>
            /\ todo[i].at <= pos /\ todo[i].at \in Nat
            /\ todo[i].at = pos => \A l \in 2 .. i - 1 : todo[l].do \notin Handlers
    <3> SUFFICES ASSUME NEW i \in 2 .. n, todo[i].do \in Rounds
                 PROVE  /\ todo[i].at <= pos /\ todo[i].at \in Nat
                        /\ todo[i].at = pos => \A l \in 2 .. i - 1 : todo[l].do \notin Handlers
      OBVIOUS
    <3>1. i \in 1 .. n /\ i # 1
      BY <1>2
    <3>2. TaskIs(todo[i]) /\ todo[i].do \in Handlers
      BY <1>1, <3>1 DEF Rounds, Handlers
    <3>3. Len(tokens) \in Nat
      BY TokensAre
    <3>4. todo[i].at \in Nat
      BY <3>2, <3>3 DEF TaskIs, IsLoop
    <3> QED
      BY <3>1, <3>4, Zenon DEF Ordered, RoundsConsume, n
  <2>2. CASE j = 1
    <3>1. todo[h].do \in Rounds /\ todo[h].at = new[1].at
      BY <1>4, <2>2
    <3>2. todo[h].at <= pos /\ todo[h].at \in Nat
      BY <1>2, <2>1, <3>1
    <3>3. new[1].at <= p
      BY <1>1, <3>1, <3>2
    <3> QED
      BY <1>4, <2>2, <3>3
  <2>3. CASE j # 1
    <3>1. j \in 2 .. m
      BY <1>5, <2>3
    <3> DEFINE i == j + h - 1
    <3>2. i \in h + 1 .. n /\ i \in 2 .. n /\ new[j] = todo[i]
      BY <1>6, <3>1
    <3> HIDE DEF i
    <3>3. todo[i].at <= pos /\ todo[i].at \in Nat
          /\ (todo[i].at = pos => \A l \in 2 .. i - 1 : todo[l].do \notin Handlers)
      BY <2>1, <3>2
    <3>4. new[j].at # p
      <4> SUFFICES ASSUME new[j].at = p PROVE FALSE
        OBVIOUS
      <4>1. todo[i].at = pos
        BY <1>1, <3>2, <3>3
      <4>2. h \in 2 .. i - 1
        BY <1>2, <3>2
      <4> QED
        BY <1>2, <3>3, <4>1, <4>2
    <3>5. new[j].at <= p
      BY <1>1, <3>2, <3>3
    <3> QED
      BY <3>4, <3>5
  <2> QED
    BY <2>2, <2>3
<1> QED
  BY <1>1, <1>4, <1>8, <1>9, <1>10, <1>11 DEF Ordered, new

\* Tasks one after the other, none of which handles a None.
Fine(t) == TaskIs(t) /\ t.do \notin Handlers

Listed(ts) ==
  /\ IsSequence(ts) /\ ts # <<>>
  /\ \A i \in 1 .. Len(ts) : Fine(ts[i])
  /\ \A i \in 2 .. Len(ts) : (ts[i].do \in AtToken => ts[i - 1].do = "expect") /\ ts[i].do # "block"

LEMMA FineIs ==
  ASSUME NEW t, t.do \in Tasks \ (Handlers \cup {"expect"})
  PROVE  Fine(t)
BY DEF Fine, TaskIs

LEMMA CallIs ==
  ASSUME NEW name
  PROVE  Call(name).do = name
BY DEF Call

LEMMA OfIs ==
  ASSUME NEW name, NEW c
  PROVE  Of(name, c).do = name /\ Of(name, c).c = c
BY DEF Of

LEMMA ExpectIs ==
  ASSUME NEW k
  PROVE  /\ Expect(k).do = "expect" /\ Expect(k).k = k
         /\ k \notin {"none", "eof"} => Fine(Expect(k))
<1>1. Expect(k).do = "expect" /\ Expect(k).k = k
  BY DEF Expect
<1>2. "expect" \in Tasks \ Handlers
  BY DEF Tasks, Handlers
<1> QED
  BY <1>1, <1>2, Zenon DEF Fine, TaskIs

LEMMA BlockOfIs ==
  ASSUME NEW k
  PROVE  BlockOf(k).do = "block"
BY DEF BlockOf

LEMMA SlotIs ==
  ASSUME NEW k
  PROVE  Slot(k).do = "slot"
BY DEF Slot

LEMMA ClimbIs ==
  ASSUME NEW min
  PROVE  Climb(min).do = "climb"
BY DEF Climb

LEMMA ParamIs ==
  ASSUME NEW from
  PROVE  /\ Param(from).do = "param" /\ Param(from).from = from
         /\ MoreParams(from).do = "param_more" /\ MoreParams(from).from = from
BY DEF Param, MoreParams

LEMMA ListedFits ==
  ASSUME NEW ts, Listed(ts), NEW h, NEW p, h.do \notin {"items", "expect"},
         ts[1].do \in AtToken => Kind(p) # "none",
         ts[1].do = "block" => Kind(p) = "{",
         p = pos /\ h.do \in Consuming => ts[1].do \in Consuming
  PROVE  FitsOrder(h, ts, p)
<1>1. /\ IsSequence(ts) /\ ts # <<>> /\ Len(ts) \in Nat
      /\ \A i \in 1 .. Len(ts) : TaskIs(ts[i]) /\ ts[i].do \notin Handlers
  BY SequenceElim DEF Listed, Fine
<1>2. BeginAtTokens(ts, p)
  <2> SUFFICES ASSUME NEW i \in 1 .. Len(ts)
               PROVE  /\ ts[i].do \in AtToken =>
                           IF i = 1 THEN Kind(p) # "none" ELSE ts[i - 1].do = "expect"
                      /\ ts[i].do = "block" => i = 1 /\ Kind(p) = "{"
    BY DEF BeginAtTokens
  <2>1. i = 1 \/ i \in 2 .. Len(ts)
    BY <1>1, FirstOrLater, Zenon
  <2> QED
    BY <2>1, Zenon DEF Listed
<1>3. RoundsConsume(ts, p)
  <2>1. \A i \in 1 .. Len(ts) : ts[i].do \notin Rounds
    BY <1>1 DEF Rounds, Handlers
  <2> QED
    BY <2>1 DEF RoundsConsume
<1>4. h.do # "items" /\ h.do # "expect"
  OBVIOUS
<1> QED
  BY <1>1, <1>2, <1>3, <1>4, Zenon DEF FitsOrder

LEMMA NothingFits ==
  ASSUME NEW h, NEW p, h.do = "expect" => Kind(p) # "none", h.do \in Consuming => p # pos
  PROVE  FitsOrder(h, <<>>, p)
<1>1. IsSequence(<<>>) /\ Len(<<>>) = 0
  BY SequenceEmpty
<1> DEFINE s == <<>>
<1> HIDE DEF s
<1>2. IsSequence(s) /\ \A i \in 1 .. Len(s) : FALSE
  BY <1>1 DEF s
<1>3. BeginAtTokens(s, p) /\ RoundsConsume(s, p)
  BY <1>2, Zenon DEF BeginAtTokens, RoundsConsume
<1>4. FitsOrder(h, s, p)
  BY <1>2, <1>3, Zenon DEF FitsOrder, LastCatches, s
<1> QED
  BY <1>4 DEF s

\* What the invariant says of the first task.
LEMMA HeadIs ==
  ASSUME InOrder, NEW name, At(name)
  PROVE  /\ tokens \in Texts /\ pos \in Places /\ pos \in Nat /\ pos # 0 /\ Ahead(pos, pos)
         /\ todo # <<>> /\ Task = todo[1] /\ todo[1].do = name /\ TaskIs(todo[1])
         /\ IsSequence(todo) /\ LastCatches(todo) /\ Len(todo) \in Nat \ {0}
         /\ name \in AtToken => Kind(pos) # "none"
         /\ name = "block" => Kind(pos) = "{"
         /\ name \in Rounds => todo[1].at <= pos /\ (todo[1].at = pos => ~todo[1].ok)
<1>1. tokens \in Texts /\ pos \in Places /\ IsSequence(todo) /\ todo # <<>> /\ LastCatches(todo)
  BY DEF InOrder, Ordered, At
<1>2. Task = todo[1] /\ Len(todo) \in Nat \ {0}
  BY <1>1, SequenceTail DEF Task
<1>3. todo[1].do = name
  BY <1>2 DEF At, Task
<1>4. 1 \in 1 .. Len(todo)
  BY <1>2
<1>5. TaskIs(todo[1])
  BY <1>4 DEF InOrder, Ordered
<1>6. (name \in AtToken => Kind(pos) # "none") /\ (name = "block" => Kind(pos) = "{")
  BY <1>3, <1>4, Zenon DEF InOrder, Ordered, BeginAtTokens
<1>7. name \in Rounds => todo[1].at <= pos /\ (todo[1].at = pos => ~todo[1].ok)
  BY <1>3, <1>4, Zenon DEF InOrder, Ordered, RoundsConsume
<1>8. pos \in Nat /\ pos # 0 /\ Ahead(pos, pos)
  BY <1>1, TokensAre DEF Ahead, Places
<1> QED
  BY <1>1, <1>2, <1>3, <1>5, <1>6, <1>7, <1>8

LEMMA OrderedPrimed ==
  ASSUME tokens' = tokens, tokens \in Texts, Ordered(todo', pos')
  PROVE  InOrder'
<1>1. Places' = Places /\ \A p : Kind(p)' = Kind(p)
  BY DEF Places, Kind
<1>2. \A t : TaskIs(t)' = TaskIs(t)
  BY DEF TaskIs, IsLoop
<1>3. BeginAtTokens(todo, pos)' <=> BeginAtTokens(todo', pos')
  BY <1>1, Zenon DEF BeginAtTokens
<1> QED
  BY <1>1, <1>2, <1>3 DEF InOrder, Ordered, LastCatches, RoundsConsume

LEMMA StepKeepsOrder ==
  ASSUME InOrder, NEW name, At(name), NEW p, NEW ts, NEW vs, NEW es, Step(p, ts, vs, es),
         Ahead(pos, p), FitsOrder(todo[1], ts, p)
  PROVE  InOrder'
<1>1. tokens \in Texts /\ Ordered(todo, pos) /\ todo # <<>>
  BY DEF InOrder, At
<1>2. pos' = p /\ todo' = ts \o Tail(todo) /\ tokens' = tokens
  BY DEF Step
<1>3. Ordered(ts \o Tail(todo), p)
  BY <1>1, StepInOrder
<1> QED
  BY <1>1, <1>2, <1>3, OrderedPrimed

LEMMA FailKeepsOrder ==
  ASSUME InOrder, NEW name, At(name), name \notin Rounds, NEW p, NEW es, Fail(p, es), Ahead(pos, p)
  PROVE  InOrder'
<1> DEFINE h == Min({i \in DOMAIN todo : i > 1 /\ todo[i].do \in Handlers})
<1>1. tokens \in Texts /\ Ordered(todo, pos)
  BY DEF InOrder
<1>2. todo # <<>> /\ todo[1].do # "items" /\ IsSequence(todo) /\ LastCatches(todo)
  BY HeadIs DEF Rounds
<1>3. pos' = p /\ todo' = Resumed(h, todo) /\ tokens' = tokens
  BY DEF Fail, Resumed
<1>4. IsHandlerOf(h, todo)
  BY <1>2, HandlerExists
<1> HIDE DEF h
<1>5. Ordered(Resumed(h, todo), p)
  BY <1>1, <1>4, FailInOrder
<1> QED
  BY <1>1, <1>3, <1>5, OrderedPrimed

-----------------------------------------------------------------------------
(* What the nodes, the reports and the pending code hold.                     *)

IsSpan(s) ==
  /\ s = [file |-> s.file, lo |-> s.lo, hi |-> s.hi]
  /\ s.lo \in DOMAIN tokens /\ s.hi \in DOMAIN tokens /\ s.lo <= s.hi
  /\ s.file = tokens[s.lo].file

IsNode(n) ==
  n = [k |-> n.k, what |-> n.what, args |-> n.args, ty |-> n.ty, span |-> n.span] /\ IsSpan(n.span)

AreNodes(vs) == IsSequence(vs) /\ \A i \in 1 .. Len(vs) : IsNode(vs[i])

IsReport(d) == d.code \in {"E0302", "E0303", "E0304", "E0305", "E0306"} /\ d.at \in DOMAIN tokens

AreReports(ds) == IsSequence(ds) /\ \A i \in 1 .. Len(ds) : IsReport(ds[i])

\* What a task holds when the parser is at p.
Carries(t, p) ==
  /\ t.do = "make" => IsSpan(t.first) /\ (t.ends \notin {"value", "written"} => p > 1)
  /\ t.do \in {"make", "param", "block_end", "comma", "param_more", "finish_fn"} => t.from \in Nat
  /\ t.do \in {"declarator", "item_form", "finish_var", "more", "finish_fn"} => t.c.at \in DOMAIN tokens
  /\ t.do = "block_end" => t.open \in DOMAIN tokens
  /\ t.do \in Handlers => t.height \in Nat
  /\ t.do = "array_end" => t.height # 0

\* n values are enough for a task.
Enough(t, n) ==
  /\ t.do \in {"make", "param", "block_end"} => t.from <= n
  /\ t.do \in {"comma", "param_more", "finish_fn"} => t.from + 1 <= n
  /\ t.do = "make" /\ t.ends = "value" => t.from + 1 <= n
  /\ t.do \in Handlers => t.height <= n
  /\ t.do = "attach" => 2 <= n
  /\ t.do \in {"item_form", "array", "init", "finish_var", "assign_op", "ternary", "climb", "postfix"}
       => 1 <= n

Giving ==
  {"declarator", "params", "block", "stmt", "for_init", "slot", "local", "expr", "assignment",
   "unary", "primary"}
Closing == {"make", "param", "block_end", "comma", "param_more", "finish_fn"}

\* A task that begins with n values ends with at least m of them.
Yields(t, n, m) ==
  /\ t.do \in Giving => m <= n + 1
  /\ t.do \in Closing => m <= t.from + 1
  /\ t.do \in Handlers => m <= t.height
  /\ t.do = "attach" => m <= n - 1
  /\ t.do \notin Giving \cup Closing \cup Handlers \cup {"attach"} => m <= n

\* Each task of ts finds b[i] values, and what handles a None finds its own there.
Heights(ts, b) ==
  /\ \A i \in 1 .. Len(ts) + 1 : b[i] \in Nat
  /\ \A i \in 1 .. Len(ts) : Enough(ts[i], b[i]) /\ Yields(ts[i], b[i], b[i + 1])
  /\ \A i \in 1 .. Len(ts) : ts[i].do \in Handlers => \A j \in 1 .. i : ts[i].height <= b[j]

Supplied(ts, n) == \E b : b[1] <= n /\ Heights(ts, b)

ShapedBy(ts, vs, ds, p) ==
  /\ AreNodes(vs) /\ AreReports(ds)
  /\ \A i \in 1 .. Len(ts) : Carries(ts[i], p)
  /\ Supplied(ts, Len(vs))

Shaped == ShapedBy(todo, vals, diagnostics, pos) /\ panicked \in BOOLEAN

\* x values are as many as there are now, or as many as the task h leaves.
Reaches(h, x) == Len(vals) <= x \/ \A m \in Nat : Yields(h, Len(vals), m) => m <= x

\* With n values, ts can take the place of the task h, from p on.
Provides(h, ts, n, p) ==
  \E c :
    /\ c[1] <= n /\ Heights(ts, c)
    /\ \A m \in Nat : Yields(h, Len(vals), m) => m <= c[Len(ts) + 1]
    /\ \A i \in 1 .. Len(ts) : Carries(ts[i], p) /\ Reaches(h, c[i])

LEMMA MoreYields ==
  ASSUME NEW t, NEW n \in Nat, NEW o \in Nat, n <= o, NEW m \in Nat, Yields(t, n, m)
  PROVE  Yields(t, o, m)
BY DEF Yields

LEMMA FewerYields ==
  ASSUME NEW t, NEW p, Carries(t, p), NEW n \in Nat, NEW m \in Nat, NEW o \in Nat, o <= m, Yields(t, n, m)
  PROVE  Yields(t, n, o)
BY DEF Yields, Carries, Closing

LEMMA CarriesOn ==
  ASSUME NEW t, NEW p \in Nat, NEW q \in Nat, p <= q, Carries(t, p)
  PROVE  Carries(t, q)
BY DEF Carries

LEMMA ReportsJoin ==
  ASSUME NEW ds, AreReports(ds), NEW es, AreReports(es)
  PROVE  AreReports(ds \o es)
<1>1. IsSequence(ds) /\ AreReports(ds) /\ IsSequence(es)
  BY DEF AreReports
<1> DEFINE all == ds \o es
<1>2. /\ IsSequence(all) /\ Len(all) = Len(ds) + Len(es)
      /\ \A i \in 1 .. Len(ds) : all[i] = ds[i]
      /\ \A i \in 1 .. Len(es) : all[Len(ds) + i] = es[i]
  BY <1>1, SequenceConcat
<1>3. Len(ds) \in Nat /\ Len(es) \in Nat
  BY <1>1, SequenceElim
<1> HIDE DEF all
<1>4. ASSUME NEW i \in 1 .. Len(all) PROVE IsReport(all[i])
  <2>1. CASE i \in 1 .. Len(ds)
    BY <1>1, <1>2, <2>1 DEF AreReports
  <2>2. CASE i \notin 1 .. Len(ds)
    <3>1. i - Len(ds) \in 1 .. Len(es) /\ Len(ds) + (i - Len(ds)) = i
      BY <1>2, <1>3, <2>2
    <3>2. all[i] = es[i - Len(ds)]
      BY <1>2, <3>1
    <3> QED
      BY <3>1, <3>2 DEF AreReports
  <2> QED
    BY <2>1, <2>2
<1> QED
  BY <1>2, <1>4 DEF AreReports, all

LEMMA MoreEnough ==
  ASSUME NEW t, NEW p, Carries(t, p), NEW n \in Nat, NEW m \in Nat, n <= m, Enough(t, n)
  PROVE  Enough(t, m)
BY DEF Enough, Carries

LEMMA StepShapes ==
  ASSUME InOrder, Shaped, todo # <<>>,
         NEW ts, IsSequence(ts), NEW p, Ahead(pos, p), NEW vs, AreNodes(vs), NEW es, AreReports(es),
         Provides(todo[1], ts, Len(vs), p)
  PROVE  ShapedBy(ts \o Tail(todo), vs, diagnostics \o es, p)
<1> DEFINE new == ts \o Tail(todo)
           n == Len(todo)
           k == Len(ts)
           L == Len(vals)
<1>1. /\ IsSequence(todo) /\ tokens \in Texts
      /\ pos \in Nat /\ p \in Nat /\ pos <= p
  BY AheadIs DEF InOrder, Ordered
<1>2. /\ IsSequence(new) /\ k \in Nat /\ n \in Nat \ {0} /\ Len(new) = k + n - 1
      /\ \A i \in 1 .. k : new[i] = ts[i]
      /\ \A i \in 2 .. n : new[k + i - 1] = todo[i]
  BY <1>1, HeadReplaced
<1>3. L \in Nat /\ Len(vs) \in Nat
  BY SequenceElim DEF Shaped, ShapedBy, AreNodes
<1>4. PICK b : b[1] <= L /\ Heights(todo, b)
  BY DEF Shaped, ShapedBy, Supplied
<1>5. PICK c : /\ c[1] <= Len(vs) /\ Heights(ts, c)
               /\ \A m \in Nat : Yields(todo[1], L, m) => m <= c[k + 1]
               /\ \A i \in 1 .. k : Carries(ts[i], p) /\ Reaches(todo[1], c[i])
  BY DEF Provides
<1>6. \A i \in 1 .. n : Carries(todo[i], pos)
  BY DEF Shaped, ShapedBy
<1> HIDE DEF new, n, k
<1>7. \A j \in 1 .. k + n - 1 :
        \/ j \in 1 .. k /\ new[j] = ts[j]
        \/ j > k /\ j - k + 1 \in 2 .. n /\ new[j] = todo[j - k + 1] /\ k + (j - k + 1) - 1 = j
  <2> SUFFICES ASSUME NEW j \in 1 .. k + n - 1, ~ (j \in 1 .. k)
               PROVE  j > k /\ j - k + 1 \in 2 .. n /\ new[j] = todo[j - k + 1] /\ k + (j - k + 1) - 1 = j
    BY <1>2
  <2>1. j > k /\ j - k + 1 \in 2 .. n /\ k + (j - k + 1) - 1 = j
    BY <1>2
  <2> QED
    BY <1>2, <2>1
<1>8. \A j \in 1 .. Len(new) : Carries(new[j], p)
  <2> SUFFICES ASSUME NEW j \in 1 .. k + n - 1 PROVE Carries(new[j], p)
    BY <1>2
  <2>1. CASE j \in 1 .. k /\ new[j] = ts[j]
    BY <1>5, <2>1
  <2>2. CASE j - k + 1 \in 2 .. n /\ new[j] = todo[j - k + 1]
    <3>1. j - k + 1 \in 1 .. n
      BY <1>2, <2>2
    <3> QED
      BY <1>1, <1>6, <2>2, <3>1, CarriesOn
  <2> QED
    BY <1>7, <2>1, <2>2
<1>9. Supplied(new, Len(vs))
  <2> DEFINE d == [i \in 1 .. k + n |-> IF i <= k THEN c[i] ELSE b[i - k + 1]]
  <2>1. /\ \A i \in 1 .. k : d[i] = c[i]
        /\ \A i \in k + 1 .. k + n : d[i] = b[i - k + 1]
    BY <1>2
  <2> HIDE DEF d
  <2>2. /\ \A i \in 1 .. n + 1 : b[i] \in Nat
        /\ \A i \in 1 .. n : Enough(todo[i], b[i]) /\ Yields(todo[i], b[i], b[i + 1])
        /\ \A i \in 1 .. n : todo[i].do \in Handlers => \A j \in 1 .. i : todo[i].height <= b[j]
    BY <1>4 DEF Heights, n
  <2>3. /\ \A i \in 1 .. k + 1 : c[i] \in Nat
        /\ \A i \in 1 .. k : Enough(ts[i], c[i]) /\ Yields(ts[i], c[i], c[i + 1])
        /\ \A i \in 1 .. k : ts[i].do \in Handlers => \A j \in 1 .. i : ts[i].height <= c[j]
    BY <1>5 DEF Heights, k
  <2>4. b[1] \in Nat /\ b[2] \in Nat /\ Yields(todo[1], b[1], b[2])
    <3>1. 1 \in 1 .. n + 1 /\ 2 \in 1 .. n + 1 /\ 1 \in 1 .. n /\ 1 + 1 = 2
      BY <1>2
    <3> QED
      BY <2>2, <3>1
  <2>5. Yields(todo[1], L, b[2])
    BY <1>3, <1>4, <2>4, MoreYields
  <2>6. b[2] <= c[k + 1] /\ c[k + 1] \in Nat
    <3>1. k + 1 \in 1 .. k + 1
      BY <1>2
    <3> QED
      BY <1>5, <2>3, <2>4, <2>5, <3>1
  <2>7. d[k + 1] = b[2]
    <3>1. k + 1 \in k + 1 .. k + n /\ (k + 1) - k + 1 = 2
      BY <1>2
    <3> QED
      BY <2>1, <3>1
  <2>8. d[1] <= Len(vs) /\ \A i \in 1 .. k + n : d[i] \in Nat
    <3>1. d[1] <= Len(vs)
      <4>1. CASE k = 0
        BY <1>3, <1>5, <2>4, <2>6, <2>7, <4>1
      <4>2. CASE k # 0
        <5>1. 1 \in 1 .. k
          BY <1>2, <4>2
        <5> QED
          BY <1>5, <2>1, <5>1
      <4> QED
        BY <4>1, <4>2
    <3>2. ASSUME NEW i \in 1 .. k + n PROVE d[i] \in Nat
      <4>1. CASE i \in 1 .. k
        <5>1. i \in 1 .. k + 1
          BY <1>2, <4>1
        <5> QED
          BY <2>1, <2>3, <4>1, <5>1
      <4>2. CASE i \notin 1 .. k
        <5>1. i \in k + 1 .. k + n /\ i - k + 1 \in 1 .. n + 1
          BY <1>2, <4>2
        <5> QED
          BY <2>1, <2>2, <5>1
      <4> QED
        BY <4>1, <4>2
    <3> QED
      BY <3>1, <3>2
  <2>9. ASSUME NEW j \in 1 .. k + n - 1
        PROVE  Enough(new[j], d[j]) /\ Yields(new[j], d[j], d[j + 1])
    <3>1. CASE j \in 1 .. k /\ new[j] = ts[j]
      <4>1. Enough(ts[j], d[j]) /\ Yields(ts[j], d[j], c[j + 1])
        BY <2>1, <2>3, <3>1
      <4>2. CASE j = k
        <5>1. d[j + 1] = b[2] /\ c[j + 1] \in Nat /\ b[2] <= c[j + 1]
          BY <2>6, <2>7, <4>2
        <5>2. Yields(ts[j], d[j], b[2])
          <6>1. d[j] \in Nat /\ Carries(ts[j], p)
            <7>1. j \in 1 .. k + n
              BY <1>2
            <7> QED
              BY <1>5, <2>8, <3>1, <7>1
          <6> QED
            BY <2>4, <4>1, <5>1, <6>1, FewerYields
        <5> QED
          BY <3>1, <4>1, <5>1, <5>2
      <4>3. CASE j # k
        <5>1. j + 1 \in 1 .. k
          BY <1>2, <3>1, <4>3
        <5> QED
          BY <2>1, <3>1, <4>1, <5>1
      <4> QED
        BY <4>2, <4>3
    <3>2. CASE j > k /\ j - k + 1 \in 2 .. n /\ new[j] = todo[j - k + 1]
      <4> DEFINE i == j - k + 1
      <4>1. i \in 1 .. n /\ j \in k + 1 .. k + n /\ j + 1 \in k + 1 .. k + n /\ (j + 1) - k + 1 = i + 1
        BY <1>2, <3>2
      <4>2. d[j] = b[i] /\ d[j + 1] = b[i + 1]
        <5>1. d[j] = b[j - k + 1] /\ d[j + 1] = b[(j + 1) - k + 1]
          BY <2>1, <4>1
        <5> QED
          BY <4>1, <5>1
      <4>3. Enough(todo[i], b[i]) /\ Yields(todo[i], b[i], b[i + 1])
        BY <2>2, <4>1
      <4> QED
        BY <3>2, <4>2, <4>3
    <3> QED
      BY <1>7, <3>1, <3>2
  <2>10. ASSUME NEW j \in 1 .. k + n - 1, new[j].do \in Handlers, NEW x \in 1 .. j
         PROVE  new[j].height <= d[x]
    <3>1. CASE j \in 1 .. k /\ new[j] = ts[j]
      <4>1. x \in 1 .. k
        BY <1>2, <3>1
      <4> QED
        BY <2>1, <2>3, <2>10, <3>1, <4>1
    <3>2. CASE j > k /\ j - k + 1 \in 2 .. n /\ new[j] = todo[j - k + 1]
      <4> DEFINE i == j - k + 1
      <4>1. i \in 1 .. n /\ 1 \in 1 .. i /\ 2 \in 1 .. i
        BY <1>2, <3>2
      <4>2. new[j] = todo[i]
        BY <3>2
      <4> HIDE DEF i
      <4>3. new[j].height \in Nat
        BY <1>6, <2>10, <4>1, <4>2 DEF Carries
      <4>4. \A y \in 1 .. i : new[j].height <= b[y]
        BY <2>2, <2>10, <4>1, <4>2
      <4>5. CASE x \in 1 .. k
        <5>1. d[x] = c[x] /\ c[x] \in Nat /\ Reaches(todo[1], c[x])
          <6>1. x \in 1 .. k + 1
            BY <1>2, <4>5
          <6> QED
            BY <1>5, <2>1, <2>3, <4>5, <6>1
        <5>2. new[j].height <= b[1] /\ new[j].height <= b[2]
          BY <4>1, <4>4
        <5>3. L <= c[x] \/ b[2] <= c[x]
          BY <2>4, <2>5, <5>1 DEF Reaches
        <5> HIDE DEF L
        <5> QED
          BY <1>3, <1>4, <2>4, <4>3, <5>1, <5>2, <5>3
      <4>6. CASE x \notin 1 .. k
        <5>1. x \in k + 1 .. k + n /\ x - k + 1 \in 1 .. i
          BY <1>2, <4>6 DEF i
        <5> QED
          BY <2>1, <4>4, <5>1
      <4> QED
        BY <4>5, <4>6
    <3> QED
      BY <1>7, <3>1, <3>2
  <2>11. Heights(new, d)
    <3>1. Len(new) = k + n - 1 /\ Len(new) + 1 = k + n
      BY <1>2
    <3> QED
      BY <2>8, <2>9, <2>10, <3>1 DEF Heights
  <2> QED
    BY <2>8, <2>11 DEF Supplied
<1>10. AreReports(diagnostics \o es)
  BY ReportsJoin DEF Shaped, ShapedBy
<1> QED
  BY <1>8, <1>9, <1>10 DEF ShapedBy, new

LEMMA FailShapes ==
  ASSUME InOrder, Shaped, NEW h, IsHandlerOf(h, todo), NEW p, Ahead(pos, p), NEW es, AreReports(es)
  PROVE  ShapedBy(Resumed(h, todo), vals, diagnostics \o es, p)
<1> DEFINE new == Resumed(h, todo)
           n == Len(todo)
           L == Len(vals)
<1>1. /\ IsSequence(todo) /\ \A i \in 1 .. n : TaskIs(todo[i])
      /\ pos \in Nat /\ p \in Nat /\ pos <= p /\ tokens \in Texts
  BY AheadIs DEF InOrder, Ordered
<1>2. h \in 2 .. n /\ h \in 1 .. n /\ n \in Nat /\ todo[h].do \in Handlers
  BY <1>1, SequenceElim DEF IsHandlerOf
<1>3. IsLoop(todo[h])
  BY <1>1, <1>2 DEF TaskIs
<1>4. /\ IsSequence(new) /\ Len(new) = n - h + 1
      /\ new[1].do = todo[h].do /\ new[1].height = todo[h].height
      /\ \A i \in h + 1 .. n : new[i - h + 1] = todo[i]
  <2>1. IsSequence(todo) /\ IsLoop(todo[h])
    BY <1>1, <1>3
  <2>2. GoesOnAt(Resumed(h, todo), h, todo)
    BY <2>1, ResumedIs
  <2> QED
    BY <2>2 DEF GoesOnAt
<1>5. PICK b : b[1] <= L /\ Heights(todo, b)
  BY DEF Shaped, ShapedBy, Supplied
<1>6. AreNodes(vals) /\ AreReports(diagnostics) /\ \A i \in 1 .. n : Carries(todo[i], pos)
  BY DEF Shaped, ShapedBy
<1>7. L \in Nat
  BY <1>6, SequenceElim DEF AreNodes
<1> HIDE DEF new, n, L
<1>8. /\ \A i \in 1 .. n + 1 : b[i] \in Nat
      /\ \A i \in 1 .. n : Enough(todo[i], b[i]) /\ Yields(todo[i], b[i], b[i + 1])
      /\ \A i \in 1 .. n : todo[i].do \in Handlers => \A j \in 1 .. i : todo[i].height <= b[j]
  BY <1>5 DEF Heights, n
<1>9. \A j \in 1 .. Len(new) : j = 1 \/ (j + h - 1 \in h + 1 .. n /\ new[j] = todo[j + h - 1])
  <2> SUFFICES ASSUME NEW j \in 1 .. n - h + 1, j # 1
               PROVE  j + h - 1 \in h + 1 .. n /\ new[j] = todo[j + h - 1]
    BY <1>4
  <2>1. j + h - 1 \in h + 1 .. n /\ (j + h - 1) - h + 1 = j
    BY <1>2
  <2> QED
    BY <1>4, <2>1
<1>10. Carries(new[1], p) /\ todo[h].height \in Nat /\ todo[h].height <= L
  <2>1. Carries(todo[h], pos) /\ todo[h].height \in Nat
    BY <1>2, <1>6 DEF Carries
  <2>2. todo[h].height <= b[1] /\ b[1] \in Nat
    <3>1. 1 \in 1 .. h /\ 1 \in 1 .. n + 1
      BY <1>2
    <3> QED
      BY <1>2, <1>8, <3>1
  <2>3. Carries(new[1], p)
    BY <1>2, <1>4, <2>1 DEF Carries, Handlers
  <2> QED
    BY <1>5, <1>7, <2>1, <2>2, <2>3
<1>11. \A j \in 1 .. Len(new) : Carries(new[j], p)
  <2> SUFFICES ASSUME NEW j \in 1 .. Len(new), j # 1 PROVE Carries(new[j], p)
    BY <1>10
  <2>1. j + h - 1 \in 1 .. n /\ new[j] = todo[j + h - 1]
    BY <1>2, <1>9
  <2> QED
    BY <1>1, <1>6, <2>1, CarriesOn
<1>12. Supplied(new, L)
  <2> DEFINE d == [i \in 1 .. n - h + 2 |-> IF i = 1 THEN todo[h].height ELSE b[i + h - 1]]
  <2>1. d[1] = todo[h].height /\ \A i \in 2 .. n - h + 2 : d[i] = b[i + h - 1]
    BY <1>2
  <2> HIDE DEF d
  <2>2. ASSUME NEW i \in 1 .. n - h + 2 PROVE d[i] \in Nat
    <3>1. CASE i = 1
      BY <1>10, <2>1, <3>1
    <3>2. CASE i # 1
      <4>1. i \in 2 .. n - h + 2 /\ i + h - 1 \in 1 .. n + 1
        BY <1>2, <3>2
      <4> QED
        BY <1>8, <2>1, <4>1
    <3> QED
      BY <3>1, <3>2
  <2>3. ASSUME NEW j \in 1 .. n - h + 1
        PROVE  Enough(new[j], d[j]) /\ Yields(new[j], d[j], d[j + 1])
    <3>1. d[j + 1] = b[j + h]
      <4>1. j + 1 \in 2 .. n - h + 2 /\ (j + 1) + h - 1 = j + h
        BY <1>2
      <4> QED
        BY <2>1, <4>1
    <3>2. CASE j = 1
      <4>1. Yields(todo[h], b[h], b[h + 1])
        BY <1>2, <1>8
      <4>2. b[h + 1] <= todo[h].height /\ d[2] = b[h + 1]
        <5>1. j + 1 = 2 /\ j + h = h + 1
          BY <1>2, <3>2
        <5> QED
          BY <1>2, <3>1, <4>1, <5>1 DEF Yields
      <4>3. Enough(new[1], d[1])
        BY <1>2, <1>4, <1>10, <2>1 DEF Enough, Handlers
      <4>4. Yields(new[1], d[1], d[2])
        BY <1>2, <1>4, <4>2 DEF Yields, Handlers, Giving, Closing
      <4>5. 1 + 1 = 2
        OBVIOUS
      <4> QED
        BY <3>2, <4>3, <4>4, <4>5
    <3>3. CASE j # 1
      <4>1. new[j] = todo[j + h - 1] /\ j + h - 1 \in 1 .. n /\ (j + h - 1) + 1 = j + h
        BY <1>2, <1>4, <1>9, <3>3
      <4>2. d[j] = b[j + h - 1]
        <5>1. j \in 2 .. n - h + 2
          BY <1>2, <3>3
        <5> QED
          BY <2>1, <5>1
      <4>3. Enough(todo[j + h - 1], b[j + h - 1]) /\ Yields(todo[j + h - 1], b[j + h - 1], b[(j + h - 1) + 1])
        BY <1>8, <4>1
      <4> QED
        BY <3>1, <4>1, <4>2, <4>3
    <3> QED
      BY <3>2, <3>3
  <2>4. ASSUME NEW j \in 1 .. n - h + 1, new[j].do \in Handlers, NEW x \in 1 .. j
        PROVE  new[j].height <= d[x]
    <3>1. CASE j = 1
      <4>1. x = 1
        BY <3>1
      <4> QED
        BY <1>4, <1>10, <2>1, <3>1, <4>1
    <3>2. CASE j # 1
      <4> DEFINE i == j + h - 1
      <4>1. new[j] = todo[i] /\ i \in 1 .. n
        BY <1>2, <1>4, <1>9, <3>2
      <4>2. \A y \in 1 .. i : new[j].height <= b[y]
        BY <1>8, <2>4, <4>1
      <4>3. CASE x = 1
        <5>1. h + 1 \in 1 .. i
          BY <1>2, <3>2
        <5>2. new[j].height <= b[h + 1] /\ b[h + 1] <= todo[h].height
          <6>1. Yields(todo[h], b[h], b[h + 1])
            BY <1>2, <1>8
          <6> QED
            BY <1>2, <4>2, <5>1, <6>1 DEF Yields
        <5>3. new[j].height \in Nat /\ b[h + 1] \in Nat
          <6>1. h + 1 \in 1 .. n + 1
            BY <1>2
          <6> QED
            BY <1>6, <1>8, <2>4, <4>1, <6>1 DEF Carries
        <5> QED
          BY <1>10, <2>1, <4>3, <5>2, <5>3
      <4>4. CASE x # 1
        <5>1. x \in 2 .. n - h + 2 /\ x + h - 1 \in 1 .. i
          BY <1>2, <4>4
        <5> QED
          BY <2>1, <4>2, <5>1
      <4> QED
        BY <4>3, <4>4
    <3> QED
      BY <3>1, <3>2
  <2>5. Heights(new, d)
    <3>1. Len(new) + 1 = n - h + 2
      BY <1>2, <1>4
    <3> QED
      BY <1>4, <2>2, <2>3, <2>4, <3>1 DEF Heights
  <2> QED
    BY <1>10, <2>1, <2>5 DEF Supplied
<1>13. AreReports(diagnostics \o es)
  BY <1>6, ReportsJoin
<1> QED
  BY <1>6, <1>11, <1>12, <1>13 DEF ShapedBy, new, L

\* What the invariant says of the values at the first task.
LEMMA HeadShaped ==
  ASSUME InOrder, Shaped, NEW name, At(name)
  PROVE  /\ Carries(todo[1], pos) /\ Enough(todo[1], Len(vals)) /\ Len(vals) \in Nat
         /\ AreNodes(vals) /\ IsSequence(vals)
<1>1. AreNodes(vals) /\ IsSequence(vals) /\ \A i \in 1 .. Len(todo) : Carries(todo[i], pos)
  BY DEF Shaped, ShapedBy, AreNodes
<1>2. PICK b : b[1] <= Len(vals) /\ Heights(todo, b)
  BY DEF Shaped, ShapedBy, Supplied
<1>3. Len(todo) \in Nat \ {0}
  BY HeadIs
<1>4. 1 \in 1 .. Len(todo) /\ 1 \in 1 .. Len(todo) + 1
  BY <1>3
<1>5. Enough(todo[1], b[1]) /\ b[1] \in Nat
  BY <1>2, <1>4 DEF Heights
<1>6. Len(vals) \in Nat
  BY <1>1, SequenceElim
<1>7. Carries(todo[1], pos)
  BY <1>1, <1>4
<1> QED
  BY <1>1, <1>2, <1>5, <1>6, <1>7, MoreEnough

LEMMA ShapedPrimed ==
  ASSUME tokens' = tokens, ShapedBy(todo', vals', diagnostics', pos'), panicked' \in BOOLEAN
  PROVE  Shaped'
<1>1. \A s : IsSpan(s)' <=> IsSpan(s)
  BY DEF IsSpan
<1>2. \A n : IsNode(n)' <=> IsNode(n)
  BY <1>1 DEF IsNode
<1>3. \A d : IsReport(d)' <=> IsReport(d)
  BY DEF IsReport
<1>4. \A t, p : Carries(t, p)' <=> Carries(t, p)
  BY <1>1 DEF Carries
<1> QED
  BY <1>2, <1>3, <1>4, Zenon DEF Shaped, ShapedBy, AreNodes, AreReports, Supplied, Heights, Enough, Yields

LEMMA StepKeepsShape ==
  ASSUME InOrder, Shaped, NEW name, At(name), NEW p, NEW ts, NEW vs, NEW es, Step(p, ts, vs, es),
         Ahead(pos, p), IsSequence(ts), AreNodes(vs), AreReports(es), Provides(todo[1], ts, Len(vs), p)
  PROVE  Shaped'
<1>1. todo # <<>>
  BY DEF At
<1>2. /\ pos' = p /\ todo' = ts \o Tail(todo) /\ tokens' = tokens /\ vals' = vs
      /\ diagnostics' = diagnostics \o es /\ panicked' \in BOOLEAN
  BY DEF Step, Shaped
<1>3. ShapedBy(ts \o Tail(todo), vs, diagnostics \o es, p)
  BY <1>1, StepShapes
<1> QED
  BY <1>2, <1>3, ShapedPrimed

LEMMA FailKeepsShape ==
  ASSUME InOrder, Shaped, NEW name, At(name), name \notin Rounds, NEW p, NEW es, Fail(p, es),
         Ahead(pos, p), AreReports(es)
  PROVE  Shaped'
<1> DEFINE h == Min({i \in DOMAIN todo : i > 1 /\ todo[i].do \in Handlers})
<1>1. todo # <<>> /\ todo[1].do # "items" /\ IsSequence(todo) /\ LastCatches(todo)
  BY HeadIs DEF Rounds
<1>2. /\ pos' = p /\ todo' = Resumed(h, todo) /\ tokens' = tokens /\ vals' = vals
      /\ diagnostics' = diagnostics \o es /\ panicked' \in BOOLEAN
  BY DEF Fail, Resumed, Shaped
<1>3. IsHandlerOf(h, todo)
  BY <1>1, HandlerExists
<1> HIDE DEF h
<1>4. ShapedBy(Resumed(h, todo), vals, diagnostics \o es, p)
  BY <1>3, FailShapes
<1> QED
  BY <1>2, <1>4, ShapedPrimed

-----------------------------------------------------------------------------
(* Spans, nodes and reports.                                                  *)

LEMMA TokenSpanOK ==
  ASSUME tokens \in Texts, NEW p \in DOMAIN tokens
  PROVE  IsSpan(TokenSpan(p)) /\ TokenSpan(p).lo = p
<1>1. p \in Nat
  BY TokensAre
<1> QED
  BY <1>1 DEF IsSpan, TokenSpan

LEMMA JoinOK ==
  ASSUME tokens \in Texts, NEW a, IsSpan(a), NEW b, IsSpan(b), a.file = b.file
  PROVE  /\ IsSpan(Join(a, b))
         /\ Join(a, b).lo = IF a.lo <= b.lo THEN a.lo ELSE b.lo
<1>1. /\ a.lo \in DOMAIN tokens /\ a.hi \in DOMAIN tokens /\ a.lo <= a.hi /\ a.file = tokens[a.lo].file
      /\ b.lo \in DOMAIN tokens /\ b.hi \in DOMAIN tokens /\ b.lo <= b.hi /\ b.file = tokens[b.lo].file
  BY DEF IsSpan
<1>2. a.lo \in Nat /\ a.hi \in Nat /\ b.lo \in Nat /\ b.hi \in Nat
  BY <1>1, TokensAre
<1> DEFINE lo == Min({a.lo, b.lo})
           hi == Max({a.hi, b.hi})
           file == a.file
<1>3. lo = IF a.lo <= b.lo THEN a.lo ELSE b.lo
  BY <1>2, LesserOfTwo
<1>4. hi = IF a.hi <= b.hi THEN b.hi ELSE a.hi
  BY <1>2, GreaterOfTwo
<1>5. Join(a, b) = [file |-> file, lo |-> lo, hi |-> hi]
  BY DEF Join
<1>6. file = tokens[a.lo].file /\ file = tokens[b.lo].file
  BY <1>1
<1> HIDE DEF lo, hi, file
<1>7. /\ lo \in DOMAIN tokens /\ hi \in DOMAIN tokens /\ lo <= hi
      /\ file = tokens[lo].file
  <2>1. lo \in DOMAIN tokens /\ hi \in DOMAIN tokens
    BY <1>1, <1>3, <1>4
  <2>2. lo <= hi
    BY <1>1, <1>2, <1>3, <1>4
  <2>3. file = tokens[lo].file
    BY <1>3, <1>6
  <2> QED
    BY <2>1, <2>2, <2>3
<1> QED
  BY <1>3, <1>5, <1>7 DEF IsSpan

LEMMA SpanFromOK ==
  ASSUME tokens \in Texts, pos \in Places, NEW s, IsSpan(s)
  PROVE  IsSpan(SpanFrom(s)) /\ (s.lo < pos => SpanFrom(s).lo = s.lo)
<1>1. /\ pos \in Nat \ {0} /\ pos <= Len(tokens) + 1 /\ Len(tokens) \in Nat \ {0}
      /\ DOMAIN tokens = 1 .. Len(tokens)
  BY TokensAre DEF Places
<1> DEFINE q == Max({pos - 1, 1})
           last == TokenSpan(q)
<1>2. q = IF pos - 1 <= 1 THEN 1 ELSE pos - 1
  BY <1>1, GreaterOfTwo
<1>3. SpanFrom(s) = IF last.file = s.file THEN Join(s, last) ELSE s
  BY DEF SpanFrom
<1> HIDE DEF q
<1>4. q \in DOMAIN tokens /\ (s.lo < pos /\ s.lo \in Nat /\ s.lo # 0 => s.lo <= q)
  BY <1>1, <1>2
<1>5. IsSpan(last) /\ last.lo = q
  BY <1>4, TokenSpanOK
<1>6. s.lo \in Nat /\ s.lo # 0
  BY <1>1 DEF IsSpan
<1> HIDE DEF last
<1>7. CASE last.file = s.file
  BY <1>3, <1>4, <1>5, <1>6, <1>7, JoinOK
<1>8. CASE last.file # s.file
  BY <1>3, <1>8
<1> QED
  BY <1>7, <1>8

LEMMA NodeIs ==
  ASSUME NEW k, NEW what, NEW args, NEW ty, NEW span, IsSpan(span)
  PROVE  IsNode(N(k, what, args, ty, span)) /\ N(k, what, args, ty, span).span = span
BY DEF IsNode, N

LEMMA NodeEdited ==
  ASSUME NEW n, IsNode(n), NEW x
  PROVE  /\ IsNode([n EXCEPT !.ty = x]) /\ [n EXCEPT !.ty = x].span = n.span
         /\ IsNode([n EXCEPT !.args = x]) /\ [n EXCEPT !.args = x].span = n.span
<1> DEFINE a == n.k
           b == n.what
           c == n.args
           d == n.ty
           e == n.span
           r == [n EXCEPT !.ty = x]
           s == [n EXCEPT !.args = x]
<1>1. n = [k |-> a, what |-> b, args |-> c, ty |-> d, span |-> e] /\ IsSpan(e)
  BY DEF IsNode
<1>2. r = [n EXCEPT !.ty = x] /\ s = [n EXCEPT !.args = x] /\ e = n.span
  OBVIOUS
<1> HIDE DEF a, b, c, d, e, r, s
<1>3. /\ r = [[k |-> a, what |-> b, args |-> c, ty |-> d, span |-> e] EXCEPT !.ty = x]
      /\ s = [[k |-> a, what |-> b, args |-> c, ty |-> d, span |-> e] EXCEPT !.args = x]
  BY <1>1, <1>2, Zenon
<1>4. /\ r = [k |-> a, what |-> b, args |-> c, ty |-> x, span |-> e]
      /\ s = [k |-> a, what |-> b, args |-> x, ty |-> d, span |-> e]
  BY <1>3
<1>5. IsNode(r) /\ r.span = e /\ IsNode(s) /\ s.span = e
  BY <1>1, <1>4 DEF IsNode
<1> QED
  BY <1>2, <1>5 DEF r, s

LEMMA NodeSpanned ==
  ASSUME NEW n, IsNode(n), NEW new, IsSpan(new)
  PROVE  IsNode([n EXCEPT !.span = new]) /\ [n EXCEPT !.span = new].span = new
<1> DEFINE a == n.k
           b == n.what
           c == n.args
           d == n.ty
           e == n.span
           r == [n EXCEPT !.span = new]
<1>1. n = [k |-> a, what |-> b, args |-> c, ty |-> d, span |-> e]
  BY DEF IsNode
<1>2. r = [n EXCEPT !.span = new]
  OBVIOUS
<1> HIDE DEF a, b, c, d, e, r
<1>3. r = [[k |-> a, what |-> b, args |-> c, ty |-> d, span |-> e] EXCEPT !.span = new]
  BY <1>1, <1>2, Zenon
<1>4. r = [k |-> a, what |-> b, args |-> c, ty |-> d, span |-> new]
  BY <1>3
<1>5. IsNode(r) /\ r.span = new
  BY <1>4 DEF IsNode
<1> QED
  BY <1>2, <1>5 DEF r

LEMMA NodesGrow ==
  ASSUME NEW vs, AreNodes(vs), NEW n, IsNode(n)
  PROVE  /\ AreNodes(Append(vs, n)) /\ Len(Append(vs, n)) = Len(vs) + 1
         /\ Append(vs, n)[Len(vs) + 1] = n
         /\ \A i \in 1 .. Len(vs) : Append(vs, n)[i] = vs[i]
<1> DEFINE new == Append(vs, n)
<1>1. IsSequence(vs) /\ \A i \in 1 .. Len(vs) : IsNode(vs[i])
  BY DEF AreNodes
<1>2. /\ IsSequence(new) /\ Len(new) = Len(vs) + 1 /\ new[Len(vs) + 1] = n
      /\ \A i \in 1 .. Len(vs) : new[i] = vs[i]
  BY <1>1, SequenceAppend
<1>3. Len(vs) \in Nat
  BY <1>1, SequenceElim
<1> HIDE DEF new
<1>4. \A i \in 1 .. Len(new) : IsNode(new[i])
  BY <1>1, <1>2, <1>3
<1> QED
  BY <1>2, <1>4 DEF AreNodes, new

LEMMA NodesBelow ==
  ASSUME NEW vs, AreNodes(vs), NEW m \in Nat, m <= Len(vs)
  PROVE  /\ AreNodes(SubSeq(vs, 1, m)) /\ Len(SubSeq(vs, 1, m)) = m
         /\ \A i \in 1 .. m : SubSeq(vs, 1, m)[i] = vs[i]
<1> DEFINE new == SubSeq(vs, 1, m)
<1>1. IsSequence(vs) /\ (\A i \in 1 .. Len(vs) : IsNode(vs[i])) /\ Len(vs) \in Nat
  BY SequenceElim DEF AreNodes
<1>2. 1 \in 1 .. Len(vs) + 1 /\ m \in 1 - 1 .. Len(vs) /\ m - 1 + 1 = m
  BY <1>1
<1>3. /\ IsSequence(new) /\ Len(new) = m - 1 + 1
      /\ \A i \in 1 .. m - 1 + 1 : new[i] = vs[1 + i - 1]
  BY <1>1, <1>2, SequenceSub
<1> HIDE DEF new
<1>4. Len(new) = m /\ \A i \in 1 .. m : new[i] = vs[i]
  <2>1. \A i \in 1 .. m : 1 + i - 1 = i
    OBVIOUS
  <2> QED
    BY <1>2, <1>3, <2>1
<1>5. \A i \in 1 .. m : IsNode(new[i])
  BY <1>1, <1>4
<1> QED
  BY <1>3, <1>4, <1>5 DEF AreNodes, new

LEMMA TopNode ==
  ASSUME NEW vs, AreNodes(vs), 1 <= Len(vs)
  PROVE  /\ vs # <<>> /\ IsNode(Last(vs)) /\ Last(vs) = vs[Len(vs)]
         /\ IsSpan(Last(vs).span)
         /\ AreNodes(Front(vs)) /\ Len(Front(vs)) = Len(vs) - 1
<1>1. IsSequence(vs) /\ (\A i \in 1 .. Len(vs) : IsNode(vs[i])) /\ Len(vs) \in Nat
  BY SequenceElim DEF AreNodes
<1>2. vs # <<>>
  BY <1>1, SequenceElim
<1> DEFINE f == Front(vs)
<1>3. /\ IsSequence(f) /\ Len(f) = Len(vs) - 1 /\ \A i \in 1 .. Len(vs) - 1 : f[i] = vs[i]
      /\ Last(vs) = vs[Len(vs)]
  BY <1>1, <1>2, SequenceFront
<1>4. Len(vs) \in 1 .. Len(vs) /\ IsNode(vs[Len(vs)])
  BY <1>1
<1> HIDE DEF f
<1>5. \A i \in 1 .. Len(f) : IsNode(f[i])
  BY <1>1, <1>3
<1> QED
  BY <1>2, <1>3, <1>4, <1>5 DEF AreNodes, IsNode, f

LEMMA NothingReported == AreReports(<<>>)
<1> DEFINE ds == <<>>
<1>1. IsSequence(ds) /\ Len(ds) = 0
  BY SequenceEmpty
<1> HIDE DEF ds
<1>2. AreReports(ds)
  BY <1>1 DEF AreReports
<1> QED
  BY <1>2 DEF ds

LEMMA ErrorIs ==
  ASSUME tokens \in Texts, NEW code \in {"E0302", "E0303", "E0304", "E0305", "E0306"}, NEW p \in Places
  PROVE  AreReports(Error(code, p))
<1> DEFINE d == [code |-> code, at |-> Min({p, Len(tokens)})]
           ds == <<d>>
<1>1. p \in Nat \ {0} /\ Len(tokens) \in Nat \ {0} /\ DOMAIN tokens = 1 .. Len(tokens)
  BY TokensAre DEF Places
<1>2. d.at = IF p <= Len(tokens) THEN p ELSE Len(tokens)
  BY <1>1, LesserOfTwo
<1>3. d.at \in DOMAIN tokens
  BY <1>1, <1>2
<1>4. IsReport(d)
  BY <1>3 DEF IsReport
<1>5. IsSequence(ds) /\ Len(ds) = 1 /\ ds[1] = d
  BY SequenceOne
<1>6. Error(code, p) = ds
  BY DEF Error
<1> HIDE DEF ds, d
<1>7. AreReports(ds)
  BY <1>4, <1>5 DEF AreReports
<1> QED
  BY <1>6, <1>7

LEMMA FlattenedReports ==
  ASSUME NEW ss, IsSequence(ss), \A i \in 1 .. Len(ss) : AreReports(ss[i])
  PROVE  AreReports(FlattenSeq(ss))
<1>1. CASE ss = <<>>
  BY <1>1, FlattenNothing, NothingReported
<1>2. CASE ss # <<>>
  <2>1. Len(ss) \in Nat /\ Len(ss) # 0
    BY <1>2, SequenceElim
  <2>2. PICK f : FlatBy(f, ss, Len(ss)) /\ FlattenSeq(ss) = f[Len(ss)]
    BY <1>2, FlattenIsFlat
  <2>3. /\ f[1] = ss[1]
        /\ \A i \in Nat \ {0} : i + 1 <= Len(ss) => f[i + 1] = f[i] \o ss[i + 1]
    BY <2>1, <2>2, FlatAt
  <2> DEFINE S == {i \in Nat : i \in 1 .. Len(ss) => AreReports(f[i])}
  <2>4. 0 \in S
    OBVIOUS
  <2>5. ASSUME NEW n \in Nat, n \in S PROVE n + 1 \in S
    <3> SUFFICES ASSUME n + 1 \in 1 .. Len(ss) PROVE AreReports(f[n + 1])
      OBVIOUS
    <3>1. AreReports(ss[n + 1])
      OBVIOUS
    <3>2. CASE n = 0
      BY <2>3, <3>1, <3>2
    <3>3. CASE n # 0
      <4>1. n \in 1 .. Len(ss) /\ f[n + 1] = f[n] \o ss[n + 1]
        <5>1. n \in 1 .. Len(ss) /\ n \in Nat \ {0} /\ n + 1 <= Len(ss)
          BY <2>1, <3>3
        <5> QED
          BY <2>3, <5>1
      <4>2. AreReports(f[n])
        BY <2>5, <4>1
      <4> QED
        BY <3>1, <4>1, <4>2, ReportsJoin
    <3> QED
      BY <3>2, <3>3
  <2> HIDE DEF S
  <2>6. Nat \subseteq S
    BY <2>4, <2>5, SetInduction
  <2>7. Len(ss) \in 1 .. Len(ss)
    BY <2>1
  <2> QED
    BY <2>1, <2>2, <2>6, <2>7 DEF S
<1> QED
  BY <1>1, <1>2

LEMMA VoidErrorsAre ==
  ASSUME tokens \in Texts, NEW p \in Places, NEW end \in Places
  PROVE  AreReports(VoidErrors(p, end))
<1> DEFINE voids == {q \in p .. end - 1 : Kind(q) = "void" /\ \E r \in p .. q - 1 : Kind(r) \in BaseSpecs}
           at(i) == IF p + i - 1 \in voids THEN Error("E0306", p + i - 1) ELSE <<>>
           ss == [i \in 1 .. end - p |-> at(i)]
<1>1. VoidErrors(p, end) = FlattenSeq(ss)
  BY DEF VoidErrors
<1> DEFINE n == IF p <= end THEN end - p ELSE 0
<1>2. /\ p \in Nat \ {0} /\ end \in Nat \ {0} /\ end <= Len(tokens) + 1 /\ Len(tokens) \in Nat
      /\ n \in Nat /\ 1 .. end - p = 1 .. n
  BY TokensAre DEF Places
<1>3. ASSUME NEW i \in 1 .. n PROVE AreReports(at(i))
  <2>1. p + i - 1 \in Places
    BY <1>2 DEF Places
  <2>2. AreReports(Error("E0306", p + i - 1))
    BY <2>1, ErrorIs
  <2> QED
    BY <2>2, NothingReported
<1> HIDE DEF at, n, voids
<1>4. ss = [i \in 1 .. n |-> ss[i]] /\ \A i \in 1 .. n : ss[i] = at(i)
  BY <1>2
<1> HIDE DEF ss
<1>5. IsSequence(ss) /\ Len(ss) = n
  BY <1>2, <1>4, SequenceByIndex
<1>6. \A i \in 1 .. Len(ss) : AreReports(ss[i])
  BY <1>3, <1>4, <1>5
<1> QED
  BY <1>1, <1>5, <1>6, FlattenedReports

LEMMA TypeErrorsAre ==
  ASSUME tokens \in Texts, NEW p \in Places
  PROVE  AreReports(TypeSpecifier(p).errors)
<1> DEFINE end == After(p, TypeSpecs \cup Qualifiers)
           ks == KindsOf(p, end)
           voids == VoidErrors(p, end)
           base == BaseType(ks)
<1>1. TypeSpecifier(p).errors =
        IF Kind(p) = "none" THEN <<>> ELSE IF base = <<>> THEN voids \o Error("E0304", end) ELSE voids
  BY DEF TypeSpecifier, Specified
<1>2. "none" \notin TypeSpecs \cup Qualifiers
  BY DEF TypeSpecs, Qualifiers, BaseSpecs, Signs
<1>3. end \in Places
  BY <1>2, AfterIs
<1> HIDE DEF end, base
<1>4. AreReports(voids) /\ AreReports(Error("E0304", end))
  BY <1>3, VoidErrorsAre, ErrorIs
<1> HIDE DEF voids
<1>5. AreReports(voids \o Error("E0304", end))
  BY <1>4, ReportsJoin
<1> QED
  BY <1>1, <1>4, <1>5, NothingReported

LEMMA SpecifierErrorsAre ==
  ASSUME tokens \in Texts, NEW p \in Places
  PROVE  AreReports(Specifiers(p).errors)
<1> DEFINE q == After(p, StorageSpecs)
           e == Attributes(q).end
<1>1. Specifiers(p).errors = TypeSpecifier(e).errors
  BY SpecifiersAre
<1>2. "none" \notin StorageSpecs
  BY DEF StorageSpecs
<1>3. q \in Places
  BY <1>2, AfterIs
<1> HIDE DEF q
<1>4. e \in Places
  BY <1>3, AttributesIs, AheadIs
<1> HIDE DEF e
<1> QED
  BY <1>1, <1>4, TypeErrorsAre

-----------------------------------------------------------------------------
(* What a task needs and leaves.                                              *)

\* A task that can be done from p on, with m values, and that leaves n.
Job(t, p, m, n) == Carries(t, p) /\ Enough(t, m) /\ Yields(t, m, n)

Plain == {"expect", "body", "else", "call_args", "call_more"}
Using == {"array", "init", "assign_op", "ternary", "climb", "postfix"}
OfDeclaration == {"declarator", "item_form", "finish_var", "more"}

LEMMA PlainJob ==
  ASSUME NEW t, t.do \in Plain, NEW p, NEW m \in Nat, NEW n \in Nat, n <= m
  PROVE  Job(t, p, m, n)
BY DEF Job, Plain, Carries, Enough, Yields, Giving, Closing, Handlers

LEMMA UsingJob ==
  ASSUME NEW t, t.do \in Using, NEW p, NEW m \in Nat, NEW n \in Nat, n <= m, 1 <= m
  PROVE  Job(t, p, m, n)
BY DEF Job, Using, Carries, Enough, Yields, Giving, Closing, Handlers

LEMMA GivingJob ==
  ASSUME NEW t, t.do \in Giving \ {"declarator"}, NEW p, NEW m \in Nat, NEW n \in Nat, n <= m + 1
  PROVE  Job(t, p, m, n)
BY DEF Job, Carries, Enough, Yields, Giving, Closing, Handlers

LEMMA DeclarationJob ==
  ASSUME NEW t, t.do \in OfDeclaration, t.c.at \in DOMAIN tokens,
         NEW p, NEW m \in Nat, NEW n \in Nat,
         IF t.do = "declarator" THEN n <= m + 1 ELSE n <= m,
         t.do \in {"item_form", "finish_var"} => 1 <= m
  PROVE  Job(t, p, m, n)
BY DEF Job, OfDeclaration, Carries, Enough, Yields, Giving, Closing, Handlers

LEMMA ClosingJob ==
  ASSUME NEW t, t.do \in {"param", "comma", "param_more"}, t.from \in Nat,
         NEW p, NEW m \in Nat, t.from <= m, t.do # "param" => t.from + 1 <= m,
         NEW n \in Nat, n <= t.from + 1
  PROVE  Job(t, p, m, n)
BY DEF Job, Carries, Enough, Yields, Giving, Closing, Handlers

\* The values that each task finds, the first one with n of them.
Jobs(ts, c, n, p) ==
  /\ c[1] <= n /\ \A i \in 1 .. Len(ts) + 1 : c[i] \in Nat
  /\ \A i \in 1 .. Len(ts) : Job(ts[i], p, c[i], c[i + 1]) /\ Reaches(todo[1], c[i])
  /\ \A m \in Nat : Yields(todo[1], Len(vals), m) => m <= c[Len(ts) + 1]

LEMMA ListProvides ==
  ASSUME NEW ts, \A i \in 1 .. Len(ts) : ts[i].do \notin Handlers,
         NEW c, NEW n, NEW p, Jobs(ts, c, n, p)
  PROVE  Provides(todo[1], ts, n, p)
<1>1. Heights(ts, c)
  BY DEF Heights, Jobs, Job
<1>2. \A i \in 1 .. Len(ts) : Carries(ts[i], p) /\ Reaches(todo[1], c[i])
  BY DEF Jobs, Job
<1> QED
  BY <1>1, <1>2 DEF Provides, Jobs

LEMMA NothingProvides ==
  ASSUME NEW n \in Nat, NEW p, \A m \in Nat : Yields(todo[1], Len(vals), m) => m <= n
  PROVE  Provides(todo[1], <<>>, n, p)
<1> DEFINE c == [i \in 1 .. 1 |-> n]
           ts == <<>>
<1>1. IsSequence(ts) /\ Len(ts) = 0
  BY SequenceEmpty
<1>2. c[1] = n
  OBVIOUS
<1> HIDE DEF c, ts
<1>3. \A i \in 1 .. Len(ts) : FALSE
  BY <1>1
<1>4. \A i \in 1 .. Len(ts) + 1 : i = 1
  BY <1>1
<1>5. Jobs(ts, c, n, p)
  <2>1. c[Len(ts) + 1] = n
    BY <1>1, <1>2
  <2> QED
    BY <1>2, <1>3, <1>4, <2>1 DEF Jobs
<1>6. Provides(todo[1], ts, n, p)
  BY <1>3, <1>5, ListProvides
<1> QED
  BY <1>6 DEF ts

\* A task that makes a node of the values above from, in a span that begins as
\* first does.
Made(t, first, from, ends) ==
  t.do = "make" /\ t.first = first /\ t.from = from /\ t.ends = ends

LEMMA MakeFromTopIs ==
  ASSUME NEW k, NEW what, NEW ends
  PROVE  Made(MakeFromTop(k, what, ends), Last(vals).span, Len(vals) - 1, ends)
BY DEF Made, MakeFromTop, Make

LEMMA MakeFromTokenIs ==
  ASSUME NEW k, NEW what, NEW q, NEW ends
  PROVE  Made(MakeFromToken(k, what, q, ends), TokenSpan(q), Len(vals), ends)
BY DEF Made, MakeFromToken, Make

LEMMA EndParamsIs ==
  ASSUME NEW arity, NEW from
  PROVE  Made(EndParams(arity, from), TokenSpan(1), from, "written")
BY DEF Made, EndParams, Make

LEMMA AttachJob ==
  ASSUME NEW t, t.do = "attach", NEW p, NEW m \in Nat, 2 <= m, NEW n \in Nat, n <= m - 1
  PROVE  Job(t, p, m, n)
BY DEF Job, Carries, Enough, Yields, Giving, Closing, Handlers

LEMMA FinishJob ==
  ASSUME NEW t, t.do = "finish_fn", t.from \in Nat, t.c.at \in DOMAIN tokens,
         NEW p, NEW m \in Nat, t.from + 1 <= m, NEW n \in Nat, n <= t.from + 1
  PROVE  Job(t, p, m, n)
BY DEF Job, Carries, Enough, Yields, Giving, Closing, Handlers

LEMMA TokenHere ==
  ASSUME tokens \in Texts, NEW p, Kind(p) # "none"
  PROVE  p \in DOMAIN tokens /\ IsSpan(TokenSpan(p))
<1>1. p \in DOMAIN tokens
  BY TokensAre
<1> QED
  BY <1>1, TokenSpanOK

LEMMA FirstSpanOK ==
  ASSUME tokens \in Texts
  PROVE  IsSpan(TokenSpan(1))
<1>1. 1 \in DOMAIN tokens
  BY TokensAre
<1> QED
  BY <1>1, TokenSpanOK

LEMMA EmptyIs ==
  ASSUME tokens \in Texts
  PROVE  IsNode(EmptyNode)
BY FirstSpanOK, NodeIs DEF EmptyNode

LEMMA NodeAt ==
  ASSUME NEW vs, AreNodes(vs), NEW i \in 1 .. Len(vs)
  PROVE  IsNode(vs[i]) /\ IsSpan(vs[i].span)
BY DEF AreNodes, IsNode

LEMMA NodeStored ==
  ASSUME NEW n, IsNode(n), NEW s, IsSpan(s), NEW y
  PROVE  IsNode([n EXCEPT !.span = s, !.ty.storage = y])
<1> DEFINE a == n.k
           b == n.what
           c == n.args
           d == n.ty
           e == n.span
           r == [n EXCEPT !.span = s, !.ty.storage = y]
           o == [d EXCEPT !.storage = y]
<1>1. n = [k |-> a, what |-> b, args |-> c, ty |-> d, span |-> e]
  BY DEF IsNode
<1>2. r = [n EXCEPT !.span = s, !.ty.storage = y]
  OBVIOUS
<1> HIDE DEF a, b, c, d, e, r
<1>3. r = [[k |-> a, what |-> b, args |-> c, ty |-> d, span |-> e] EXCEPT !.span = s, !.ty.storage = y]
  BY <1>1, <1>2, Zenon
<1>4. r = [k |-> a, what |-> b, args |-> c, ty |-> o, span |-> s]
  BY <1>3
<1>5. IsNode(r)
  BY <1>4 DEF IsNode
<1> QED
  BY <1>2, <1>5 DEF r

LEMMA TopEdited ==
  ASSUME AreNodes(vals), 1 <= Len(vals), NEW n, IsNode(n)
  PROVE  AreNodes(EditTop(n)) /\ Len(EditTop(n)) = Len(vals)
<1> DEFINE f == Front(vals)
<1>1. AreNodes(f) /\ Len(f) = Len(vals) - 1
  BY TopNode
<1>2. EditTop(n) = Append(f, n)
  BY DEF EditTop
<1>3. Len(vals) \in Nat
  BY SequenceElim DEF AreNodes
<1> HIDE DEF f
<1>4. AreNodes(Append(f, n)) /\ Len(Append(f, n)) = Len(f) + 1
  BY <1>1, NodesGrow
<1> QED
  BY <1>1, <1>2, <1>3, <1>4

-----------------------------------------------------------------------------
(* What is parsed of an expression.                                           *)

\* The kinds of tokens that an expression does not go beyond.
Ends == StmtKeywords \cup {";", "{", "}", "eof"}

Through(a, p) == \A q \in a .. p - 1 : Kind(q) \notin Ends

\* The nodes that Span::join gives their span.
Joins(t) == t.do = "make" /\ t.ends # "written"

InExpr(t) ==
  \/ t.do \in {"expr", "comma", "assignment", "assign_op", "ternary", "climb", "unary", "primary",
               "postfix", "call_args", "call_more"}
  \/ t.do = "expect" /\ t.k \in {")", "]", ":"}
  \/ t.do = "make" /\ (t.ends # "written" \/ t.k = "comma")

\* The tokens of an expression from its first one on, and the nodes made of them.
Framed(m, vs, p) ==
  /\ m.first.lo < p /\ Through(m.first.lo, p) /\ m.from <= Len(vs)
  /\ \A v \in m.from + 1 .. Len(vs) : m.first.lo <= vs[v].span.lo /\ vs[v].span.lo < p

\* t is done for an operand of m.
Within(t, m, p) ==
  /\ InExpr(t)
  /\ t.do \in {"make", "comma"} => m.from <= t.from
  /\ t.do = "make" => m.first.lo <= t.first.lo /\ t.first.lo < p

\* The tasks that take the node on top of vals into their own, and those that
\* leave one there for them.
Operand == {"climb", "ternary", "assign_op", "postfix"}
LeavesOperand(t) == t.do \in {"unary", "primary", "climb", "ternary", "postfix"} \/ Joins(t)

Topped(vs, p) == vs[Len(vs)].span.lo < p /\ Through(vs[Len(vs)].span.lo, p)

NestedBy(ts, vs, p) ==
  /\ \A j \in 1 .. Len(ts) :
       Joins(ts[j]) => Framed(ts[j], vs, p) /\ \A i \in 1 .. j - 1 : Within(ts[i], ts[j], p)
  /\ \A i \in 2 .. Len(ts) : ts[i].do \in Operand => LeavesOperand(ts[i - 1])
  /\ ts # <<>> /\ ts[1].do \in Operand =>
       Topped(vs, p) /\ \A j \in 1 .. Len(ts) : Joins(ts[j]) => ts[j].from < Len(vs)

Nested == NestedBy(todo, vals, pos) /\ PanicsOnlyAcrossFiles

\* m is behind the first task h, and h is done for it.
Encloses(m, h) ==
  /\ Joins(m) /\ m.first.lo \in Nat /\ m.from \in Nat
  /\ Framed(m, vals, pos) /\ Within(h, m, pos) /\ (h.do \in Operand => m.from < Len(vals))

\* With the nodes vs, ts can take the place of the task h, from p on.
Nests(h, ts, vs, p) ==
  /\ \A m : Encloses(m, h) => Framed(m, vs, p) /\ \A i \in 1 .. Len(ts) : Within(ts[i], m, p)
  /\ \A j \in 1 .. Len(ts) :
       Joins(ts[j]) => Framed(ts[j], vs, p) /\ \A i \in 1 .. j - 1 : Within(ts[i], ts[j], p)
  /\ \A i \in 2 .. Len(ts) : ts[i].do \in Operand => LeavesOperand(ts[i - 1])
  /\ ts # <<>> => ts[1].do \notin Operand /\ (LeavesOperand(h) => LeavesOperand(ts[Len(ts)]))
  /\ ts = <<>> /\ LeavesOperand(h) => Topped(vs, p) /\ \A m : Encloses(m, h) => m.from < Len(vs)

LEMMA StartsAt ==
  ASSUME tokens \in Texts, NEW s, IsSpan(s)
  PROVE  s.lo \in Nat /\ s.lo \in DOMAIN tokens /\ s.file = tokens[s.lo].file
<1>1. DOMAIN tokens \subseteq Nat
  BY TokensAre
<1> QED
  BY <1>1 DEF IsSpan

LEMMA WithinOn ==
  ASSUME NEW t, NEW m, NEW p \in Nat, NEW q \in Nat, p <= q, Within(t, m, p), t.do = "make" => t.first.lo \in Nat
  PROVE  Within(t, m, q)
BY DEF Within

LEMMA StepNests ==
  ASSUME tokens \in Texts, IsSequence(todo), todo # <<>>, pos \in Nat, NEW p \in Nat, pos <= p,
         \A i \in 1 .. Len(todo) : Carries(todo[i], pos), NestedBy(todo, vals, pos),
         NEW ts, IsSequence(ts), NEW vs, Nests(todo[1], ts, vs, p)
  PROVE  NestedBy(ts \o Tail(todo), vs, p)
<1> DEFINE new == ts \o Tail(todo)
           n == Len(ts)
           l == Len(todo)
<1>1. /\ IsSequence(new) /\ n \in Nat /\ l \in Nat \ {0} /\ Len(new) = n + l - 1
      /\ \A i \in 1 .. n : new[i] = ts[i]
      /\ \A i \in 2 .. l : new[n + i - 1] = todo[i]
  BY HeadReplaced
<1>2. \A i \in 1 .. l : todo[i].do = "make" => todo[i].first.lo \in Nat /\ todo[i].from \in Nat
  BY StartsAt DEF Carries
<1>3. /\ \A i \in 1 .. n : ts[i] = new[i]
      /\ \A i \in n + 1 .. Len(new) : i - n + 1 \in 2 .. l /\ new[i] = todo[i - n + 1]
  <2>1. ASSUME NEW i \in n + 1 .. Len(new) PROVE i - n + 1 \in 2 .. l /\ new[i] = todo[i - n + 1]
    <3>1. i - n + 1 \in 2 .. l /\ n + (i - n + 1) - 1 = i
      BY <1>1
    <3> QED
      BY <1>1, <3>1
  <2> QED
    BY <1>1, <2>1
<1>4. n = 0 <=> ts = <<>>
  BY SequenceElim
<1> HIDE DEF new, n, l
<1>5. ASSUME NEW j \in 2 .. l, Joins(todo[j]) PROVE Encloses(todo[j], todo[1])
  <2>1. j \in 1 .. l /\ 1 \in 1 .. j - 1
    BY <1>1
  <2>2. todo[j].do = "make"
    BY <1>5 DEF Joins
  <2>3. Framed(todo[j], vals, pos) /\ Within(todo[1], todo[j], pos)
    BY <1>5, <2>1 DEF NestedBy, l
  <2>4. todo[1].do \in Operand => todo[j].from < Len(vals)
    BY <1>5, <2>1 DEF NestedBy, l
  <2> QED
    BY <1>2, <1>5, <2>1, <2>2, <2>3, <2>4 DEF Encloses
<1>6. ASSUME NEW j \in 1 .. Len(new), Joins(new[j])
      PROVE  Framed(new[j], vs, p) /\ \A i \in 1 .. j - 1 : Within(new[i], new[j], p)
  <2>1. CASE j \in 1 .. n
    <3>1. new[j] = ts[j] /\ \A i \in 1 .. j - 1 : new[i] = ts[i]
      BY <1>1, <2>1
    <3> QED
      BY <1>6, <2>1, <3>1 DEF Nests, n
  <2>2. CASE j \notin 1 .. n
    <3> DEFINE k == j - n + 1
    <3>1. j \in n + 1 .. Len(new)
      BY <1>1, <2>2
    <3>2. k \in 2 .. l /\ k \in 1 .. l /\ new[j] = todo[k]
      BY <1>1, <1>3, <3>1
    <3>3. Encloses(todo[k], todo[1])
      BY <1>5, <1>6, <3>2
    <3>4. ASSUME NEW i \in 1 .. j - 1 PROVE Within(new[i], todo[k], p)
      <4>1. CASE i \in 1 .. n
        BY <1>1, <3>3, <4>1 DEF Nests, n
      <4>2. CASE i \notin 1 .. n
        <5>1. i \in n + 1 .. Len(new) /\ i - n + 1 \in 1 .. k - 1
          BY <1>1, <3>1, <4>2
        <5>2. i - n + 1 \in 1 .. l /\ new[i] = todo[i - n + 1]
          BY <1>1, <1>3, <5>1
        <5>3. Within(todo[i - n + 1], todo[k], pos)
          BY <1>6, <3>2, <5>1 DEF NestedBy, l
        <5>4. todo[i - n + 1].do = "make" => todo[i - n + 1].first.lo \in Nat
          BY <1>2, <5>2
        <5>5. Within(todo[i - n + 1], todo[k], p)
          BY <5>3, <5>4, WithinOn
        <5> QED
          BY <5>2, <5>5
      <4> QED
        BY <4>1, <4>2
    <3>5. Framed(todo[k], vs, p)
      BY <3>3 DEF Nests
    <3> QED
      BY <3>2, <3>4, <3>5
  <2> QED
    BY <2>1, <2>2
<1>7. ASSUME NEW i \in 2 .. Len(new), new[i].do \in Operand PROVE LeavesOperand(new[i - 1])
  <2>1. CASE i \in 2 .. n
    <3>1. i \in 1 .. n /\ i - 1 \in 1 .. n
      BY <1>1, <2>1
    <3>2. new[i] = ts[i] /\ new[i - 1] = ts[i - 1]
      BY <1>1, <3>1
    <3> QED
      BY <1>7, <2>1, <3>2 DEF Nests, n
  <2>2. CASE i = n + 1
    <3>1. n # 0 /\ n \in 1 .. n /\ i \in n + 1 .. Len(new) /\ i - n + 1 = 2 /\ i - 1 = n /\ 2 - 1 = 1
      BY <1>1, <2>2
    <3>2. new[i] = todo[2] /\ 2 \in 2 .. l /\ new[i - 1] = ts[n]
      BY <1>1, <1>3, <3>1
    <3>3. LeavesOperand(todo[1])
      BY <1>7, <3>1, <3>2 DEF NestedBy, l
    <3> QED
      BY <1>4, <3>1, <3>2, <3>3 DEF Nests, n
  <2>3. CASE i \notin 2 .. n + 1
    <3>1. /\ i \in n + 1 .. Len(new) /\ i - 1 \in n + 1 .. Len(new)
          /\ (i - 1) - n + 1 = (i - n + 1) - 1
      BY <1>1, <2>3
    <3>2. /\ i - n + 1 \in 2 .. l /\ new[i] = todo[i - n + 1]
          /\ new[i - 1] = todo[(i - n + 1) - 1]
      BY <1>3, <3>1
    <3> QED
      BY <1>7, <3>2 DEF NestedBy, l
  <2> QED
    BY <1>1, <2>1, <2>2, <2>3
<1>8. ASSUME new # <<>>, new[1].do \in Operand
      PROVE  Topped(vs, p) /\ \A j \in 1 .. Len(new) : Joins(new[j]) => new[j].from < Len(vs)
  <2>1. Len(new) # 0 /\ Len(new) \in Nat
    BY <1>1, <1>8, SequenceElim
  <2>2. n = 0
    <3>1. SUFFICES ASSUME n # 0 PROVE FALSE
      OBVIOUS
    <3>2. 1 \in 1 .. n
      BY <1>1, <3>1
    <3>3. new[1] = ts[1]
      BY <1>1, <3>2
    <3> QED
      BY <1>4, <1>8, <3>1, <3>3 DEF Nests
  <2>3. 1 \in n + 1 .. Len(new) /\ 1 - n + 1 = 2 /\ 2 - 1 = 1
    BY <1>1, <2>1, <2>2
  <2>4. 2 \in 2 .. l /\ new[1] = todo[2]
    BY <1>3, <2>3
  <2>5. LeavesOperand(todo[1])
    BY <1>8, <2>3, <2>4 DEF NestedBy, l
  <2>6. Topped(vs, p) /\ \A m : Encloses(m, todo[1]) => m.from < Len(vs)
    BY <1>4, <2>2, <2>5 DEF Nests
  <2>7. ASSUME NEW j \in 1 .. Len(new), Joins(new[j]) PROVE new[j].from < Len(vs)
    <3>1. j \in n + 1 .. Len(new)
      BY <2>2
    <3>2. j - n + 1 \in 2 .. l /\ new[j] = todo[j - n + 1]
      BY <1>3, <3>1
    <3>3. Encloses(todo[j - n + 1], todo[1])
      BY <1>5, <2>7, <3>2
    <3> QED
      BY <2>6, <3>2, <3>3
  <2> QED
    BY <2>6, <2>7
<1> QED
  BY <1>6, <1>7, <1>8 DEF NestedBy, new

LEMMA FailNests ==
  ASSUME IsSequence(todo), NestedBy(todo, vals, pos), NEW h, IsHandlerOf(h, todo), IsLoop(todo[h]), NEW p
  PROVE  NestedBy(Resumed(h, todo), vals, p)
<1> DEFINE new == Resumed(h, todo)
           l == Len(todo)
<1>1. GoesOnAt(new, h, todo)
  BY ResumedIs
<1>2. h \in 2 .. l /\ todo[h].do \in Handlers /\ l \in Nat
  BY SequenceElim DEF IsHandlerOf
<1> HIDE DEF new, l
<1>3. Len(new) = l - h + 1 /\ new[1].do = todo[h].do /\ (\A i \in h + 1 .. l : new[i - h + 1] = todo[i])
  BY <1>1 DEF GoesOnAt, l
<1>4. \A t : t.do \in Handlers => ~InExpr(t) /\ ~Joins(t) /\ ~LeavesOperand(t) /\ t.do \notin Operand
  BY DEF Handlers, InExpr, Joins, LeavesOperand, Operand
<1>5. ASSUME NEW j \in 2 .. Len(new) PROVE j + h - 1 \in h + 1 .. l /\ new[j] = todo[j + h - 1]
  <2>1. j + h - 1 \in h + 1 .. l /\ (j + h - 1) - h + 1 = j
    BY <1>2, <1>3
  <2> QED
    BY <1>3, <2>1
<1>6. ASSUME NEW j \in 1 .. Len(new) PROVE ~Joins(new[j])
  <2>1. CASE j = 1
    BY <1>2, <1>3, <1>4, <2>1
  <2>2. CASE j # 1
    <3>1. j \in 2 .. Len(new)
      BY <1>2, <1>3, <2>2
    <3>2. new[j] = todo[j + h - 1] /\ j + h - 1 \in 1 .. l /\ h \in 1 .. (j + h - 1) - 1
      BY <1>2, <1>3, <1>5, <3>1
    <3>3. ~InExpr(todo[h])
      BY <1>2, <1>4
    <3> QED
      BY <3>2, <3>3 DEF NestedBy, Within, l
  <2> QED
    BY <2>1, <2>2
<1>7. ASSUME NEW i \in 2 .. Len(new), new[i].do \in Operand PROVE LeavesOperand(new[i - 1])
  <2>1. new[i] = todo[i + h - 1] /\ i + h - 1 \in 2 .. l
    BY <1>2, <1>3, <1>5
  <2>2. LeavesOperand(todo[(i + h - 1) - 1])
    BY <1>7, <2>1 DEF NestedBy, l
  <2>3. CASE i = 2
    <3>1. (i + h - 1) - 1 = h
      BY <1>2, <2>3
    <3> QED
      BY <1>2, <1>4, <2>2, <3>1
  <2>4. CASE i # 2
    <3>1. i - 1 \in 2 .. Len(new) /\ (i - 1) + h - 1 = (i + h - 1) - 1
      BY <1>2, <1>3, <2>4
    <3>2. new[i - 1] = todo[(i + h - 1) - 1]
      BY <1>5, <3>1
    <3> QED
      BY <2>2, <3>2
  <2> QED
    BY <2>3, <2>4
<1>8. new[1].do \notin Operand
  BY <1>2, <1>3, <1>4
<1> QED
  BY <1>6, <1>7, <1>8 DEF NestedBy, new

LEMMA CalmNests ==
  ASSUME NEW h, ~InExpr(h), NEW ts, IsSequence(ts),
         \A i \in 1 .. Len(ts) : ~Joins(ts[i]) /\ ts[i].do \notin Operand, NEW vs, NEW p
  PROVE  Nests(h, ts, vs, p)
<1>1. (\A m : ~Encloses(m, h)) /\ ~LeavesOperand(h)
  BY DEF Encloses, Within, InExpr, LeavesOperand, Joins
<1>2. ts # <<>> => 1 \in 1 .. Len(ts)
  BY SequenceElim
<1>3. \A i \in 2 .. Len(ts) : i \in 1 .. Len(ts)
  BY SequenceElim
<1> QED
  BY <1>1, <1>2, <1>3 DEF Nests

LEMMA ThroughOn ==
  ASSUME NEW a \in Nat, NEW p \in Nat, NEW q \in Nat, a <= p, p <= q, Through(a, p), Through(p, q)
  PROVE  Through(a, q)
<1>1. \A r \in a .. q - 1 : r \in a .. p - 1 \/ r \in p .. q - 1
  OBVIOUS
<1> QED
  BY <1>1 DEF Through

LEMMA FramedOn ==
  ASSUME NEW m, m.first.lo \in Nat, NEW vs, \A v \in 1 .. Len(vs) : vs[v].span.lo \in Nat, Len(vs) \in Nat,
         m.from \in Nat, NEW p \in Nat, NEW q \in Nat, p <= q, Framed(m, vs, p), Through(p, q)
  PROVE  Framed(m, vs, q)
<1>1. m.first.lo < q /\ Through(m.first.lo, q)
  BY ThroughOn DEF Framed
<1>2. \A v \in m.from + 1 .. Len(vs) : m.first.lo <= vs[v].span.lo /\ vs[v].span.lo < q
  BY DEF Framed
<1> QED
  BY <1>1, <1>2 DEF Framed

\* What a task that the task h of an expression goes on with is about: the nodes
\* to come, with the token here or with the node on top, or those of h.
Held(t, h, p) ==
  /\ InExpr(t)
  /\ t.do = "comma" => t.from = Len(vals) \/ (h.do = "comma" /\ t.from = h.from)
  /\ t.do = "make" =>
       \/ t.first.lo = pos /\ pos < p /\ t.from = Len(vals)
       \/ h.do \in Operand /\ t.first.lo = vals[Len(vals)].span.lo /\ t.from = Len(vals) - 1
       \/ ~Joins(t) /\ h.do = "comma" /\ t.first.lo = vals[h.from + 1].span.lo /\ t.from = h.from

\* What is known at a task of an expression.
Expecting(h, p) ==
  /\ pos \in Nat /\ p \in Nat /\ pos <= p /\ Through(pos, p)
  /\ Len(vals) \in Nat /\ \A v \in 1 .. Len(vals) : vals[v].span.lo \in Nat
  /\ h.do \in Operand => 1 <= Len(vals) /\ Topped(vals, pos)
  /\ h.do = "comma" => h.from \in Nat /\ h.from + 1 <= Len(vals)

LEMMA ExpectingIs ==
  ASSUME InOrder, Shaped, Nested, NEW name, At(name), NEW p, Ahead(pos, p), Through(pos, p)
  PROVE  Expecting(todo[1], p)
<1>1. /\ tokens \in Texts /\ pos \in Nat /\ todo # <<>> /\ todo[1].do = name
      /\ AreNodes(vals) /\ Len(vals) \in Nat
      /\ Carries(todo[1], pos) /\ Enough(todo[1], Len(vals))
  BY HeadIs, HeadShaped
<1>2. p \in Nat /\ pos <= p
  BY <1>1, TokensAre DEF Ahead, Places
<1>3. ASSUME NEW v \in 1 .. Len(vals) PROVE vals[v].span.lo \in Nat
  BY <1>1, NodeAt, StartsAt
<1>4. todo[1].do \in Operand => 1 <= Len(vals) /\ Topped(vals, pos)
  BY <1>1 DEF Nested, NestedBy, Enough, Operand
<1>5. todo[1].do = "comma" => todo[1].from \in Nat /\ todo[1].from + 1 <= Len(vals)
  BY <1>1 DEF Carries, Enough
<1> QED
  BY <1>1, <1>2, <1>3, <1>4, <1>5 DEF Expecting

LEMMA SameNodes ==
  ASSUME NEW h, NEW p, Expecting(h, p), NEW m, Encloses(m, h)
  PROVE  Framed(m, vals, p)
<1>1. m.first.lo \in Nat /\ m.from \in Nat /\ Framed(m, vals, pos)
  BY DEF Encloses
<1> QED
  BY <1>1, FramedOn DEF Expecting

LEMMA HeldWithin ==
  ASSUME NEW h, NEW p, Expecting(h, p), NEW m, Encloses(m, h), NEW t, Held(t, h, p)
  PROVE  Within(t, m, p)
<1>1. /\ m.first.lo \in Nat /\ m.from \in Nat /\ m.first.lo < pos /\ m.from <= Len(vals)
      /\ \A v \in m.from + 1 .. Len(vals) : m.first.lo <= vals[v].span.lo /\ vals[v].span.lo < pos
      /\ h.do \in Operand => m.from < Len(vals)
      /\ h.do = "comma" => m.from <= h.from
  BY DEF Encloses, Framed, Within
<1>2. /\ pos \in Nat /\ p \in Nat /\ pos <= p /\ Len(vals) \in Nat
      /\ h.do = "comma" => h.from \in Nat /\ h.from + 1 <= Len(vals)
      /\ \A v \in 1 .. Len(vals) : vals[v].span.lo \in Nat
  BY DEF Expecting
<1>3. InExpr(t)
  BY DEF Held
<1>4. t.do = "comma" => m.from <= t.from
  BY <1>1, <1>2 DEF Held
<1>5. ASSUME t.do = "make" PROVE m.from <= t.from /\ m.first.lo <= t.first.lo /\ t.first.lo < p
  <2>1. CASE t.first.lo = pos /\ pos < p /\ t.from = Len(vals)
    BY <1>1, <1>2, <2>1
  <2>2. CASE h.do \in Operand /\ t.first.lo = vals[Len(vals)].span.lo /\ t.from = Len(vals) - 1
    <3>1. Len(vals) \in m.from + 1 .. Len(vals) /\ Len(vals) \in 1 .. Len(vals)
      BY <1>1, <1>2, <2>2
    <3> DEFINE s == vals[Len(vals)].span.lo
    <3>2. m.first.lo <= s /\ s < pos /\ s \in Nat
      BY <1>1, <1>2, <3>1
    <3>3. t.first.lo = s
      BY <2>2
    <3> HIDE DEF s
    <3> QED
      BY <1>1, <1>2, <2>2, <3>2, <3>3
  <2>3. CASE h.do = "comma" /\ t.first.lo = vals[h.from + 1].span.lo /\ t.from = h.from
    <3> DEFINE v == h.from + 1
               s == vals[v].span.lo
    <3>1. v \in m.from + 1 .. Len(vals) /\ v \in 1 .. Len(vals)
      BY <1>1, <1>2, <2>3
    <3>2. m.first.lo <= s /\ s < pos /\ s \in Nat
      BY <1>1, <1>2, <3>1
    <3>3. t.first.lo = s
      BY <2>3
    <3> HIDE DEF s
    <3> QED
      BY <1>1, <1>2, <2>3, <3>2, <3>3
  <2> QED
    BY <1>5, <2>1, <2>2, <2>3 DEF Held
<1> QED
  BY <1>3, <1>4, <1>5 DEF Within

LEMMA HeldFramed ==
  ASSUME NEW h, NEW p, Expecting(h, p), NEW t, Held(t, h, p), Joins(t)
  PROVE  Framed(t, vals, p)
<1>1. /\ pos \in Nat /\ p \in Nat /\ pos <= p /\ Len(vals) \in Nat /\ Through(pos, p)
      /\ h.do \in Operand => 1 <= Len(vals) /\ Topped(vals, pos)
      /\ \A v \in 1 .. Len(vals) : vals[v].span.lo \in Nat
  BY DEF Expecting
<1>2. t.do = "make"
  BY DEF Joins
<1>3. CASE t.first.lo = pos /\ pos < p /\ t.from = Len(vals)
  <2>1. \A v \in t.from + 1 .. Len(vals) : FALSE
    BY <1>1, <1>3
  <2>2. t.first.lo < p /\ Through(t.first.lo, p) /\ t.from <= Len(vals)
    BY <1>1, <1>3
  <2> QED
    BY <2>1, <2>2 DEF Framed
<1>4. CASE h.do \in Operand /\ t.first.lo = vals[Len(vals)].span.lo /\ t.from = Len(vals) - 1
  <2> DEFINE s == vals[Len(vals)].span.lo
  <2>1. Len(vals) \in 1 .. Len(vals) /\ s \in Nat
    BY <1>1, <1>4
  <2>2. s < pos /\ Through(s, pos)
    BY <1>1, <1>4 DEF Topped
  <2>3. t.first.lo = s
    BY <1>4
  <2>4. \A v \in t.from + 1 .. Len(vals) : v = Len(vals)
    BY <1>1, <1>4
  <2> HIDE DEF s
  <2>5. Through(s, p) /\ s < p /\ s <= s /\ t.from <= Len(vals)
    BY <1>1, <1>4, <2>1, <2>2, ThroughOn
  <2>6. \A v \in t.from + 1 .. Len(vals) : t.first.lo <= vals[v].span.lo /\ vals[v].span.lo < p
    BY <2>3, <2>4, <2>5 DEF s
  <2> QED
    BY <2>3, <2>5, <2>6 DEF Framed
<1> QED
  BY <1>2, <1>3, <1>4 DEF Held

\* The tasks of an expression that h goes on with.
Parts(h, ts, p) ==
  /\ \A i \in 1 .. Len(ts) : Held(ts[i], h, p)
  /\ \A j \in 1 .. Len(ts) : Joins(ts[j]) => \A i \in 1 .. j - 1 : ts[i].do \notin {"make", "comma"}
  /\ \A i \in 2 .. Len(ts) : ts[i].do \in Operand => LeavesOperand(ts[i - 1])
  /\ ts[1].do \notin Operand /\ (LeavesOperand(h) => LeavesOperand(ts[Len(ts)]))

LEMMA PartsNest ==
  ASSUME NEW h, NEW p, Expecting(h, p), NEW ts, IsSequence(ts), ts # <<>>, Parts(h, ts, p)
  PROVE  Nests(h, ts, vals, p)
<1>1. ASSUME NEW m, Encloses(m, h)
      PROVE  Framed(m, vals, p) /\ \A i \in 1 .. Len(ts) : Within(ts[i], m, p)
  BY <1>1, SameNodes, HeldWithin DEF Parts
<1>2. ASSUME NEW j \in 1 .. Len(ts), Joins(ts[j])
      PROVE  Framed(ts[j], vals, p) /\ \A i \in 1 .. j - 1 : Within(ts[i], ts[j], p)
  <2>1. Framed(ts[j], vals, p)
    BY <1>2, HeldFramed DEF Parts
  <2>2. ASSUME NEW i \in 1 .. j - 1 PROVE Within(ts[i], ts[j], p)
    <3>1. i \in 1 .. Len(ts)
      BY SequenceElim
    <3>2. InExpr(ts[i]) /\ ts[i].do \notin {"make", "comma"}
      BY <1>2, <3>1 DEF Parts, Held
    <3> QED
      BY <3>2 DEF Within
  <2> QED
    BY <2>1, <2>2
<1> QED
  BY <1>1, <1>2 DEF Parts, Nests

LEMMA NothingNests ==
  ASSUME NEW h, NEW p, Expecting(h, p), LeavesOperand(h) => h.do \in Operand
  PROVE  Nests(h, <<>>, vals, p)
<1> DEFINE ts == <<>>
<1>1. IsSequence(ts) /\ Len(ts) = 0
  BY SequenceEmpty
<1>2. ts = <<>>
  OBVIOUS
<1> HIDE DEF ts
<1>3. (\A i \in 1 .. Len(ts) : FALSE) /\ \A i \in 2 .. Len(ts) : FALSE
  BY <1>1
<1>4. ASSUME NEW m, Encloses(m, h) PROVE Framed(m, vals, p)
  BY <1>4, SameNodes
<1>5. ASSUME LeavesOperand(h)
      PROVE  Topped(vals, p) /\ \A m : Encloses(m, h) => m.from < Len(vals)
  <2>1. h.do \in Operand
    BY <1>5
  <2> DEFINE s == vals[Len(vals)].span.lo
  <2>2. Len(vals) \in 1 .. Len(vals) /\ s < pos /\ Through(s, pos)
    BY <2>1 DEF Expecting, Topped
  <2>3. s \in Nat
    BY <2>2 DEF Expecting
  <2> HIDE DEF s
  <2>4. Through(s, p) /\ s < p
    BY <2>2, <2>3, ThroughOn DEF Expecting
  <2>5. Topped(vals, p)
    BY <2>4 DEF Topped, s
  <2> QED
    BY <2>1, <2>5 DEF Encloses
<1>6. Nests(h, ts, vals, p)
  BY <1>2, <1>3, <1>4, <1>5 DEF Nests
<1> QED
  BY <1>6 DEF ts

LEMMA ThroughNothing ==
  ASSUME NEW p \in Nat
  PROVE  Through(p, p)
<1>1. \A q \in p .. p - 1 : FALSE
  OBVIOUS
<1> QED
  BY <1>1 DEF Through

LEMMA ThroughOne ==
  ASSUME NEW p \in Nat, Kind(p) \notin Ends
  PROVE  Through(p, p + 1)
<1>1. \A q \in p .. (p + 1) - 1 : q = p
  OBVIOUS
<1> QED
  BY <1>1 DEF Through

LEMMA ThroughTwo ==
  ASSUME NEW p \in Nat, Kind(p) \notin Ends, Kind(p + 1) \notin Ends
  PROVE  Through(p, p + 2)
<1>1. \A q \in p .. (p + 2) - 1 : q = p \/ q = p + 1
  OBVIOUS
<1> QED
  BY <1>1 DEF Through

\* An expression goes on behind any operator.
LEMMA OperatorsGoOn ==
  ASSUME NEW k,
         k \in DOMAIN Precedence \/ k \in DOMAIN UnaryOps \/ k \in DOMAIN PostfixOps
           \/ k \in DOMAIN MemberKind
  PROVE  k \notin Ends
<1>1. Ends \subseteq StmtKeywords \cup {"none", "eof", ";", "{", "}", "ident"}
  BY Zenon DEF Ends
<1> QED
  BY <1>1, OperatorsAre, Zenon

LEMMA AssignmentsGoOn ==
  ASSUME NEW k \in AssignOps
  PROVE  k \notin Ends
BY Zenon DEF AssignOps, Ends, StmtKeywords

LEMMA LeavesGoOn ==
  ASSUME NEW k \in Leaves \cup {"(", "ident"}
  PROVE  k \notin Ends
BY Zenon DEF Leaves, Ends, StmtKeywords

LEMMA TypesGoOn ==
  ASSUME NEW k \in TypeSpecs \cup Qualifiers \cup {"*"}
  PROVE  k \notin Ends
BY Zenon DEF TypeSpecs, Qualifiers, BaseSpecs, Signs, Ends, StmtKeywords

LEMMA ThroughAfter ==
  ASSUME tokens \in Texts, NEW p \in Places, NEW kinds, "none" \notin kinds, kinds \cap Ends = {}
  PROVE  Through(p, After(p, kinds))
BY AfterIs DEF Through

\* The type in a cast.
LEMMA ThroughTypeSpecifier ==
  ASSUME tokens \in Texts, NEW p \in Places
  PROVE  Through(p, TypeSpecifier(p).end)
<1> DEFINE end == After(p, TypeSpecs \cup Qualifiers)
<1>1. TypeSpecifier(p).end = IF Kind(p) = "none" THEN p ELSE end
  BY DEF TypeSpecifier, Specified
<1>2. "none" \notin TypeSpecs \cup Qualifiers
  BY DEF TypeSpecs, Qualifiers, BaseSpecs, Signs
<1>3. (TypeSpecs \cup Qualifiers) \cap Ends = {}
  BY TypesGoOn, Zenon
<1>4. Through(p, end)
  BY <1>2, <1>3, ThroughAfter
<1>5. Through(p, p)
  BY TokensAre, ThroughNothing
<1> QED
  BY <1>1, <1>4, <1>5

LEMMA ThroughLevel ==
  ASSUME tokens \in Texts, NEW p, Kind(p) = "*"
  PROVE  Through(p, Level(p, FALSE).end)
<1> DEFINE q == After(p + 1, Qualifiers)
           end == Level(p, FALSE).end
<1>1. end = q
  BY DEF Level
<1>2. p \in Nat /\ p + 1 \in Nat /\ p + 1 \in Places /\ p < p + 1
  BY NextPlace
<1>3. "none" \notin Qualifiers /\ "*" \notin Ends
  BY TypesGoOn DEF Qualifiers
<1>4. Qualifiers \cap Ends = {}
  BY TypesGoOn, Zenon
<1>5. Through(p + 1, q)
  BY <1>2, <1>3, <1>4, ThroughAfter
<1>6. Through(p, p + 1)
  BY <1>2, <1>3, ThroughOne
<1>7. q \in Nat /\ p + 1 <= q
  BY <1>2, <1>3, AfterIs, TokensAre
<1> HIDE DEF q, end
<1>8. Through(p, end)
  BY <1>1, <1>2, <1>5, <1>6, <1>7, ThroughOn
<1> QED
  BY <1>8, Zenon DEF end

LEMMA ThroughPointers ==
  ASSUME tokens \in Texts, NEW p \in Places, NEW ty
  PROVE  Through(p, Pointers(p, ty, FALSE).end)
<1> DEFINE F(q) == IF Kind(q) = "*" THEN Level(q, FALSE).end ELSE q
           next == [q \in Places |-> F(q)]
           s == Stops(next, p)
           n == Len(s)
<1>1. Pointers(p, ty, FALSE).end = Last(s)
  BY DEF Pointers
<1>2. ASSUME NEW q \in Places PROVE Ahead(q, F(q)) /\ Through(q, F(q))
  <2>1. q \in Nat /\ Ahead(q, q) /\ Through(q, q)
    BY TokensAre, ThroughNothing DEF Ahead
  <2>2. Kind(q) = "*" => Ahead(q, Level(q, FALSE).end) /\ Through(q, Level(q, FALSE).end)
    BY LevelIs, ThroughLevel
  <2> QED
    BY <2>1, <2>2
<1> HIDE DEF F
<1>3. \A q \in Places : next[q] = F(q)
  OBVIOUS
<1>4. next = [q \in Places |-> next[q]]
  BY <1>3
<1> HIDE DEF next
<1>5. /\ IsLoopFrom(s, next, p, Len(tokens) + 1) /\ Last(s) = s[n] /\ n \in Nat \ {0}
  BY <1>2, <1>3, <1>4, UpwardsBy, LoopEndsAhead
<1> HIDE DEF s, n
<1> DEFINE S == {k \in Nat : k + 1 \in 1 .. n => Through(p, s[k + 1])}
<1>6. p \in Nat /\ Places = 1 .. Len(tokens) + 1 /\ Places \subseteq Nat /\ Len(tokens) \in Nat
  BY TokensAre
<1>7. 0 \in S
  <2>1. s[0 + 1] = p
    BY <1>5 DEF IsLoopFrom
  <2> QED
    BY <1>6, <2>1, ThroughNothing
<1>8. ASSUME NEW k \in S PROVE k + 1 \in S
  <2>1. k \in Nat /\ k + 1 \in Nat
    BY <1>8
  <2>2. SUFFICES ASSUME (k + 1) + 1 \in 1 .. n PROVE Through(p, s[(k + 1) + 1])
    BY <2>1
  <2>3. k + 1 \in 1 .. n - 1 /\ k + 1 \in 1 .. n
    BY <1>5, <2>1, <2>2
  <2>4. Through(p, s[k + 1]) /\ s[(k + 1) + 1] = next[s[k + 1]] /\ s[k + 1] \in p .. Len(tokens) + 1
    BY <1>5, <1>8, <2>3 DEF IsLoopFrom, n
  <2> DEFINE a == s[k + 1]
             b == s[(k + 1) + 1]
  <2>5. a \in Places /\ a \in Nat /\ p <= a /\ b = F(a)
    BY <1>3, <1>6, <2>4
  <2>6. Ahead(a, b) /\ Through(a, b)
    BY <1>2, <2>5
  <2>7. b \in Nat /\ a <= b
    BY <1>6, <2>6 DEF Ahead
  <2>8. Through(p, a)
    BY <2>4
  <2> HIDE DEF a, b
  <2>9. Through(p, b)
    BY <1>6, <2>5, <2>6, <2>7, <2>8, ThroughOn
  <2> QED
    BY <2>9 DEF b
<1>9. n - 1 \in Nat /\ (n - 1) + 1 = n /\ n \in 1 .. n
  BY <1>5
<1>10. n - 1 \in S
  <2>1. S \in SUBSET Nat
    OBVIOUS
  <2> HIDE DEF S
  <2> QED
    BY <1>7, <1>8, <1>9, <2>1, SetInduction
<1>11. Through(p, s[n])
  <2>1. (n - 1) + 1 \in 1 .. n => Through(p, s[(n - 1) + 1])
    BY <1>10
  <2> HIDE DEF S
  <2> QED
    BY <1>9, <2>1
<1> QED
  BY <1>1, <1>5, <1>11

LEMMA CalmNothing ==
  ASSUME NEW h, ~InExpr(h), NEW vs, NEW p
  PROVE  Nests(h, <<>>, vs, p)
<1> DEFINE ts == <<>>
<1>1. IsSequence(ts) /\ Len(ts) = 0
  BY SequenceEmpty
<1> HIDE DEF ts
<1>2. \A i \in 1 .. Len(ts) : FALSE
  BY <1>1
<1>3. Nests(h, ts, vs, p)
  BY <1>1, <1>2, CalmNests
<1> QED
  BY <1>3 DEF ts

\* A new node takes the place of the task and of the nodes above the first f.
LEMMA NodeNests ==
  ASSUME NEW h, pos \in Nat, NEW p \in Nat, pos <= p, Through(pos, p),
         Len(vals) \in Nat, \A v \in 1 .. Len(vals) : vals[v].span.lo \in Nat,
         NEW f \in Nat, f <= Len(vals), NEW vs, Len(vs) = f + 1, \A v \in 1 .. f : vs[v] = vals[v],
         vs[f + 1].span.lo \in Nat,
         \A m : Encloses(m, h) => m.from <= f /\ m.first.lo <= vs[f + 1].span.lo /\ vs[f + 1].span.lo < p,
         LeavesOperand(h) => vs[f + 1].span.lo < p /\ Through(vs[f + 1].span.lo, p)
  PROVE  Nests(h, <<>>, vs, p)
<1> DEFINE ts == <<>>
           s == vs[f + 1].span.lo
<1>1. IsSequence(ts) /\ Len(ts) = 0
  BY SequenceEmpty
<1>2. ts = <<>>
  OBVIOUS
<1> HIDE DEF ts
<1>3. (\A i \in 1 .. Len(ts) : FALSE) /\ \A i \in 2 .. Len(ts) : FALSE
  BY <1>1
<1>4. ASSUME NEW m, Encloses(m, h) PROVE Framed(m, vs, p) /\ m.from < Len(vs)
  <2>1. m.first.lo \in Nat /\ m.from \in Nat /\ Framed(m, vals, pos)
    BY <1>4 DEF Encloses
  <2>2. m.from <= f /\ m.first.lo <= s /\ s < p /\ s \in Nat
    BY <1>4
  <2> HIDE DEF s
  <2>3. m.first.lo < p /\ Through(m.first.lo, p)
    BY <2>1, ThroughOn DEF Framed
  <2>4. ASSUME NEW v \in m.from + 1 .. Len(vs) PROVE m.first.lo <= vs[v].span.lo /\ vs[v].span.lo < p
    <3>1. CASE v = f + 1
      BY <2>2, <3>1 DEF s
    <3>2. CASE v # f + 1
      <4>1. v \in 1 .. f /\ v \in m.from + 1 .. Len(vals) /\ v \in 1 .. Len(vals)
        BY <2>1, <3>2
      <4>2. m.first.lo <= vals[v].span.lo /\ vals[v].span.lo < pos /\ vals[v].span.lo \in Nat
        BY <2>1, <4>1 DEF Framed
      <4>3. vs[v] = vals[v]
        BY <4>1
      <4> QED
        BY <4>2, <4>3
    <3> QED
      BY <3>1, <3>2
  <2>5. m.from < Len(vs) /\ m.from <= Len(vs)
    BY <2>1, <2>2
  <2> QED
    BY <2>3, <2>4, <2>5 DEF Framed
<1>5. LeavesOperand(h) => Topped(vs, p)
  BY DEF Topped
<1>6. Nests(h, ts, vs, p)
  BY <1>2, <1>3, <1>4, <1>5 DEF Nests
<1> QED
  BY <1>6 DEF ts

LEMMA LeafNests ==
  ASSUME NEW h, NEW p, Expecting(h, p), pos < p, NEW vs, Len(vs) = Len(vals) + 1,
         \A v \in 1 .. Len(vals) : vs[v] = vals[v], vs[Len(vals) + 1].span.lo = pos
  PROVE  Nests(h, <<>>, vs, p)
<1>1. /\ pos \in Nat /\ p \in Nat /\ pos <= p /\ Through(pos, p)
      /\ Len(vals) \in Nat /\ \A v \in 1 .. Len(vals) : vals[v].span.lo \in Nat
  BY DEF Expecting
<1>2. \A m : Encloses(m, h) => m.from <= Len(vals) /\ m.first.lo <= pos
  BY <1>1 DEF Encloses, Framed
<1> DEFINE f == Len(vals)
<1>3. /\ f \in Nat /\ f <= Len(vals) /\ Len(vs) = f + 1 /\ (\A v \in 1 .. f : vs[v] = vals[v])
      /\ vs[f + 1].span.lo = pos
  BY <1>1
<1> HIDE DEF f
<1> QED
  BY <1>1, <1>2, <1>3, NodeNests DEF f

-----------------------------------------------------------------------------
(* What keeps the invariant.                                                  *)

LEMMA NestedPrimed ==
  ASSUME tokens' = tokens, NestedBy(todo', vals', pos'),
         panicked' => \E p \in 1 .. Len(tokens) - 1 : ExprBoundary(p)
  PROVE  Nested'
<1>1. \A p : Kind(p)' = Kind(p)
  BY DEF Kind
<1>2. \A a, p : Through(a, p)' <=> Through(a, p)
  BY <1>1, Zenon DEF Through
<1>3. NestedBy(todo, vals, pos)'
  BY <1>2, Zenon DEF NestedBy, Framed, Topped
<1>4. \A p : ExprBoundary(p)' <=> ExprBoundary(p)
  BY <1>1, Zenon DEF ExprBoundary
<1>5. PanicsOnlyAcrossFiles'
  BY <1>4, Zenon DEF PanicsOnlyAcrossFiles
<1> QED
  BY <1>3, <1>5 DEF Nested

LEMMA StepKeepsNesting ==
  ASSUME InOrder, Shaped, Nested, NEW name, At(name), NEW p, NEW ts, NEW vs, NEW es, Step(p, ts, vs, es),
         Ahead(pos, p), IsSequence(ts), Nests(todo[1], ts, vs, p)
  PROVE  Nested'
<1>1. /\ pos' = p /\ todo' = ts \o Tail(todo) /\ tokens' = tokens /\ vals' = vs
      /\ panicked' = panicked
  BY DEF Step
<1>2. tokens \in Texts /\ IsSequence(todo) /\ todo # <<>> /\ pos \in Nat
  BY HeadIs
<1>3. p \in Nat /\ pos <= p
  BY <1>2, TokensAre DEF Ahead
<1>4. \A i \in 1 .. Len(todo) : Carries(todo[i], pos)
  BY DEF Shaped, ShapedBy
<1>5. NestedBy(todo, vals, pos) /\ (panicked => \E r \in 1 .. Len(tokens) - 1 : ExprBoundary(r))
  BY DEF Nested, PanicsOnlyAcrossFiles
<1>6. NestedBy(ts \o Tail(todo), vs, p)
  BY <1>2, <1>3, <1>4, <1>5, StepNests
<1> QED
  BY <1>1, <1>5, <1>6, NestedPrimed

LEMMA FailKeepsNesting ==
  ASSUME InOrder, Nested, NEW name, At(name), name \notin Rounds, NEW p, NEW es, Fail(p, es)
  PROVE  Nested'
<1> DEFINE h == Min({i \in DOMAIN todo : i > 1 /\ todo[i].do \in Handlers})
<1>1. todo # <<>> /\ todo[1].do # "items" /\ IsSequence(todo) /\ LastCatches(todo)
  BY HeadIs DEF Rounds
<1>2. /\ pos' = p /\ todo' = Resumed(h, todo) /\ tokens' = tokens /\ vals' = vals
      /\ panicked' = panicked
  BY DEF Fail, Resumed
<1>3. IsHandlerOf(h, todo)
  BY <1>1, HandlerExists
<1> HIDE DEF h
<1>4. IsLoop(todo[h])
  <2>1. h \in 1 .. Len(todo) /\ todo[h].do \in Handlers
    BY <1>1, <1>3, SequenceElim DEF IsHandlerOf
  <2> QED
    BY <2>1 DEF InOrder, Ordered, TaskIs
<1>5. NestedBy(Resumed(h, todo), vals, p)
  BY <1>1, <1>3, <1>4, FailNests DEF Nested
<1> QED
  BY <1>2, <1>5, NestedPrimed DEF Nested, PanicsOnlyAcrossFiles

LEMMA StepKeeps ==
  ASSUME InOrder, Shaped, Nested, NEW name, At(name), NEW p, NEW ts, NEW vs, NEW es, Step(p, ts, vs, es),
         Ahead(pos, p), FitsOrder(todo[1], ts, p), Nests(todo[1], ts, vs, p),
         AreNodes(vs), AreReports(es), Provides(todo[1], ts, Len(vs), p)
  PROVE  InOrder' /\ Shaped' /\ Nested'
<1>1. InOrder'
  BY StepKeepsOrder
<1>2. IsSequence(ts)
  BY DEF FitsOrder
<1>3. Shaped'
  BY <1>2, StepKeepsShape
<1>4. Nested'
  BY <1>2, StepKeepsNesting
<1> QED
  BY <1>1, <1>3, <1>4

LEMMA FailKeeps ==
  ASSUME InOrder, Shaped, Nested, NEW name, At(name), name \notin Rounds, NEW p, NEW es, Fail(p, es),
         Ahead(pos, p), AreReports(es)
  PROVE  InOrder' /\ Shaped' /\ Nested'
<1>1. InOrder'
  BY FailKeepsOrder
<1>2. Shaped'
  BY FailKeepsShape
<1>3. Nested'
  BY FailKeepsNesting
<1> QED
  BY <1>1, <1>2, <1>3

\* t may be first at p.
Begins(t, p) ==
  /\ t.do \in AtToken => Kind(p) # "none"
  /\ t.do = "block" => Kind(p) = "{"

LEMMA BeginsAnywhere ==
  ASSUME NEW t, t.do \notin AtToken, NEW p
  PROVE  Begins(t, p)
<1>1. t.do # "block"
  BY DEF AtToken
<1> QED
  BY <1>1, Zenon DEF Begins

LEMMA ListedKeeps ==
  ASSUME InOrder, Shaped, Nested, NEW name, At(name), name \notin {"items", "expect"},
         NEW p, NEW ts, NEW vs, NEW es, Step(p, ts, vs, es), Ahead(pos, p),
         Listed(ts), Begins(ts[1], p),
         p = pos /\ name \in Consuming => ts[1].do \in Consuming,
         AreNodes(vs), AreReports(es), \E g : Jobs(ts, g, Len(vs), p), Nests(todo[1], ts, vs, p)
  PROVE  InOrder' /\ Shaped' /\ Nested'
<1>1. todo[1].do = name
  BY HeadIs
<1>2. FitsOrder(todo[1], ts, p)
  BY <1>1, ListedFits DEF Begins
<1>3. PICK g : Jobs(ts, g, Len(vs), p)
  OBVIOUS
<1>4. \A i \in 1 .. Len(ts) : ts[i].do \notin Handlers
  BY DEF Listed, Fine
<1>5. Provides(todo[1], ts, Len(vs), p)
  BY <1>3, <1>4, ListProvides
<1> QED
  BY <1>2, <1>5, StepKeeps

LEMMA NothingKeeps ==
  ASSUME InOrder, Shaped, Nested, NEW name, At(name),
         NEW p, NEW vs, NEW es, Step(p, <<>>, vs, es), Ahead(pos, p),
         name = "expect" => Kind(p) # "none", name \in Consuming => p # pos,
         AreNodes(vs), AreReports(es), \A m \in Nat : Yields(todo[1], Len(vals), m) => m <= Len(vs),
         Nests(todo[1], <<>>, vs, p)
  PROVE  InOrder' /\ Shaped' /\ Nested'
<1>1. todo[1].do = name
  BY HeadIs
<1> DEFINE ts == <<>>
<1>2. FitsOrder(todo[1], ts, p)
  BY <1>1, NothingFits
<1>3. Len(vs) \in Nat
  BY SequenceElim DEF AreNodes
<1>4. Provides(todo[1], ts, Len(vs), p)
  BY <1>3, NothingProvides
<1>5. Step(p, ts, vs, es) /\ Nests(todo[1], ts, vs, p)
  OBVIOUS
<1> HIDE DEF ts
<1> QED
  BY <1>2, <1>4, <1>5, StepKeeps

-----------------------------------------------------------------------------
(* The lists of tasks that the actions put together.                         *)


-----------------------------------------------------------------------------
(* Every action keeps the invariant.                                         *)

LEMMA ParseItemFormKeeps ==
  ASSUME InOrder, Shaped, Nested, ParseItemForm
  PROVE  InOrder' /\ Shaped' /\ Nested'
<1>1. At("item_form")
  BY Zenon DEF ParseItemForm
<1>2. tokens \in Texts /\ pos \in Places /\ pos \in Nat /\ Ahead(pos, pos)
  BY <1>1, HeadIs, Zenon
<1>3. /\ Task = todo[1] /\ todo[1].do = "item_form" /\ Len(vals) \in Nat
      /\ AreNodes(vals) /\ Task.c.at \in DOMAIN tokens /\ 1 <= Len(vals)
  <2>1. Task = todo[1] /\ todo[1].do = "item_form"
    BY <1>1, HeadIs, Zenon
  <2>2. Carries(todo[1], pos) /\ Enough(todo[1], Len(vals)) /\ Len(vals) \in Nat /\ AreNodes(vals)
    BY <1>1, HeadShaped, Zenon
  <2> QED
    BY <2>1, <2>2 DEF Carries, Enough, Handlers
<1>4. \A m \in Nat : Yields(todo[1], Len(vals), m) => m <= Len(vals)
  BY <1>3 DEF Yields, Giving, Closing, Handlers
<1>5. ~InExpr(todo[1])
  BY <1>3 DEF InExpr
<1>6. CASE Kind(pos) = "("
  <2> DEFINE ts == <<Call("params"), Expect(")"), Call("body"), [do |-> "finish_fn",
                     c |-> Task.c, from |-> Len(vals) - 1]>>
  <2>1. Step(pos + 1, ts, vals, <<>>)
    BY <1>6, Zenon DEF ParseItemForm, Go, Push
  <2>2. Ahead(pos, pos + 1)
    BY <1>6, <1>2, NextPlace, Zenon
  <2>3. /\ IsSequence(ts) /\ Len(ts) = 4 /\ ts[1] = Call("params")
          /\ ts[2] = Expect(")") /\ ts[3] = Call("body")
          /\ ts[4] = [do |-> "finish_fn", c |-> Task.c, from |-> Len(vals) - 1]
    BY SequenceFour
  <2> HIDE DEF ts
  <2>4. IsSequence(ts) /\ Len(ts) = 4
    BY <2>3
  <2>5. ts[1].do = "params"
    BY <2>3, CallIs, Zenon
  <2>6. ts[2].do = "expect" /\ Fine(ts[2])
    BY <2>3, ExpectIs, Zenon
  <2>7. ts[3].do = "body"
    BY <2>3, CallIs, Zenon
  <2>8. /\ ts[4].do = "finish_fn" /\ ts[4].c = Task.c
          /\ ts[4].from = Len(vals) - 1
    <3>1. /\ [do |-> "finish_fn", c |-> Task.c, from |-> Len(vals) - 1].do = "finish_fn"
            /\ [do |-> "finish_fn", c |-> Task.c, from |-> Len(vals) - 1].c = Task.c
            /\ [do |-> "finish_fn", c |-> Task.c, from |-> Len(vals) - 1].from = Len(vals) - 1
      OBVIOUS
    <3> QED
      BY <2>3, <3>1, Zenon
  <2>9. Listed(ts)
    <3>1. Fine(ts[1]) /\ Fine(ts[2])
      BY <2>5, <2>6 DEF Fine, TaskIs, Tasks, Handlers
    <3>2. Fine(ts[3]) /\ Fine(ts[4])
      BY <2>7, <2>8 DEF Fine, TaskIs, Tasks, Handlers
    <3>3. \A i \in 1 .. 4 : Fine(ts[i])
      BY <3>1, <3>2
    <3>4. \A i \in 2 .. 4 : (ts[i].do \in AtToken => ts[i - 1].do = "expect") /\ ts[i].do # "block"
      BY <2>5, <2>6, <2>7, <2>8 DEF AtToken
    <3> QED
      BY <2>4, <3>3, <3>4, SequenceElim DEF Listed
  <2>10. Begins(ts[1], pos + 1)
    BY <2>5, BeginsAnywhere DEF AtToken
  <2>11. Job(ts[1], pos + 1, Len(vals), Len(vals) + 1)
    BY <1>2, <1>3, <1>4, <2>5, GivingJob DEF Giving
  <2>12. Job(ts[2], pos + 1, Len(vals) + 1, Len(vals) + 1)
    BY <1>2, <1>3, <1>4, <2>6, PlainJob DEF Plain
  <2>13. Job(ts[3], pos + 1, Len(vals) + 1, Len(vals) + 1)
    BY <1>2, <1>3, <1>4, <2>7, PlainJob DEF Plain
  <2>14. Job(ts[4], pos + 1, Len(vals) + 1, Len(vals))
    BY <1>2, <1>3, <1>4, <2>8, FinishJob
  <2>15. \E g : Jobs(ts, g, Len(vals), pos + 1)
    <3> DEFINE g == [i \in 1 .. 5 |-> IF i <= 1 THEN Len(vals) ELSE IF i <= 4 THEN Len(vals) + 1 ELSE Len(vals)]
    <3>1. /\ g[1] = Len(vals) /\ g[2] = Len(vals) + 1 /\ g[3] = Len(vals) + 1
            /\ g[4] = Len(vals) + 1 /\ g[5] = Len(vals)
      OBVIOUS
    <3> HIDE DEF g
    <3>2. \A i \in 1 .. 5 : g[i] \in Nat
      BY <1>2, <1>3, <1>4, <3>1
    <3>3. \A i \in 1 .. 4 : Reaches(todo[1], g[i])
      BY <1>2, <1>3, <1>4, <3>1 DEF Reaches
    <3>4. \A i \in 1 .. 4 : Job(ts[i], pos + 1, g[i], g[i + 1])
      <4>1. /\ Job(ts[1], pos + 1, g[1], g[1 + 1])
            /\ Job(ts[2], pos + 1, g[2], g[2 + 1])
            /\ Job(ts[3], pos + 1, g[3], g[3 + 1])
            /\ Job(ts[4], pos + 1, g[4], g[4 + 1])
        BY <3>1, <2>11, <2>12, <2>13, <2>14
      <4>2. \A i \in 1 .. 4 : i = 1 \/ i = 2 \/ i = 3 \/ i = 4
        OBVIOUS
      <4> QED
        BY <4>1, <4>2, Zenon
    <3>5. Len(ts) = 4 /\ Len(ts) + 1 = 5
      BY <2>4
    <3>6. g[1] <= Len(vals) /\ \A m \in Nat : Yields(todo[1], Len(vals), m) => m <= g[5]
      BY <1>2, <1>3, <1>4, <3>1
    <3> QED
      BY <3>2, <3>4, <3>5, <3>6, <3>3, Zenon DEF Jobs
  <2>16. Nests(todo[1], ts, vals, pos + 1)
    <3>1. /\ ~Joins(ts[1]) /\ ts[1].do \notin Operand
            /\ ~Joins(ts[2]) /\ ts[2].do \notin Operand
            /\ ~Joins(ts[3]) /\ ts[3].do \notin Operand
            /\ ~Joins(ts[4]) /\ ts[4].do \notin Operand
      BY <2>5, <2>6, <2>7, <2>8 DEF Joins, Operand
    <3>2. \A i \in 1 .. 4 : ~Joins(ts[i]) /\ ts[i].do \notin Operand
      <4>1. \A i \in 1 .. 4 : i = 1 \/ i = 2 \/ i = 3 \/ i = 4
        OBVIOUS
      <4> QED
        BY <3>1, <4>1, Zenon
    <3> QED
      BY <1>5, <2>4, <3>2, CalmNests
  <2> QED
    BY <1>1, <1>3, <2>1, <2>2, <2>5, <2>9, <2>10, <2>15, <2>16,
       NothingReported, ListedKeeps DEF Consuming
<1>7. CASE Kind(pos) # "("
  <2> DEFINE ts == <<Call("array"), Call("init"), Of("finish_var", Task.c), Of("more", Task.c)>>
  <2>1. Step(pos, ts, vals, <<>>)
    BY <1>7, Zenon DEF ParseItemForm, Go, Push, VarTasks
  <2>2. Ahead(pos, pos)
    BY <1>7, <1>2
  <2>3. /\ IsSequence(ts) /\ Len(ts) = 4 /\ ts[1] = Call("array")
          /\ ts[2] = Call("init") /\ ts[3] = Of("finish_var", Task.c)
          /\ ts[4] = Of("more", Task.c)
    BY SequenceFour, Zenon
  <2> HIDE DEF ts
  <2>4. IsSequence(ts) /\ Len(ts) = 4
    BY <2>3
  <2>5. ts[1].do = "array"
    BY <2>3, CallIs, Zenon
  <2>6. ts[2].do = "init"
    BY <2>3, CallIs, Zenon
  <2>7. ts[3].do = "finish_var" /\ ts[3].c = Task.c
    <3>1. ts[3] = Of("finish_var", Task.c)
      BY <2>3, Zenon
    <3>2. /\ Of("finish_var", Task.c).do = "finish_var"
            /\ Of("finish_var", Task.c).c = Task.c
      BY OfIs
    <3> QED
      BY <3>1, <3>2, Zenon
  <2>8. ts[4].do = "more" /\ ts[4].c = Task.c
    <3>1. ts[4] = Of("more", Task.c)
      BY <2>3, Zenon
    <3>2. Of("more", Task.c).do = "more" /\ Of("more", Task.c).c = Task.c
      BY OfIs
    <3> QED
      BY <3>1, <3>2, Zenon
  <2>9. Listed(ts)
    <3>1. Fine(ts[1]) /\ Fine(ts[2])
      BY <2>5, <2>6 DEF Fine, TaskIs, Tasks, Handlers
    <3>2. Fine(ts[3]) /\ Fine(ts[4])
      BY <2>7, <2>8 DEF Fine, TaskIs, Tasks, Handlers
    <3>3. \A i \in 1 .. 4 : Fine(ts[i])
      BY <3>1, <3>2
    <3>4. \A i \in 2 .. 4 : (ts[i].do \in AtToken => ts[i - 1].do = "expect") /\ ts[i].do # "block"
      BY <2>5, <2>6, <2>7, <2>8 DEF AtToken
    <3> QED
      BY <2>4, <3>3, <3>4, SequenceElim DEF Listed
  <2>10. Begins(ts[1], pos)
    BY <2>5, BeginsAnywhere DEF AtToken
  <2>11. Job(ts[1], pos, Len(vals), Len(vals))
    BY <1>2, <1>3, <1>4, <2>5, UsingJob DEF Using
  <2>12. Job(ts[2], pos, Len(vals), Len(vals))
    BY <1>2, <1>3, <1>4, <2>6, UsingJob DEF Using
  <2>13. Job(ts[3], pos, Len(vals), Len(vals))
    BY <1>2, <1>3, <1>4, <2>7, DeclarationJob DEF OfDeclaration
  <2>14. Job(ts[4], pos, Len(vals), Len(vals))
    BY <1>2, <1>3, <1>4, <2>8, DeclarationJob DEF OfDeclaration
  <2>15. \E g : Jobs(ts, g, Len(vals), pos)
    <3> DEFINE g == [i \in 1 .. 5 |-> Len(vals)]
    <3>1. /\ g[1] = Len(vals) /\ g[2] = Len(vals) /\ g[3] = Len(vals)
            /\ g[4] = Len(vals) /\ g[5] = Len(vals)
      OBVIOUS
    <3> HIDE DEF g
    <3>2. \A i \in 1 .. 5 : g[i] \in Nat
      BY <1>2, <1>3, <1>4, <3>1
    <3>3. \A i \in 1 .. 4 : Reaches(todo[1], g[i])
      BY <1>2, <1>3, <1>4, <3>1 DEF Reaches
    <3>4. \A i \in 1 .. 4 : Job(ts[i], pos, g[i], g[i + 1])
      <4>1. /\ Job(ts[1], pos, g[1], g[1 + 1]) /\ Job(ts[2], pos, g[2], g[2 + 1])
            /\ Job(ts[3], pos, g[3], g[3 + 1]) /\ Job(ts[4], pos, g[4], g[4 + 1])
        BY <3>1, <2>11, <2>12, <2>13, <2>14
      <4>2. \A i \in 1 .. 4 : i = 1 \/ i = 2 \/ i = 3 \/ i = 4
        OBVIOUS
      <4> QED
        BY <4>1, <4>2, Zenon
    <3>5. Len(ts) = 4 /\ Len(ts) + 1 = 5
      BY <2>4
    <3>6. g[1] <= Len(vals) /\ \A m \in Nat : Yields(todo[1], Len(vals), m) => m <= g[5]
      BY <1>2, <1>3, <1>4, <3>1
    <3> QED
      BY <3>2, <3>4, <3>5, <3>6, <3>3, Zenon DEF Jobs
  <2>16. Nests(todo[1], ts, vals, pos)
    <3>1. /\ ~Joins(ts[1]) /\ ts[1].do \notin Operand
            /\ ~Joins(ts[2]) /\ ts[2].do \notin Operand
            /\ ~Joins(ts[3]) /\ ts[3].do \notin Operand
            /\ ~Joins(ts[4]) /\ ts[4].do \notin Operand
      BY <2>5, <2>6, <2>7, <2>8 DEF Joins, Operand
    <3>2. \A i \in 1 .. 4 : ~Joins(ts[i]) /\ ts[i].do \notin Operand
      <4>1. \A i \in 1 .. 4 : i = 1 \/ i = 2 \/ i = 3 \/ i = 4
        OBVIOUS
      <4> QED
        BY <3>1, <4>1, Zenon
    <3> QED
      BY <1>5, <2>4, <3>2, CalmNests
  <2> QED
    BY <1>1, <1>3, <2>1, <2>2, <2>5, <2>9, <2>10, <2>15, <2>16,
       NothingReported, ListedKeeps DEF Consuming
<1> QED
  BY <1>6, <1>7, Zenon

LEMMA ParseInitializerKeeps ==
  ASSUME InOrder, Shaped, Nested, ParseInitializer
  PROVE  InOrder' /\ Shaped' /\ Nested'
<1>1. At("init")
  BY Zenon DEF ParseInitializer
<1>2. tokens \in Texts /\ pos \in Places /\ pos \in Nat /\ Ahead(pos, pos)
  BY <1>1, HeadIs, Zenon
<1>3. /\ Task = todo[1] /\ todo[1].do = "init" /\ Len(vals) \in Nat
      /\ AreNodes(vals) /\ 1 <= Len(vals)
  <2>1. Task = todo[1] /\ todo[1].do = "init"
    BY <1>1, HeadIs, Zenon
  <2>2. Carries(todo[1], pos) /\ Enough(todo[1], Len(vals)) /\ Len(vals) \in Nat /\ AreNodes(vals)
    BY <1>1, HeadShaped, Zenon
  <2> QED
    BY <2>1, <2>2 DEF Carries, Enough, Handlers
<1>4. \A m \in Nat : Yields(todo[1], Len(vals), m) => m <= Len(vals)
  BY <1>3 DEF Yields, Giving, Closing, Handlers
<1>5. ~InExpr(todo[1])
  BY <1>3 DEF InExpr
<1>6. CASE Kind(pos) = "="
  <2> DEFINE ts == <<Call("assignment"), Call("attach")>>
  <2>1. Step(pos + 1, ts, vals, <<>>)
    BY <1>6, Zenon DEF ParseInitializer, Go, Push
  <2>2. Ahead(pos, pos + 1)
    BY <1>6, <1>2, NextPlace, Zenon
  <2>3. /\ IsSequence(ts) /\ Len(ts) = 2 /\ ts[1] = Call("assignment")
          /\ ts[2] = Call("attach")
    BY SequenceTwo, Zenon
  <2> HIDE DEF ts
  <2>4. IsSequence(ts) /\ Len(ts) = 2
    BY <2>3
  <2>5. ts[1].do = "assignment"
    BY <2>3, CallIs, Zenon
  <2>6. ts[2].do = "attach"
    BY <2>3, CallIs, Zenon
  <2>7. Listed(ts)
    <3>1. \A i \in 1 .. 2 : Fine(ts[i])
      BY <2>5, <2>6 DEF Fine, TaskIs, Tasks, Handlers
    <3>2. \A i \in 2 .. 2 : (ts[i].do \in AtToken => ts[i - 1].do = "expect") /\ ts[i].do # "block"
      BY <2>5, <2>6 DEF AtToken
    <3> QED
      BY <2>4, <3>1, <3>2, SequenceElim DEF Listed
  <2>8. Begins(ts[1], pos + 1)
    BY <2>5, BeginsAnywhere DEF AtToken
  <2>9. Job(ts[1], pos + 1, Len(vals), Len(vals) + 1)
    BY <1>2, <1>3, <1>4, <2>5, GivingJob DEF Giving
  <2>10. Job(ts[2], pos + 1, Len(vals) + 1, Len(vals))
    BY <1>2, <1>3, <1>4, <2>6, AttachJob
  <2>11. \E g : Jobs(ts, g, Len(vals), pos + 1)
    <3> DEFINE g == [i \in 1 .. 3 |-> IF i <= 1 THEN Len(vals) ELSE IF i <= 2 THEN Len(vals) + 1 ELSE Len(vals)]
    <3>1. g[1] = Len(vals) /\ g[2] = Len(vals) + 1 /\ g[3] = Len(vals)
      OBVIOUS
    <3> HIDE DEF g
    <3>2. \A i \in 1 .. 3 : g[i] \in Nat
      BY <1>2, <1>3, <1>4, <3>1
    <3>3. \A i \in 1 .. 2 : Reaches(todo[1], g[i])
      BY <1>2, <1>3, <1>4, <3>1 DEF Reaches
    <3>4. \A i \in 1 .. 2 : Job(ts[i], pos + 1, g[i], g[i + 1])
      BY <3>1, <2>9, <2>10
    <3>5. Len(ts) = 2 /\ Len(ts) + 1 = 3
      BY <2>4
    <3>6. g[1] <= Len(vals) /\ \A m \in Nat : Yields(todo[1], Len(vals), m) => m <= g[3]
      BY <1>2, <1>3, <1>4, <3>1
    <3> QED
      BY <3>2, <3>4, <3>5, <3>6, <3>3, Zenon DEF Jobs
  <2>12. Nests(todo[1], ts, vals, pos + 1)
    <3>1. \A i \in 1 .. 2 : ~Joins(ts[i]) /\ ts[i].do \notin Operand
      BY <2>5, <2>6 DEF Joins, Operand
    <3> QED
      BY <1>5, <2>4, <3>1, CalmNests
  <2> QED
    BY <1>1, <1>3, <2>1, <2>2, <2>5, <2>7, <2>8, <2>11, <2>12,
       NothingReported, ListedKeeps DEF Consuming
<1>7. CASE Kind(pos) # "="
  <2>1. Step(pos, <<>>, vals, <<>>)
    BY <1>7, Zenon DEF ParseInitializer, Go, Push
  <2>2. Ahead(pos, pos)
    BY <1>7, <1>2
  <2>3. \A m \in Nat : Yields(todo[1], Len(vals), m) => m <= Len(vals)
    BY <1>7, <1>2, <1>3, <1>4
  <2>4. Nests(todo[1], <<>>, vals, pos)
    BY <1>5, CalmNothing
  <2> QED
    BY <1>1, <1>3, <2>1, <2>2, <2>3, <2>4, NothingReported, NothingKeeps DEF Consuming
<1> QED
  BY <1>6, <1>7, Zenon

LEMMA AttachInitializerKeeps ==
  ASSUME InOrder, Shaped, Nested, AttachInitializer
  PROVE  InOrder' /\ Shaped' /\ Nested'
<1>1. At("attach")
  BY Zenon DEF AttachInitializer
<1>2. tokens \in Texts /\ pos \in Places /\ pos \in Nat /\ Ahead(pos, pos)
  BY <1>1, HeadIs, Zenon
<1>3. /\ Task = todo[1] /\ todo[1].do = "attach" /\ Len(vals) \in Nat
      /\ AreNodes(vals) /\ 2 <= Len(vals)
  <2>1. Task = todo[1] /\ todo[1].do = "attach"
    BY <1>1, HeadIs, Zenon
  <2>2. Carries(todo[1], pos) /\ Enough(todo[1], Len(vals)) /\ Len(vals) \in Nat /\ AreNodes(vals)
    BY <1>1, HeadShaped, Zenon
  <2> QED
    BY <2>1, <2>2 DEF Carries, Enough, Handlers
<1>4. \A m \in Nat : Yields(todo[1], Len(vals), m) => m <= Len(vals) - 1
  BY <1>3 DEF Yields, Giving, Closing, Handlers
<1>5. ~InExpr(todo[1])
  BY <1>3 DEF InExpr
<1> DEFINE new == Append(SubSeq(vals, 1, Len(vals) - 2),
                  [vals[Len(vals) - 1] EXCEPT !.args = <<Last(vals)>>])
<1>6. AreNodes(new) /\ Len(new) = Len(vals) - 1
  <2> DEFINE below == SubSeq(vals, 1, Len(vals) - 2)
             var == [vals[Len(vals) - 1] EXCEPT !.args = <<Last(vals)>>]
  <2>1. Len(vals) - 2 \in Nat /\ Len(vals) - 2 <= Len(vals) /\ Len(vals) - 1 \in 1 .. Len(vals)
    BY <1>3
  <2>2. AreNodes(below) /\ Len(below) = Len(vals) - 2
    BY <1>3, <2>1, NodesBelow
  <2>3. IsNode(var)
    BY <1>3, <2>1, NodeAt, NodeEdited
  <2> HIDE DEF below, var
  <2>4. AreNodes(Append(below, var)) /\ Len(Append(below, var)) = Len(vals) - 2 + 1
    BY <2>2, <2>3, NodesGrow
  <2> QED
    BY <1>3, <2>4 DEF below, var
<1>7. Step(pos, <<>>, new, <<>>)
  BY Zenon DEF AttachInitializer, Go, Push
<1>8. Ahead(pos, pos)
  BY <1>2
<1> HIDE DEF new
<1>9. \A m \in Nat : Yields(todo[1], Len(vals), m) => m <= Len(new)
  BY <1>2, <1>3, <1>4, <1>6
<1>10. Nests(todo[1], <<>>, new, pos)
  BY <1>5, CalmNothing
<1> QED
  BY <1>1, <1>3, <1>6, <1>7, <1>8, <1>9, <1>10, NothingReported, NothingKeeps DEF Consuming

LEMMA FinishVarKeeps ==
  ASSUME InOrder, Shaped, Nested, FinishVar
  PROVE  InOrder' /\ Shaped' /\ Nested'
<1>1. At("finish_var")
  BY Zenon DEF FinishVar
<1>2. tokens \in Texts /\ pos \in Places /\ pos \in Nat /\ Ahead(pos, pos)
  BY <1>1, HeadIs, Zenon
<1>3. /\ Task = todo[1] /\ todo[1].do = "finish_var" /\ Len(vals) \in Nat
      /\ AreNodes(vals) /\ Task.c.at \in DOMAIN tokens /\ 1 <= Len(vals)
  <2>1. Task = todo[1] /\ todo[1].do = "finish_var"
    BY <1>1, HeadIs, Zenon
  <2>2. Carries(todo[1], pos) /\ Enough(todo[1], Len(vals)) /\ Len(vals) \in Nat /\ AreNodes(vals)
    BY <1>1, HeadShaped, Zenon
  <2> QED
    BY <2>1, <2>2 DEF Carries, Enough, Handlers
<1>4. \A m \in Nat : Yields(todo[1], Len(vals), m) => m <= Len(vals)
  BY <1>3 DEF Yields, Giving, Closing, Handlers
<1>5. ~InExpr(todo[1])
  BY <1>3 DEF InExpr
<1> DEFINE new == EditTop([Last(vals) EXCEPT !.span = SpanFrom(IF Task.c.local THEN Last(vals).span ELSE TokenSpan(Task.c.at)), !.ty.storage = Task.c.storage])
<1>6. AreNodes(new) /\ Len(new) = Len(vals)
  <2> DEFINE start == IF Task.c.local THEN Last(vals).span ELSE TokenSpan(Task.c.at)
             span == SpanFrom(start)
             storage == Task.c.storage
             var == [Last(vals) EXCEPT !.span = span, !.ty.storage = storage]
  <2>1. IsNode(Last(vals)) /\ IsSpan(Last(vals).span) /\ IsSpan(TokenSpan(Task.c.at))
    BY <1>2, <1>3, TopNode, TokenSpanOK
  <2>2. IsSpan(start)
    BY <2>1
  <2> HIDE DEF start
  <2>3. IsSpan(span)
    BY <1>2, <2>2, SpanFromOK
  <2> HIDE DEF span, storage
  <2>4. IsNode(var)
    BY <2>1, <2>3, NodeStored
  <2> HIDE DEF var
  <2>5. AreNodes(EditTop(var)) /\ Len(EditTop(var)) = Len(vals)
    BY <1>3, <2>4, TopEdited
  <2> QED
    BY <2>5 DEF var, start, span, storage
<1>7. Step(pos, <<>>, new, <<>>)
  BY Zenon DEF FinishVar, Go, Push
<1>8. Ahead(pos, pos)
  BY <1>2
<1> HIDE DEF new
<1>9. \A m \in Nat : Yields(todo[1], Len(vals), m) => m <= Len(new)
  BY <1>2, <1>3, <1>4, <1>6
<1>10. Nests(todo[1], <<>>, new, pos)
  BY <1>5, CalmNothing
<1> QED
  BY <1>1, <1>3, <1>6, <1>7, <1>8, <1>9, <1>10, NothingReported, NothingKeeps DEF Consuming

LEMMA ParseMoreKeeps ==
  ASSUME InOrder, Shaped, Nested, ParseMore
  PROVE  InOrder' /\ Shaped' /\ Nested'
<1>1. At("more")
  BY Zenon DEF ParseMore
<1>2. tokens \in Texts /\ pos \in Places /\ pos \in Nat /\ Ahead(pos, pos)
  BY <1>1, HeadIs, Zenon
<1>3. /\ Task = todo[1] /\ todo[1].do = "more" /\ Len(vals) \in Nat
      /\ AreNodes(vals) /\ Task.c.at \in DOMAIN tokens
  <2>1. Task = todo[1] /\ todo[1].do = "more"
    BY <1>1, HeadIs, Zenon
  <2>2. Carries(todo[1], pos) /\ Enough(todo[1], Len(vals)) /\ Len(vals) \in Nat /\ AreNodes(vals)
    BY <1>1, HeadShaped, Zenon
  <2> QED
    BY <2>1, <2>2 DEF Carries, Enough, Handlers
<1>4. \A m \in Nat : Yields(todo[1], Len(vals), m) => m <= Len(vals)
  BY <1>3 DEF Yields, Giving, Closing, Handlers
<1>5. ~InExpr(todo[1])
  BY <1>3 DEF InExpr
<1>6. CASE Kind(pos) = ","
  <2> DEFINE a == <<Of("declarator", Task.c)>>
             b == <<Call("array"), Call("init"), Of("finish_var", Task.c), Of("more", Task.c)>>
             ts == a \o b
  <2>1. Step(pos + 1, ts, vals, <<>>)
    BY <1>6, Zenon DEF ParseMore, Go, Push, VarTasks
  <2>2. Ahead(pos, pos + 1)
    BY <1>6, <1>2, NextPlace, Zenon
  <2>3. IsSequence(a) /\ Len(a) = 1 /\ a[1] = Of("declarator", Task.c)
    BY SequenceOne, Zenon
  <2>4. /\ IsSequence(b) /\ Len(b) = 4 /\ b[1] = Call("array")
          /\ b[2] = Call("init") /\ b[3] = Of("finish_var", Task.c)
          /\ b[4] = Of("more", Task.c)
    BY SequenceFour, Zenon
  <2>5. IsSequence(a) /\ Len(a) = 1 /\ IsSequence(b) /\ Len(b) = 4
    BY <2>3, <2>4, Zenon
  <2> HIDE DEF a, b
  <2>6. /\ IsSequence(ts) /\ Len(ts) = 5 /\ ts[1] = a[1] /\ ts[2] = b[1]
          /\ ts[3] = b[2] /\ ts[4] = b[3] /\ ts[5] = b[4]
    <3>1. IsSequence(a) /\ IsSequence(b)
      BY <2>5
    <3>2. JoinOf(ts, a, b)
      BY <3>1, JoinOfIs
    <3> HIDE DEF ts
    <3> QED
      BY <2>5, <3>2 DEF JoinOf
  <2> HIDE DEF ts
  <2>7. ts[1].do = "declarator" /\ ts[1].c = Task.c
    <3>1. ts[1] = Of("declarator", Task.c)
      BY <2>6, <2>3, <2>4, Zenon
    <3>2. /\ Of("declarator", Task.c).do = "declarator"
            /\ Of("declarator", Task.c).c = Task.c
      BY OfIs
    <3> QED
      BY <3>1, <3>2, Zenon
  <2>8. ts[2].do = "array"
    BY <2>6, <2>3, <2>4, CallIs, Zenon
  <2>9. ts[3].do = "init"
    BY <2>6, <2>3, <2>4, CallIs, Zenon
  <2>10. ts[4].do = "finish_var" /\ ts[4].c = Task.c
    <3>1. ts[4] = Of("finish_var", Task.c)
      BY <2>6, <2>3, <2>4, Zenon
    <3>2. /\ Of("finish_var", Task.c).do = "finish_var"
            /\ Of("finish_var", Task.c).c = Task.c
      BY OfIs
    <3> QED
      BY <3>1, <3>2, Zenon
  <2>11. ts[5].do = "more" /\ ts[5].c = Task.c
    <3>1. ts[5] = Of("more", Task.c)
      BY <2>6, <2>3, <2>4, Zenon
    <3>2. Of("more", Task.c).do = "more" /\ Of("more", Task.c).c = Task.c
      BY OfIs
    <3> QED
      BY <3>1, <3>2, Zenon
  <2>12. Listed(ts)
    <3>1. Fine(ts[1]) /\ Fine(ts[2]) /\ Fine(ts[3])
      BY <2>7, <2>8, <2>9 DEF Fine, TaskIs, Tasks, Handlers
    <3>2. Fine(ts[4]) /\ Fine(ts[5])
      BY <2>10, <2>11 DEF Fine, TaskIs, Tasks, Handlers
    <3>3. \A i \in 1 .. 5 : Fine(ts[i])
      BY <3>1, <3>2
    <3>4. \A i \in 2 .. 5 : (ts[i].do \in AtToken => ts[i - 1].do = "expect") /\ ts[i].do # "block"
      BY <2>7, <2>8, <2>9, <2>10, <2>11 DEF AtToken
    <3>5. IsSequence(ts) /\ Len(ts) = 5
      BY <2>6, Zenon
    <3>6. ts # <<>>
      BY <3>5, SequenceElim
    <3> QED
      BY <3>3, <3>4, <3>5, <3>6 DEF Listed
  <2>13. Begins(ts[1], pos + 1)
    BY <2>7, BeginsAnywhere DEF AtToken
  <2>14. Job(ts[1], pos + 1, Len(vals), Len(vals) + 1)
    BY <1>2, <1>3, <1>4, <2>7, DeclarationJob DEF OfDeclaration
  <2>15. Job(ts[2], pos + 1, Len(vals) + 1, Len(vals) + 1)
    BY <1>2, <1>3, <1>4, <2>8, UsingJob DEF Using
  <2>16. Job(ts[3], pos + 1, Len(vals) + 1, Len(vals) + 1)
    BY <1>2, <1>3, <1>4, <2>9, UsingJob DEF Using
  <2>17. Job(ts[4], pos + 1, Len(vals) + 1, Len(vals) + 1)
    BY <1>2, <1>3, <1>4, <2>10, DeclarationJob DEF OfDeclaration
  <2>18. Job(ts[5], pos + 1, Len(vals) + 1, Len(vals) + 1)
    BY <1>2, <1>3, <1>4, <2>11, DeclarationJob DEF OfDeclaration
  <2>19. \E g : Jobs(ts, g, Len(vals), pos + 1)
    <3> DEFINE g == [i \in 1 .. 6 |-> IF i <= 1 THEN Len(vals) ELSE Len(vals) + 1]
    <3>1. /\ g[1] = Len(vals) /\ g[2] = Len(vals) + 1 /\ g[3] = Len(vals) + 1
            /\ g[4] = Len(vals) + 1 /\ g[5] = Len(vals) + 1 /\ g[6] = Len(vals) + 1
      OBVIOUS
    <3> HIDE DEF g
    <3>2. \A i \in 1 .. 6 : g[i] \in Nat
      BY <1>2, <1>3, <1>4, <3>1
    <3>3. \A i \in 1 .. 5 : Reaches(todo[1], g[i])
      BY <1>2, <1>3, <1>4, <3>1 DEF Reaches
    <3>4. \A i \in 1 .. 5 : Job(ts[i], pos + 1, g[i], g[i + 1])
      <4>1. /\ Job(ts[1], pos + 1, g[1], g[1 + 1])
            /\ Job(ts[2], pos + 1, g[2], g[2 + 1])
            /\ Job(ts[3], pos + 1, g[3], g[3 + 1])
            /\ Job(ts[4], pos + 1, g[4], g[4 + 1])
            /\ Job(ts[5], pos + 1, g[5], g[5 + 1])
        BY <3>1, <2>14, <2>15, <2>16, <2>17, <2>18
      <4>2. \A i \in 1 .. 5 : i = 1 \/ i = 2 \/ i = 3 \/ i = 4 \/ i = 5
        OBVIOUS
      <4> QED
        BY <4>1, <4>2, Zenon
    <3>5. Len(ts) = 5 /\ Len(ts) + 1 = 6
      BY <2>6
    <3>6. g[1] <= Len(vals) /\ \A m \in Nat : Yields(todo[1], Len(vals), m) => m <= g[6]
      BY <1>2, <1>3, <1>4, <3>1
    <3> QED
      BY <3>2, <3>4, <3>5, <3>6, <3>3, Zenon DEF Jobs
  <2>20. Nests(todo[1], ts, vals, pos + 1)
    <3>1. /\ ~Joins(ts[1]) /\ ts[1].do \notin Operand
            /\ ~Joins(ts[2]) /\ ts[2].do \notin Operand
            /\ ~Joins(ts[3]) /\ ts[3].do \notin Operand
            /\ ~Joins(ts[4]) /\ ts[4].do \notin Operand
            /\ ~Joins(ts[5]) /\ ts[5].do \notin Operand
      BY <2>7, <2>8, <2>9, <2>10, <2>11 DEF Joins, Operand
    <3>2. \A i \in 1 .. 5 : ~Joins(ts[i]) /\ ts[i].do \notin Operand
      <4>1. \A i \in 1 .. 5 : i = 1 \/ i = 2 \/ i = 3 \/ i = 4 \/ i = 5
        OBVIOUS
      <4> QED
        BY <3>1, <4>1, Zenon
    <3> QED
      BY <1>5, <2>6, <3>2, CalmNests
  <2> QED
    BY <1>1, <1>3, <2>1, <2>2, <2>7, <2>12, <2>13, <2>19, <2>20,
       NothingReported, ListedKeeps DEF Consuming
<1>7. CASE Kind(pos) # ","
  <2> DEFINE ts == <<Expect(";")>>
  <2>1. Step(pos, ts, vals, <<>>)
    BY <1>7, Zenon DEF ParseMore, Go, Push
  <2>2. Ahead(pos, pos)
    BY <1>7, <1>2
  <2>3. IsSequence(ts) /\ Len(ts) = 1 /\ ts[1] = Expect(";")
    BY SequenceOne, Zenon
  <2> HIDE DEF ts
  <2>4. IsSequence(ts) /\ Len(ts) = 1
    BY <2>3
  <2>5. ts[1].do = "expect" /\ Fine(ts[1])
    BY <2>3, ExpectIs, Zenon
  <2>6. Listed(ts)
    <3>1. Fine(ts[1])
      BY <2>5 DEF Fine, TaskIs, Tasks, Handlers
    <3> QED
      BY <2>4, <3>1, SequenceElim DEF Listed
  <2>7. Begins(ts[1], pos)
    BY <2>5, BeginsAnywhere DEF AtToken
  <2>8. Job(ts[1], pos, Len(vals), Len(vals))
    BY <1>2, <1>3, <1>4, <2>5, PlainJob DEF Plain
  <2>9. \E g : Jobs(ts, g, Len(vals), pos)
    <3> DEFINE g == [i \in 1 .. 2 |-> Len(vals)]
    <3>1. g[1] = Len(vals) /\ g[2] = Len(vals)
      OBVIOUS
    <3> HIDE DEF g
    <3>2. \A i \in 1 .. 2 : g[i] \in Nat
      BY <1>2, <1>3, <1>4, <3>1
    <3>3. \A i \in 1 .. 1 : Reaches(todo[1], g[i])
      BY <1>2, <1>3, <1>4, <3>1 DEF Reaches
    <3>4. \A i \in 1 .. 1 : Job(ts[i], pos, g[i], g[i + 1])
      BY <3>1, <2>8
    <3>5. Len(ts) = 1 /\ Len(ts) + 1 = 2
      BY <2>4
    <3>6. g[1] <= Len(vals) /\ \A m \in Nat : Yields(todo[1], Len(vals), m) => m <= g[2]
      BY <1>2, <1>3, <1>4, <3>1
    <3> QED
      BY <3>2, <3>4, <3>5, <3>6, <3>3, Zenon DEF Jobs
  <2>10. Nests(todo[1], ts, vals, pos)
    <3>1. \A i \in 1 .. 1 : ~Joins(ts[i]) /\ ts[i].do \notin Operand
      BY <2>5 DEF Joins, Operand
    <3> QED
      BY <1>5, <2>4, <3>1, CalmNests
  <2> QED
    BY <1>1, <1>3, <2>1, <2>2, <2>5, <2>6, <2>7, <2>9, <2>10,
       NothingReported, ListedKeeps DEF Consuming
<1> QED
  BY <1>6, <1>7, Zenon

LEMMA ParseParamListKeeps ==
  ASSUME InOrder, Shaped, Nested, ParseParamList
  PROVE  InOrder' /\ Shaped' /\ Nested'
<1>1. At("params")
  BY Zenon DEF ParseParamList
<1>2. tokens \in Texts /\ pos \in Places /\ pos \in Nat /\ Ahead(pos, pos)
  BY <1>1, HeadIs, Zenon
<1>3. /\ Task = todo[1] /\ todo[1].do = "params" /\ Len(vals) \in Nat
      /\ AreNodes(vals)
  BY <1>1, HeadIs, HeadShaped, Zenon
<1>4. \A m \in Nat : Yields(todo[1], Len(vals), m) => m <= Len(vals) + 1
  BY <1>3 DEF Yields, Giving, Closing, Handlers
<1>5. ~InExpr(todo[1])
  BY <1>3 DEF InExpr
<1>6. CASE Kind(pos) = ")"
  <2> DEFINE ts == <<EndParams("fixed", Len(vals))>>
  <2>1. Step(pos, ts, vals, <<>>)
    BY <1>6, Zenon DEF ParseParamList, Go, Push
  <2>2. Ahead(pos, pos)
    BY <1>6, <1>2
  <2>3. IsSequence(ts) /\ Len(ts) = 1 /\ ts[1] = EndParams("fixed", Len(vals))
    BY SequenceOne, Zenon
  <2> HIDE DEF ts
  <2>4. IsSequence(ts) /\ Len(ts) = 1
    BY <2>3
  <2>5. /\ ts[1].do = "make" /\ ts[1].first = TokenSpan(1)
          /\ ts[1].from = Len(vals) /\ ts[1].ends = "written"
    <3>1. Made(ts[1], TokenSpan(1), Len(vals), "written")
      BY <2>3, EndParamsIs, Zenon
    <3> QED
      BY <3>1 DEF Made
  <2>6. Listed(ts)
    <3>1. Fine(ts[1])
      BY <2>5 DEF Fine, TaskIs, Tasks, Handlers
    <3> QED
      BY <2>4, <3>1, SequenceElim DEF Listed
  <2>7. Begins(ts[1], pos)
    BY <2>5, BeginsAnywhere DEF AtToken
  <2>8. IsSpan(TokenSpan(1))
    BY <1>2, <1>3, <1>4, FirstSpanOK
  <2>9. Job(ts[1], pos, Len(vals), Len(vals) + 1)
    BY <1>2, <1>3, <1>4, <2>5, <2>8 DEF Job, Carries, Enough, Yields, Giving, Closing, Handlers
  <2>10. \E g : Jobs(ts, g, Len(vals), pos)
    <3> DEFINE g == [i \in 1 .. 2 |-> IF i <= 1 THEN Len(vals) ELSE Len(vals) + 1]
    <3>1. g[1] = Len(vals) /\ g[2] = Len(vals) + 1
      OBVIOUS
    <3> HIDE DEF g
    <3>2. \A i \in 1 .. 2 : g[i] \in Nat
      BY <1>2, <1>3, <1>4, <3>1
    <3>3. \A i \in 1 .. 1 : Reaches(todo[1], g[i])
      BY <1>2, <1>3, <1>4, <3>1 DEF Reaches
    <3>4. \A i \in 1 .. 1 : Job(ts[i], pos, g[i], g[i + 1])
      BY <3>1, <2>9
    <3>5. Len(ts) = 1 /\ Len(ts) + 1 = 2
      BY <2>4
    <3>6. g[1] <= Len(vals) /\ \A m \in Nat : Yields(todo[1], Len(vals), m) => m <= g[2]
      BY <1>2, <1>3, <1>4, <3>1
    <3> QED
      BY <3>2, <3>4, <3>5, <3>6, <3>3, Zenon DEF Jobs
  <2>11. Nests(todo[1], ts, vals, pos)
    <3>1. \A i \in 1 .. 1 : ~Joins(ts[i]) /\ ts[i].do \notin Operand
      BY <2>5 DEF Joins, Operand
    <3> QED
      BY <1>5, <2>4, <3>1, CalmNests
  <2> QED
    BY <1>1, <1>3, <2>1, <2>2, <2>5, <2>6, <2>7, <2>10, <2>11,
       NothingReported, ListedKeeps DEF Consuming
<1>7. CASE Kind(pos) # ")" /\ Kind(pos) = "void" /\ Kind(pos + 1) = ")"
  <2> DEFINE ts == <<EndParams("fixed", Len(vals))>>
  <2>1. Step(pos + 1, ts, vals, <<>>)
    BY <1>7, Zenon DEF ParseParamList, Go, Push
  <2>2. Ahead(pos, pos + 1)
    BY <1>7, <1>2, NextPlace, Zenon
  <2>3. IsSequence(ts) /\ Len(ts) = 1 /\ ts[1] = EndParams("fixed", Len(vals))
    BY SequenceOne, Zenon
  <2> HIDE DEF ts
  <2>4. IsSequence(ts) /\ Len(ts) = 1
    BY <2>3
  <2>5. /\ ts[1].do = "make" /\ ts[1].first = TokenSpan(1)
          /\ ts[1].from = Len(vals) /\ ts[1].ends = "written"
    <3>1. Made(ts[1], TokenSpan(1), Len(vals), "written")
      BY <2>3, EndParamsIs, Zenon
    <3> QED
      BY <3>1 DEF Made
  <2>6. Listed(ts)
    <3>1. Fine(ts[1])
      BY <2>5 DEF Fine, TaskIs, Tasks, Handlers
    <3> QED
      BY <2>4, <3>1, SequenceElim DEF Listed
  <2>7. Begins(ts[1], pos + 1)
    BY <2>5, BeginsAnywhere DEF AtToken
  <2>8. IsSpan(TokenSpan(1))
    BY <1>2, <1>3, <1>4, FirstSpanOK
  <2>9. Job(ts[1], pos + 1, Len(vals), Len(vals) + 1)
    BY <1>2, <1>3, <1>4, <2>5, <2>8 DEF Job, Carries, Enough, Yields, Giving, Closing, Handlers
  <2>10. \E g : Jobs(ts, g, Len(vals), pos + 1)
    <3> DEFINE g == [i \in 1 .. 2 |-> IF i <= 1 THEN Len(vals) ELSE Len(vals) + 1]
    <3>1. g[1] = Len(vals) /\ g[2] = Len(vals) + 1
      OBVIOUS
    <3> HIDE DEF g
    <3>2. \A i \in 1 .. 2 : g[i] \in Nat
      BY <1>2, <1>3, <1>4, <3>1
    <3>3. \A i \in 1 .. 1 : Reaches(todo[1], g[i])
      BY <1>2, <1>3, <1>4, <3>1 DEF Reaches
    <3>4. \A i \in 1 .. 1 : Job(ts[i], pos + 1, g[i], g[i + 1])
      BY <3>1, <2>9
    <3>5. Len(ts) = 1 /\ Len(ts) + 1 = 2
      BY <2>4
    <3>6. g[1] <= Len(vals) /\ \A m \in Nat : Yields(todo[1], Len(vals), m) => m <= g[2]
      BY <1>2, <1>3, <1>4, <3>1
    <3> QED
      BY <3>2, <3>4, <3>5, <3>6, <3>3, Zenon DEF Jobs
  <2>11. Nests(todo[1], ts, vals, pos + 1)
    <3>1. \A i \in 1 .. 1 : ~Joins(ts[i]) /\ ts[i].do \notin Operand
      BY <2>5 DEF Joins, Operand
    <3> QED
      BY <1>5, <2>4, <3>1, CalmNests
  <2> QED
    BY <1>1, <1>3, <2>1, <2>2, <2>5, <2>6, <2>7, <2>10, <2>11,
       NothingReported, ListedKeeps DEF Consuming
<1>8. CASE Kind(pos) # ")" /\ ~ (Kind(pos) = "void" /\ Kind(pos + 1) = ")")
  <2> DEFINE ts == <<Param(Len(vals))>>
  <2>1. Step(pos, ts, vals, <<>>)
    BY <1>8, Zenon DEF ParseParamList, Go, Push
  <2>2. Ahead(pos, pos)
    BY <1>8, <1>2
  <2>3. IsSequence(ts) /\ Len(ts) = 1 /\ ts[1] = Param(Len(vals))
    BY SequenceOne, Zenon
  <2> HIDE DEF ts
  <2>4. IsSequence(ts) /\ Len(ts) = 1
    BY <2>3
  <2>5. ts[1].do = "param" /\ ts[1].from = Len(vals)
    <3>1. ts[1] = Param(Len(vals))
      BY <2>3, Zenon
    <3>2. Param(Len(vals)).do = "param" /\ Param(Len(vals)).from = Len(vals)
      BY ParamIs
    <3> QED
      BY <3>1, <3>2, Zenon
  <2>6. Listed(ts)
    <3>1. Fine(ts[1])
      BY <2>5 DEF Fine, TaskIs, Tasks, Handlers
    <3> QED
      BY <2>4, <3>1, SequenceElim DEF Listed
  <2>7. Begins(ts[1], pos)
    BY <2>5, BeginsAnywhere DEF AtToken
  <2>8. Job(ts[1], pos, Len(vals), Len(vals) + 1)
    BY <1>2, <1>3, <1>4, <2>5, ClosingJob
  <2>9. \E g : Jobs(ts, g, Len(vals), pos)
    <3> DEFINE g == [i \in 1 .. 2 |-> IF i <= 1 THEN Len(vals) ELSE Len(vals) + 1]
    <3>1. g[1] = Len(vals) /\ g[2] = Len(vals) + 1
      OBVIOUS
    <3> HIDE DEF g
    <3>2. \A i \in 1 .. 2 : g[i] \in Nat
      BY <1>2, <1>3, <1>4, <3>1
    <3>3. \A i \in 1 .. 1 : Reaches(todo[1], g[i])
      BY <1>2, <1>3, <1>4, <3>1 DEF Reaches
    <3>4. \A i \in 1 .. 1 : Job(ts[i], pos, g[i], g[i + 1])
      BY <3>1, <2>8
    <3>5. Len(ts) = 1 /\ Len(ts) + 1 = 2
      BY <2>4
    <3>6. g[1] <= Len(vals) /\ \A m \in Nat : Yields(todo[1], Len(vals), m) => m <= g[2]
      BY <1>2, <1>3, <1>4, <3>1
    <3> QED
      BY <3>2, <3>4, <3>5, <3>6, <3>3, Zenon DEF Jobs
  <2>10. Nests(todo[1], ts, vals, pos)
    <3>1. \A i \in 1 .. 1 : ~Joins(ts[i]) /\ ts[i].do \notin Operand
      BY <2>5 DEF Joins, Operand
    <3> QED
      BY <1>5, <2>4, <3>1, CalmNests
  <2> QED
    BY <1>1, <1>3, <2>1, <2>2, <2>5, <2>6, <2>7, <2>9, <2>10,
       NothingReported, ListedKeeps DEF Consuming
<1> QED
  BY <1>6, <1>7, <1>8, Zenon

LEMMA ParseMoreParamsKeeps ==
  ASSUME InOrder, Shaped, Nested, ParseMoreParams
  PROVE  InOrder' /\ Shaped' /\ Nested'
<1>1. At("param_more")
  BY Zenon DEF ParseMoreParams
<1>2. tokens \in Texts /\ pos \in Places /\ pos \in Nat /\ Ahead(pos, pos)
  BY <1>1, HeadIs, Zenon
<1>3. /\ Task = todo[1] /\ todo[1].do = "param_more" /\ Len(vals) \in Nat
      /\ AreNodes(vals) /\ Task.from \in Nat /\ Task.from + 1 <= Len(vals)
  <2>1. Task = todo[1] /\ todo[1].do = "param_more"
    BY <1>1, HeadIs, Zenon
  <2>2. Carries(todo[1], pos) /\ Enough(todo[1], Len(vals)) /\ Len(vals) \in Nat /\ AreNodes(vals)
    BY <1>1, HeadShaped, Zenon
  <2> QED
    BY <2>1, <2>2 DEF Carries, Enough, Handlers
<1>4. \A m \in Nat : Yields(todo[1], Len(vals), m) => m <= Task.from + 1
  BY <1>3 DEF Yields, Giving, Closing, Handlers
<1>5. ~InExpr(todo[1])
  BY <1>3 DEF InExpr
<1>6. CASE Kind(pos) = ","
  <2> DEFINE new == EditTop([Last(vals) EXCEPT !.span = SpanFrom(@)])
  <2>1. AreNodes(new) /\ Len(new) = Len(vals)
    <3> DEFINE top == Last(vals)
               span == SpanFrom(top.span)
               param == [top EXCEPT !.span = span]
    <3>1. IsNode(top) /\ IsSpan(top.span)
      BY <1>3, TopNode
    <3>2. IsSpan(span)
      BY <1>2, <3>1, SpanFromOK
    <3>3. [top EXCEPT !.span = SpanFrom(@)] = param
      OBVIOUS
    <3> HIDE DEF span, top
    <3>4. IsNode(param)
      BY <3>1, <3>2, NodeSpanned
    <3> HIDE DEF param
    <3>5. AreNodes(EditTop(param)) /\ Len(EditTop(param)) = Len(vals)
      BY <1>3, <3>4, TopEdited
    <3> QED
      BY <3>3, <3>5 DEF top
  <2> DEFINE ts == <<Param(Task.from)>>
  <2>2. Step(pos + 1, ts, new, <<>>)
    BY <1>6, Zenon DEF ParseMoreParams, Go, Push
  <2>3. Ahead(pos, pos + 1)
    BY <1>6, <1>2, NextPlace, Zenon
  <2> HIDE DEF new
  <2>4. IsSequence(ts) /\ Len(ts) = 1 /\ ts[1] = Param(Task.from)
    BY SequenceOne, Zenon
  <2> HIDE DEF ts
  <2>5. IsSequence(ts) /\ Len(ts) = 1
    BY <2>4
  <2>6. ts[1].do = "param" /\ ts[1].from = Task.from
    <3>1. ts[1] = Param(Task.from)
      BY <2>4, Zenon
    <3>2. Param(Task.from).do = "param" /\ Param(Task.from).from = Task.from
      BY ParamIs
    <3> QED
      BY <3>1, <3>2, Zenon
  <2>7. Listed(ts)
    <3>1. Fine(ts[1])
      BY <2>6 DEF Fine, TaskIs, Tasks, Handlers
    <3> QED
      BY <2>5, <3>1, SequenceElim DEF Listed
  <2>8. Begins(ts[1], pos + 1)
    BY <2>6, BeginsAnywhere DEF AtToken
  <2>9. Job(ts[1], pos + 1, Len(vals), Task.from + 1)
    BY <1>2, <1>3, <1>4, <2>6, ClosingJob
  <2>10. \E g : Jobs(ts, g, Len(new), pos + 1)
    <3> DEFINE g == [i \in 1 .. 2 |-> IF i <= 1 THEN Len(vals) ELSE Task.from + 1]
    <3>1. g[1] = Len(vals) /\ g[2] = Task.from + 1
      OBVIOUS
    <3> HIDE DEF g
    <3>2. \A i \in 1 .. 2 : g[i] \in Nat
      BY <1>2, <1>3, <1>4, <3>1
    <3>3. \A i \in 1 .. 1 : Reaches(todo[1], g[i])
      BY <1>2, <1>3, <1>4, <3>1 DEF Reaches
    <3>4. \A i \in 1 .. 1 : Job(ts[i], pos + 1, g[i], g[i + 1])
      BY <3>1, <2>9
    <3>5. Len(ts) = 1 /\ Len(ts) + 1 = 2
      BY <2>5
    <3>6. g[1] <= Len(new) /\ \A m \in Nat : Yields(todo[1], Len(vals), m) => m <= g[2]
      BY <1>2, <1>3, <1>4, <2>1, <3>1
    <3> QED
      BY <3>2, <3>4, <3>5, <3>6, <3>3, Zenon DEF Jobs
  <2>11. Nests(todo[1], ts, new, pos + 1)
    <3>1. \A i \in 1 .. 1 : ~Joins(ts[i]) /\ ts[i].do \notin Operand
      BY <2>6 DEF Joins, Operand
    <3> QED
      BY <1>5, <2>5, <3>1, CalmNests
  <2> QED
    BY <1>1, <1>3, <2>1, <2>2, <2>3, <2>6, <2>7, <2>8, <2>10, <2>11,
       NothingReported, ListedKeeps DEF Consuming
<1>7. CASE Kind(pos) # ","
  <2> DEFINE new == EditTop([Last(vals) EXCEPT !.span = SpanFrom(@)])
  <2>1. AreNodes(new) /\ Len(new) = Len(vals)
    <3> DEFINE top == Last(vals)
               span == SpanFrom(top.span)
               param == [top EXCEPT !.span = span]
    <3>1. IsNode(top) /\ IsSpan(top.span)
      BY <1>3, TopNode
    <3>2. IsSpan(span)
      BY <1>2, <3>1, SpanFromOK
    <3>3. [top EXCEPT !.span = SpanFrom(@)] = param
      OBVIOUS
    <3> HIDE DEF span, top
    <3>4. IsNode(param)
      BY <3>1, <3>2, NodeSpanned
    <3> HIDE DEF param
    <3>5. AreNodes(EditTop(param)) /\ Len(EditTop(param)) = Len(vals)
      BY <1>3, <3>4, TopEdited
    <3> QED
      BY <3>3, <3>5 DEF top
  <2> DEFINE ts == <<EndParams("fixed", Task.from)>>
  <2>2. Step(pos, ts, new, <<>>)
    BY <1>7, Zenon DEF ParseMoreParams, Go, Push
  <2>3. Ahead(pos, pos)
    BY <1>7, <1>2
  <2> HIDE DEF new
  <2>4. IsSequence(ts) /\ Len(ts) = 1 /\ ts[1] = EndParams("fixed", Task.from)
    BY SequenceOne, Zenon
  <2> HIDE DEF ts
  <2>5. IsSequence(ts) /\ Len(ts) = 1
    BY <2>4
  <2>6. /\ ts[1].do = "make" /\ ts[1].first = TokenSpan(1)
          /\ ts[1].from = Task.from /\ ts[1].ends = "written"
    <3>1. Made(ts[1], TokenSpan(1), Task.from, "written")
      BY <2>4, EndParamsIs, Zenon
    <3> QED
      BY <3>1 DEF Made
  <2>7. Listed(ts)
    <3>1. Fine(ts[1])
      BY <2>6 DEF Fine, TaskIs, Tasks, Handlers
    <3> QED
      BY <2>5, <3>1, SequenceElim DEF Listed
  <2>8. Begins(ts[1], pos)
    BY <2>6, BeginsAnywhere DEF AtToken
  <2>9. IsSpan(TokenSpan(1))
    BY <1>2, <1>3, <1>4, FirstSpanOK
  <2>10. Job(ts[1], pos, Len(vals), Task.from + 1)
    BY <1>2, <1>3, <1>4, <2>6, <2>9 DEF Job, Carries, Enough, Yields, Giving, Closing, Handlers
  <2>11. \E g : Jobs(ts, g, Len(new), pos)
    <3> DEFINE g == [i \in 1 .. 2 |-> IF i <= 1 THEN Len(vals) ELSE Task.from + 1]
    <3>1. g[1] = Len(vals) /\ g[2] = Task.from + 1
      OBVIOUS
    <3> HIDE DEF g
    <3>2. \A i \in 1 .. 2 : g[i] \in Nat
      BY <1>2, <1>3, <1>4, <3>1
    <3>3. \A i \in 1 .. 1 : Reaches(todo[1], g[i])
      BY <1>2, <1>3, <1>4, <3>1 DEF Reaches
    <3>4. \A i \in 1 .. 1 : Job(ts[i], pos, g[i], g[i + 1])
      BY <3>1, <2>10
    <3>5. Len(ts) = 1 /\ Len(ts) + 1 = 2
      BY <2>5
    <3>6. g[1] <= Len(new) /\ \A m \in Nat : Yields(todo[1], Len(vals), m) => m <= g[2]
      BY <1>2, <1>3, <1>4, <2>1, <3>1
    <3> QED
      BY <3>2, <3>4, <3>5, <3>6, <3>3, Zenon DEF Jobs
  <2>12. Nests(todo[1], ts, new, pos)
    <3>1. \A i \in 1 .. 1 : ~Joins(ts[i]) /\ ts[i].do \notin Operand
      BY <2>6 DEF Joins, Operand
    <3> QED
      BY <1>5, <2>5, <3>1, CalmNests
  <2> QED
    BY <1>1, <1>3, <2>1, <2>2, <2>3, <2>6, <2>7, <2>8, <2>11, <2>12,
       NothingReported, ListedKeeps DEF Consuming
<1> QED
  BY <1>6, <1>7, Zenon

LEMMA ParseBodyKeeps ==
  ASSUME InOrder, Shaped, Nested, ParseBody
  PROVE  InOrder' /\ Shaped' /\ Nested'
<1>1. At("body")
  BY Zenon DEF ParseBody
<1>2. tokens \in Texts /\ pos \in Places /\ pos \in Nat /\ Ahead(pos, pos)
  BY <1>1, HeadIs, Zenon
<1>3. /\ Task = todo[1] /\ todo[1].do = "body" /\ Len(vals) \in Nat
      /\ AreNodes(vals)
  BY <1>1, HeadIs, HeadShaped, Zenon
<1>4. \A m \in Nat : Yields(todo[1], Len(vals), m) => m <= Len(vals)
  BY <1>3 DEF Yields, Giving, Closing, Handlers
<1>5. ~InExpr(todo[1])
  BY <1>3 DEF InExpr
<1>6. CASE Kind(pos) = "{"
  <2> DEFINE ts == <<BlockOf("block")>>
  <2>1. Step(pos, ts, vals, <<>>)
    BY <1>6, Zenon DEF ParseBody, Go, Push
  <2>2. Ahead(pos, pos)
    BY <1>6, <1>2
  <2>3. IsSequence(ts) /\ Len(ts) = 1 /\ ts[1] = BlockOf("block")
    BY SequenceOne, Zenon
  <2> HIDE DEF ts
  <2>4. IsSequence(ts) /\ Len(ts) = 1
    BY <2>3
  <2>5. ts[1].do = "block"
    BY <2>3, BlockOfIs, Zenon
  <2>6. Listed(ts)
    <3>1. Fine(ts[1])
      BY <2>5 DEF Fine, TaskIs, Tasks, Handlers
    <3> QED
      BY <2>4, <3>1, SequenceElim DEF Listed
  <2>7. Begins(ts[1], pos)
    BY <1>6, <1>2, <2>5, Zenon DEF Begins
  <2>8. Job(ts[1], pos, Len(vals), Len(vals))
    BY <1>2, <1>3, <1>4, <2>5, GivingJob DEF Giving
  <2>9. \E g : Jobs(ts, g, Len(vals), pos)
    <3> DEFINE g == [i \in 1 .. 2 |-> Len(vals)]
    <3>1. g[1] = Len(vals) /\ g[2] = Len(vals)
      OBVIOUS
    <3> HIDE DEF g
    <3>2. \A i \in 1 .. 2 : g[i] \in Nat
      BY <1>2, <1>3, <1>4, <3>1
    <3>3. \A i \in 1 .. 1 : Reaches(todo[1], g[i])
      BY <1>2, <1>3, <1>4, <3>1 DEF Reaches
    <3>4. \A i \in 1 .. 1 : Job(ts[i], pos, g[i], g[i + 1])
      BY <3>1, <2>8
    <3>5. Len(ts) = 1 /\ Len(ts) + 1 = 2
      BY <2>4
    <3>6. g[1] <= Len(vals) /\ \A m \in Nat : Yields(todo[1], Len(vals), m) => m <= g[2]
      BY <1>2, <1>3, <1>4, <3>1
    <3> QED
      BY <3>2, <3>4, <3>5, <3>6, <3>3, Zenon DEF Jobs
  <2>10. Nests(todo[1], ts, vals, pos)
    <3>1. \A i \in 1 .. 1 : ~Joins(ts[i]) /\ ts[i].do \notin Operand
      BY <2>5 DEF Joins, Operand
    <3> QED
      BY <1>5, <2>4, <3>1, CalmNests
  <2> QED
    BY <1>1, <1>3, <2>1, <2>2, <2>5, <2>6, <2>7, <2>9, <2>10,
       NothingReported, ListedKeeps DEF Consuming
<1>7. CASE Kind(pos) # "{"
  <2> DEFINE ts == <<Expect(";")>>
  <2>1. Step(pos, ts, vals, <<>>)
    BY <1>7, Zenon DEF ParseBody, Go, Push
  <2>2. Ahead(pos, pos)
    BY <1>7, <1>2
  <2>3. IsSequence(ts) /\ Len(ts) = 1 /\ ts[1] = Expect(";")
    BY SequenceOne, Zenon
  <2> HIDE DEF ts
  <2>4. IsSequence(ts) /\ Len(ts) = 1
    BY <2>3
  <2>5. ts[1].do = "expect" /\ Fine(ts[1])
    BY <2>3, ExpectIs, Zenon
  <2>6. Listed(ts)
    <3>1. Fine(ts[1])
      BY <2>5 DEF Fine, TaskIs, Tasks, Handlers
    <3> QED
      BY <2>4, <3>1, SequenceElim DEF Listed
  <2>7. Begins(ts[1], pos)
    BY <2>5, BeginsAnywhere DEF AtToken
  <2>8. Job(ts[1], pos, Len(vals), Len(vals))
    BY <1>2, <1>3, <1>4, <2>5, PlainJob DEF Plain
  <2>9. \E g : Jobs(ts, g, Len(vals), pos)
    <3> DEFINE g == [i \in 1 .. 2 |-> Len(vals)]
    <3>1. g[1] = Len(vals) /\ g[2] = Len(vals)
      OBVIOUS
    <3> HIDE DEF g
    <3>2. \A i \in 1 .. 2 : g[i] \in Nat
      BY <1>2, <1>3, <1>4, <3>1
    <3>3. \A i \in 1 .. 1 : Reaches(todo[1], g[i])
      BY <1>2, <1>3, <1>4, <3>1 DEF Reaches
    <3>4. \A i \in 1 .. 1 : Job(ts[i], pos, g[i], g[i + 1])
      BY <3>1, <2>8
    <3>5. Len(ts) = 1 /\ Len(ts) + 1 = 2
      BY <2>4
    <3>6. g[1] <= Len(vals) /\ \A m \in Nat : Yields(todo[1], Len(vals), m) => m <= g[2]
      BY <1>2, <1>3, <1>4, <3>1
    <3> QED
      BY <3>2, <3>4, <3>5, <3>6, <3>3, Zenon DEF Jobs
  <2>10. Nests(todo[1], ts, vals, pos)
    <3>1. \A i \in 1 .. 1 : ~Joins(ts[i]) /\ ts[i].do \notin Operand
      BY <2>5 DEF Joins, Operand
    <3> QED
      BY <1>5, <2>4, <3>1, CalmNests
  <2> QED
    BY <1>1, <1>3, <2>1, <2>2, <2>5, <2>6, <2>7, <2>9, <2>10,
       NothingReported, ListedKeeps DEF Consuming
<1> QED
  BY <1>6, <1>7, Zenon

LEMMA FinishFnKeeps ==
  ASSUME InOrder, Shaped, Nested, FinishFn
  PROVE  InOrder' /\ Shaped' /\ Nested'
<1>1. At("finish_fn")
  BY Zenon DEF FinishFn
<1>2. tokens \in Texts /\ pos \in Places /\ pos \in Nat /\ Ahead(pos, pos)
  BY <1>1, HeadIs, Zenon
<1>3. /\ Task = todo[1] /\ todo[1].do = "finish_fn" /\ Len(vals) \in Nat
      /\ AreNodes(vals) /\ Task.from \in Nat /\ Task.from + 1 <= Len(vals)
      /\ Task.c.at \in DOMAIN tokens
  <2>1. Task = todo[1] /\ todo[1].do = "finish_fn"
    BY <1>1, HeadIs, Zenon
  <2>2. Carries(todo[1], pos) /\ Enough(todo[1], Len(vals)) /\ Len(vals) \in Nat /\ AreNodes(vals)
    BY <1>1, HeadShaped, Zenon
  <2> QED
    BY <2>1, <2>2 DEF Carries, Enough, Handlers
<1>4. \A m \in Nat : Yields(todo[1], Len(vals), m) => m <= Task.from + 1
  BY <1>3 DEF Yields, Giving, Closing, Handlers
<1>5. ~InExpr(todo[1])
  BY <1>3 DEF InExpr
<1> DEFINE n == N("fn", vals[Task.from + 1].what, SubSeq(vals, Task.from + 2, Len(vals)),
               [ret |-> vals[Task.from + 1].ty, arity |-> SubSeq(vals, Task.from + 2, Len(vals))[1].what,
                storage |-> Task.c.storage], SpanFrom(TokenSpan(Task.c.at)))
<1> DEFINE new == Append(SubSeq(vals, 1, Task.from), n)
<1>6. AreNodes(new) /\ Len(new) = Task.from + 1
  <2>1. IsSpan(SpanFrom(TokenSpan(Task.c.at)))
    BY <1>2, <1>3, TokenSpanOK, SpanFromOK
  <2>2. IsNode(n)
    BY <2>1, NodeIs
  <2> DEFINE below == SubSeq(vals, 1, Task.from)
  <2>3. AreNodes(below) /\ Len(below) = Task.from
    BY <1>3, NodesBelow
  <2> HIDE DEF n, below
  <2>4. AreNodes(Append(below, n)) /\ Len(Append(below, n)) = Len(below) + 1
    BY <2>2, <2>3, NodesGrow
  <2> QED
    BY <2>3, <2>4 DEF below
<1>7. Step(pos, <<>>, new, <<>>)
  BY Zenon DEF FinishFn, Go, Push
<1>8. Ahead(pos, pos)
  BY <1>2
<1> HIDE DEF new
<1>9. \A m \in Nat : Yields(todo[1], Len(vals), m) => m <= Len(new)
  BY <1>2, <1>3, <1>4, <1>6
<1>10. Nests(todo[1], <<>>, new, pos)
  BY <1>5, CalmNothing
<1> QED
  BY <1>1, <1>3, <1>6, <1>7, <1>8, <1>9, <1>10, NothingReported, NothingKeeps DEF Consuming

LEMMA EndStmtsKeeps ==
  ASSUME InOrder, Shaped, Nested, EndStmts
  PROVE  InOrder' /\ Shaped' /\ Nested'
<1>1. At("stmts")
  BY Zenon DEF EndStmts
<1>2. tokens \in Texts /\ pos \in Places /\ pos \in Nat /\ Ahead(pos, pos)
  BY <1>1, HeadIs, Zenon
<1>3. /\ Task = todo[1] /\ todo[1].do = "stmts" /\ Len(vals) \in Nat
      /\ AreNodes(vals) /\ Task.height \in Nat /\ Task.height <= Len(vals)
  <2>1. Task = todo[1] /\ todo[1].do = "stmts"
    BY <1>1, HeadIs, Zenon
  <2>2. Carries(todo[1], pos) /\ Enough(todo[1], Len(vals)) /\ Len(vals) \in Nat /\ AreNodes(vals)
    BY <1>1, HeadShaped, Zenon
  <2> QED
    BY <2>1, <2>2 DEF Carries, Enough, Handlers
<1>4. \A m \in Nat : Yields(todo[1], Len(vals), m) => m <= Task.height
  BY <1>3 DEF Yields, Giving, Closing, Handlers
<1>5. ~InExpr(todo[1])
  BY <1>3 DEF InExpr
<1>6. Step(pos, <<>>, vals, <<>>)
  BY Zenon DEF EndStmts, Go, Push
<1>7. Ahead(pos, pos)
  BY <1>2
<1>8. \A m \in Nat : Yields(todo[1], Len(vals), m) => m <= Len(vals)
  BY <1>2, <1>3, <1>4
<1>9. Nests(todo[1], <<>>, vals, pos)
  BY <1>5, CalmNothing
<1> QED
  BY <1>1, <1>3, <1>6, <1>7, <1>8, <1>9, NothingReported, NothingKeeps DEF Consuming

LEMMA EndItemsKeeps ==
  ASSUME InOrder, Shaped, Nested, EndItems
  PROVE  InOrder' /\ Shaped' /\ Nested'
<1>1. At("items")
  BY Zenon DEF EndItems
<1>2. tokens \in Texts /\ pos \in Places /\ pos \in Nat /\ Ahead(pos, pos)
  BY <1>1, HeadIs, Zenon
<1>3. /\ Task = todo[1] /\ todo[1].do = "items" /\ Len(vals) \in Nat
      /\ AreNodes(vals) /\ Task.height \in Nat /\ Task.height <= Len(vals)
  <2>1. Task = todo[1] /\ todo[1].do = "items"
    BY <1>1, HeadIs, Zenon
  <2>2. Carries(todo[1], pos) /\ Enough(todo[1], Len(vals)) /\ Len(vals) \in Nat /\ AreNodes(vals)
    BY <1>1, HeadShaped, Zenon
  <2> QED
    BY <2>1, <2>2 DEF Carries, Enough, Handlers
<1>4. \A m \in Nat : Yields(todo[1], Len(vals), m) => m <= Task.height
  BY <1>3 DEF Yields, Giving, Closing, Handlers
<1>5. ~InExpr(todo[1])
  BY <1>3 DEF InExpr
<1>6. Step(pos, <<>>, vals, <<>>)
  BY Zenon DEF EndItems, Go, Push
<1>7. Ahead(pos, pos)
  BY <1>2
<1>8. \A m \in Nat : Yields(todo[1], Len(vals), m) => m <= Len(vals)
  BY <1>2, <1>3, <1>4
<1>9. Nests(todo[1], <<>>, vals, pos)
  BY <1>5, CalmNothing
<1> QED
  BY <1>1, <1>3, <1>6, <1>7, <1>8, <1>9, NothingReported, NothingKeeps DEF Consuming

LEMMA EndBlockKeeps ==
  ASSUME InOrder, Shaped, Nested, EndBlock
  PROVE  InOrder' /\ Shaped' /\ Nested'
<1>1. At("block_end")
  BY Zenon DEF EndBlock
<1>2. tokens \in Texts /\ pos \in Places /\ pos \in Nat /\ Ahead(pos, pos)
  BY <1>1, HeadIs, Zenon
<1>3. /\ Task = todo[1] /\ todo[1].do = "block_end" /\ Len(vals) \in Nat
      /\ AreNodes(vals) /\ Task.from \in Nat /\ Task.from <= Len(vals)
      /\ Task.open \in DOMAIN tokens
  <2>1. Task = todo[1] /\ todo[1].do = "block_end"
    BY <1>1, HeadIs, Zenon
  <2>2. Carries(todo[1], pos) /\ Enough(todo[1], Len(vals)) /\ Len(vals) \in Nat /\ AreNodes(vals)
    BY <1>1, HeadShaped, Zenon
  <2> QED
    BY <2>1, <2>2 DEF Carries, Enough, Handlers
<1>4. \A m \in Nat : Yields(todo[1], Len(vals), m) => m <= Task.from + 1
  BY <1>3 DEF Yields, Giving, Closing, Handlers
<1>5. ~InExpr(todo[1])
  BY <1>3 DEF InExpr
<1>6. CASE Kind(pos) = "}"
  <2> DEFINE ts == <<Make(Task.k, "", NoType, TokenSpan(Task.open), Task.from, "written")>>
  <2>1. Step(pos + 1, ts, vals, <<>>)
    BY <1>6, Zenon DEF EndBlock, Go, Push
  <2>2. Ahead(pos, pos + 1)
    BY <1>6, <1>2, NextPlace, Zenon
  <2>3. /\ IsSequence(ts) /\ Len(ts) = 1
          /\ ts[1] = Make(Task.k, "", NoType, TokenSpan(Task.open), Task.from, "written")
    BY SequenceOne, Zenon
  <2> HIDE DEF ts
  <2>4. IsSequence(ts) /\ Len(ts) = 1
    BY <2>3
  <2>5. /\ ts[1].do = "make" /\ ts[1].first = TokenSpan(Task.open)
          /\ ts[1].from = Task.from /\ ts[1].ends = "written"
    <3>1. ts[1] = Make(Task.k, "", NoType, TokenSpan(Task.open), Task.from, "written")
      BY <2>3, Zenon
    <3>2. /\ Make(Task.k, "", NoType, TokenSpan(Task.open), Task.from, "written").do = "make"
            /\ Make(Task.k, "", NoType, TokenSpan(Task.open), Task.from, "written").first = TokenSpan(Task.open)
            /\ Make(Task.k, "", NoType, TokenSpan(Task.open), Task.from, "written").from = Task.from
            /\ Make(Task.k, "", NoType, TokenSpan(Task.open), Task.from, "written").ends = "written"
      BY DEF Make
    <3> QED
      BY <3>1, <3>2, Zenon
  <2>6. Listed(ts)
    <3>1. Fine(ts[1])
      BY <2>5 DEF Fine, TaskIs, Tasks, Handlers
    <3> QED
      BY <2>4, <3>1, SequenceElim DEF Listed
  <2>7. Begins(ts[1], pos + 1)
    BY <2>5, BeginsAnywhere DEF AtToken
  <2>8. IsSpan(TokenSpan(Task.open))
    BY <1>2, <1>3, <1>4, TokenSpanOK, TokensAre
  <2>9. Job(ts[1], pos + 1, Len(vals), Task.from + 1)
    BY <1>2, <1>3, <1>4, <2>5, <2>8 DEF Job, Carries, Enough, Yields, Giving, Closing, Handlers
  <2>10. \E g : Jobs(ts, g, Len(vals), pos + 1)
    <3> DEFINE g == [i \in 1 .. 2 |-> IF i <= 1 THEN Len(vals) ELSE Task.from + 1]
    <3>1. g[1] = Len(vals) /\ g[2] = Task.from + 1
      OBVIOUS
    <3> HIDE DEF g
    <3>2. \A i \in 1 .. 2 : g[i] \in Nat
      BY <1>2, <1>3, <1>4, <3>1
    <3>3. \A i \in 1 .. 1 : Reaches(todo[1], g[i])
      BY <1>2, <1>3, <1>4, <3>1 DEF Reaches
    <3>4. \A i \in 1 .. 1 : Job(ts[i], pos + 1, g[i], g[i + 1])
      BY <3>1, <2>9
    <3>5. Len(ts) = 1 /\ Len(ts) + 1 = 2
      BY <2>4
    <3>6. g[1] <= Len(vals) /\ \A m \in Nat : Yields(todo[1], Len(vals), m) => m <= g[2]
      BY <1>2, <1>3, <1>4, <3>1
    <3> QED
      BY <3>2, <3>4, <3>5, <3>6, <3>3, Zenon DEF Jobs
  <2>11. Nests(todo[1], ts, vals, pos + 1)
    <3>1. \A i \in 1 .. 1 : ~Joins(ts[i]) /\ ts[i].do \notin Operand
      BY <2>5 DEF Joins, Operand
    <3> QED
      BY <1>5, <2>4, <3>1, CalmNests
  <2> QED
    BY <1>1, <1>3, <2>1, <2>2, <2>5, <2>6, <2>7, <2>10, <2>11,
       NothingReported, ListedKeeps DEF Consuming
<1>7. CASE Kind(pos) # "}"
  <2>1. AreReports(Error("E0302", pos))
    BY <1>7, <1>2, ErrorIs
  <2> DEFINE ts == <<Make(Task.k, "", NoType, TokenSpan(Task.open), Task.from, "written")>>
  <2>2. PICK es : Step(pos, ts, vals, es) /\ AreReports(es)
    BY <1>7, <2>1, Zenon DEF EndBlock, Go, Push
  <2>3. Ahead(pos, pos)
    BY <1>7, <1>2
  <2>4. /\ IsSequence(ts) /\ Len(ts) = 1
          /\ ts[1] = Make(Task.k, "", NoType, TokenSpan(Task.open), Task.from, "written")
    BY SequenceOne, Zenon
  <2> HIDE DEF ts
  <2>5. IsSequence(ts) /\ Len(ts) = 1
    BY <2>4
  <2>6. /\ ts[1].do = "make" /\ ts[1].first = TokenSpan(Task.open)
          /\ ts[1].from = Task.from /\ ts[1].ends = "written"
    <3>1. ts[1] = Make(Task.k, "", NoType, TokenSpan(Task.open), Task.from, "written")
      BY <2>4, Zenon
    <3>2. /\ Make(Task.k, "", NoType, TokenSpan(Task.open), Task.from, "written").do = "make"
            /\ Make(Task.k, "", NoType, TokenSpan(Task.open), Task.from, "written").first = TokenSpan(Task.open)
            /\ Make(Task.k, "", NoType, TokenSpan(Task.open), Task.from, "written").from = Task.from
            /\ Make(Task.k, "", NoType, TokenSpan(Task.open), Task.from, "written").ends = "written"
      BY DEF Make
    <3> QED
      BY <3>1, <3>2, Zenon
  <2>7. Listed(ts)
    <3>1. Fine(ts[1])
      BY <2>6 DEF Fine, TaskIs, Tasks, Handlers
    <3> QED
      BY <2>5, <3>1, SequenceElim DEF Listed
  <2>8. Begins(ts[1], pos)
    BY <2>6, BeginsAnywhere DEF AtToken
  <2>9. IsSpan(TokenSpan(Task.open))
    BY <1>2, <1>3, <1>4, TokenSpanOK, TokensAre
  <2>10. Job(ts[1], pos, Len(vals), Task.from + 1)
    BY <1>2, <1>3, <1>4, <2>6, <2>9 DEF Job, Carries, Enough, Yields, Giving, Closing, Handlers
  <2>11. \E g : Jobs(ts, g, Len(vals), pos)
    <3> DEFINE g == [i \in 1 .. 2 |-> IF i <= 1 THEN Len(vals) ELSE Task.from + 1]
    <3>1. g[1] = Len(vals) /\ g[2] = Task.from + 1
      OBVIOUS
    <3> HIDE DEF g
    <3>2. \A i \in 1 .. 2 : g[i] \in Nat
      BY <1>2, <1>3, <1>4, <3>1
    <3>3. \A i \in 1 .. 1 : Reaches(todo[1], g[i])
      BY <1>2, <1>3, <1>4, <3>1 DEF Reaches
    <3>4. \A i \in 1 .. 1 : Job(ts[i], pos, g[i], g[i + 1])
      BY <3>1, <2>10
    <3>5. Len(ts) = 1 /\ Len(ts) + 1 = 2
      BY <2>5
    <3>6. g[1] <= Len(vals) /\ \A m \in Nat : Yields(todo[1], Len(vals), m) => m <= g[2]
      BY <1>2, <1>3, <1>4, <3>1
    <3> QED
      BY <3>2, <3>4, <3>5, <3>6, <3>3, Zenon DEF Jobs
  <2>12. Nests(todo[1], ts, vals, pos)
    <3>1. \A i \in 1 .. 1 : ~Joins(ts[i]) /\ ts[i].do \notin Operand
      BY <2>6 DEF Joins, Operand
    <3> QED
      BY <1>5, <2>5, <3>1, CalmNests
  <2> QED
    BY <1>1, <1>3, <2>2, <2>3, <2>6, <2>7, <2>8, <2>11, <2>12,
       NothingReported, ListedKeeps DEF Consuming
<1> QED
  BY <1>6, <1>7, Zenon

LEMMA ParseUnsafeKeeps ==
  ASSUME InOrder, Shaped, Nested, ParseUnsafe
  PROVE  InOrder' /\ Shaped' /\ Nested'
<1>1. At("stmt")
  BY Zenon DEF ParseUnsafe
<1>2. tokens \in Texts /\ pos \in Places /\ pos \in Nat /\ Ahead(pos, pos)
  BY <1>1, HeadIs, Zenon
<1>3. /\ Task = todo[1] /\ todo[1].do = "stmt" /\ Len(vals) \in Nat
      /\ AreNodes(vals)
  BY <1>1, HeadIs, HeadShaped, Zenon
<1>4. \A m \in Nat : Yields(todo[1], Len(vals), m) => m <= Len(vals) + 1
  BY <1>3 DEF Yields, Giving, Closing, Handlers
<1>5. ~InExpr(todo[1])
  BY <1>3 DEF InExpr
<1>6. Kind(pos) # "none"
  BY <1>1, HeadIs, Zenon DEF AtToken
<1>7. Kind(pos + 1) = "{"
  BY Zenon DEF ParseUnsafe, StartsUnsafe
<1> DEFINE ts == <<BlockOf("unsafe")>>
<1>8. Step(pos + 1, ts, vals, <<>>)
  BY Zenon DEF ParseUnsafe, Go, Push
<1>9. Ahead(pos, pos + 1)
  BY <1>2, <1>6, NextPlace, Zenon
<1>10. IsSequence(ts) /\ Len(ts) = 1 /\ ts[1] = BlockOf("unsafe")
  BY SequenceOne, Zenon
<1> HIDE DEF ts
<1>11. IsSequence(ts) /\ Len(ts) = 1
  BY <1>10
<1>12. ts[1].do = "block"
  BY <1>10, BlockOfIs, Zenon
<1>13. Listed(ts)
  <2>1. Fine(ts[1])
    BY <1>12 DEF Fine, TaskIs, Tasks, Handlers
  <2> QED
    BY <1>11, <2>1, SequenceElim DEF Listed
<1>14. Begins(ts[1], pos + 1)
  BY <1>7, <1>12, Zenon DEF Begins
<1>15. Job(ts[1], pos + 1, Len(vals), Len(vals) + 1)
  BY <1>2, <1>3, <1>4, <1>12, GivingJob DEF Giving
<1>16. \E g : Jobs(ts, g, Len(vals), pos + 1)
  <2> DEFINE g == [i \in 1 .. 2 |-> IF i <= 1 THEN Len(vals) ELSE Len(vals) + 1]
  <2>1. g[1] = Len(vals) /\ g[2] = Len(vals) + 1
    OBVIOUS
  <2> HIDE DEF g
  <2>2. \A i \in 1 .. 2 : g[i] \in Nat
    BY <1>2, <1>3, <1>4, <2>1
  <2>3. \A i \in 1 .. 1 : Reaches(todo[1], g[i])
    BY <1>2, <1>3, <1>4, <2>1 DEF Reaches
  <2>4. \A i \in 1 .. 1 : Job(ts[i], pos + 1, g[i], g[i + 1])
    BY <2>1, <1>15
  <2>5. Len(ts) = 1 /\ Len(ts) + 1 = 2
    BY <1>11
  <2>6. g[1] <= Len(vals) /\ \A m \in Nat : Yields(todo[1], Len(vals), m) => m <= g[2]
    BY <1>2, <1>3, <1>4, <2>1
  <2> QED
    BY <2>2, <2>4, <2>5, <2>6, <2>3, Zenon DEF Jobs
<1>17. Nests(todo[1], ts, vals, pos + 1)
  <2>1. \A i \in 1 .. 1 : ~Joins(ts[i]) /\ ts[i].do \notin Operand
    BY <1>12 DEF Joins, Operand
  <2> QED
    BY <1>5, <1>11, <2>1, CalmNests
<1> QED
  BY <1>1, <1>3, <1>8, <1>9, <1>12, <1>13, <1>14, <1>16, <1>17,
     NothingReported, ListedKeeps DEF Consuming

LEMMA ParseCompoundKeeps ==
  ASSUME InOrder, Shaped, Nested, ParseCompound
  PROVE  InOrder' /\ Shaped' /\ Nested'
<1>1. At("stmt")
  BY Zenon DEF ParseCompound
<1>2. tokens \in Texts /\ pos \in Places /\ pos \in Nat /\ Ahead(pos, pos)
  BY <1>1, HeadIs, Zenon
<1>3. /\ Task = todo[1] /\ todo[1].do = "stmt" /\ Len(vals) \in Nat
      /\ AreNodes(vals)
  BY <1>1, HeadIs, HeadShaped, Zenon
<1>4. \A m \in Nat : Yields(todo[1], Len(vals), m) => m <= Len(vals) + 1
  BY <1>3 DEF Yields, Giving, Closing, Handlers
<1>5. ~InExpr(todo[1])
  BY <1>3 DEF InExpr
<1>6. Kind(pos) # "none"
  BY <1>1, HeadIs, Zenon DEF AtToken
<1>7. Kind(pos) = "{"
  BY Zenon DEF ParseCompound
<1> DEFINE ts == <<BlockOf("block")>>
<1>8. Step(pos, ts, vals, <<>>)
  BY Zenon DEF ParseCompound, Go, Push
<1>9. Ahead(pos, pos)
  BY <1>2
<1>10. IsSequence(ts) /\ Len(ts) = 1 /\ ts[1] = BlockOf("block")
  BY SequenceOne, Zenon
<1> HIDE DEF ts
<1>11. IsSequence(ts) /\ Len(ts) = 1
  BY <1>10
<1>12. ts[1].do = "block"
  BY <1>10, BlockOfIs, Zenon
<1>13. Listed(ts)
  <2>1. Fine(ts[1])
    BY <1>12 DEF Fine, TaskIs, Tasks, Handlers
  <2> QED
    BY <1>11, <2>1, SequenceElim DEF Listed
<1>14. Begins(ts[1], pos)
  BY <1>7, <1>12, Zenon DEF Begins
<1>15. Job(ts[1], pos, Len(vals), Len(vals) + 1)
  BY <1>2, <1>3, <1>4, <1>12, GivingJob DEF Giving
<1>16. \E g : Jobs(ts, g, Len(vals), pos)
  <2> DEFINE g == [i \in 1 .. 2 |-> IF i <= 1 THEN Len(vals) ELSE Len(vals) + 1]
  <2>1. g[1] = Len(vals) /\ g[2] = Len(vals) + 1
    OBVIOUS
  <2> HIDE DEF g
  <2>2. \A i \in 1 .. 2 : g[i] \in Nat
    BY <1>2, <1>3, <1>4, <2>1
  <2>3. \A i \in 1 .. 1 : Reaches(todo[1], g[i])
    BY <1>2, <1>3, <1>4, <2>1 DEF Reaches
  <2>4. \A i \in 1 .. 1 : Job(ts[i], pos, g[i], g[i + 1])
    BY <2>1, <1>15
  <2>5. Len(ts) = 1 /\ Len(ts) + 1 = 2
    BY <1>11
  <2>6. g[1] <= Len(vals) /\ \A m \in Nat : Yields(todo[1], Len(vals), m) => m <= g[2]
    BY <1>2, <1>3, <1>4, <2>1
  <2> QED
    BY <2>2, <2>4, <2>5, <2>6, <2>3, Zenon DEF Jobs
<1>17. Nests(todo[1], ts, vals, pos)
  <2>1. \A i \in 1 .. 1 : ~Joins(ts[i]) /\ ts[i].do \notin Operand
    BY <1>12 DEF Joins, Operand
  <2> QED
    BY <1>5, <1>11, <2>1, CalmNests
<1> QED
  BY <1>1, <1>3, <1>8, <1>9, <1>12, <1>13, <1>14, <1>16, <1>17,
     NothingReported, ListedKeeps DEF Consuming

LEMMA ParseEmptyKeeps ==
  ASSUME InOrder, Shaped, Nested, ParseEmpty
  PROVE  InOrder' /\ Shaped' /\ Nested'
<1>1. At("stmt")
  BY Zenon DEF ParseEmpty
<1>2. tokens \in Texts /\ pos \in Places /\ pos \in Nat /\ Ahead(pos, pos)
  BY <1>1, HeadIs, Zenon
<1>3. /\ Task = todo[1] /\ todo[1].do = "stmt" /\ Len(vals) \in Nat
      /\ AreNodes(vals)
  BY <1>1, HeadIs, HeadShaped, Zenon
<1>4. \A m \in Nat : Yields(todo[1], Len(vals), m) => m <= Len(vals) + 1
  BY <1>3 DEF Yields, Giving, Closing, Handlers
<1>5. ~InExpr(todo[1])
  BY <1>3 DEF InExpr
<1>6. Kind(pos) # "none"
  BY <1>1, HeadIs, Zenon DEF AtToken
<1>7. IsNode([EmptyNode EXCEPT !.span = TokenSpan(pos)])
  BY <1>2, <1>3, <1>4, <1>6, EmptyIs, TokenHere, NodeSpanned
<1>8. PICK n : Step(pos + 1, <<>>, Append(vals, n), <<>>) /\ IsNode(n)
  BY <1>7, Zenon DEF ParseEmpty, Go, Push
<1>9. Ahead(pos, pos + 1) /\ pos + 1 # pos
  BY <1>2, <1>6, NextPlace
<1>10. AreNodes(Append(vals, n)) /\ Len(Append(vals, n)) = Len(vals) + 1
  BY <1>3, <1>8, NodesGrow
<1>11. \A m \in Nat : Yields(todo[1], Len(vals), m) => m <= Len(Append(vals, n))
  BY <1>2, <1>3, <1>4, <1>10
<1>12. Nests(todo[1], <<>>, Append(vals, n), pos + 1)
  BY <1>5, CalmNothing
<1> QED
  BY <1>1, <1>3, <1>10, <1>8, <1>9, <1>11, <1>12, NothingReported, NothingKeeps DEF Consuming

LEMMA ParseReturnKeeps ==
  ASSUME InOrder, Shaped, Nested, ParseReturn
  PROVE  InOrder' /\ Shaped' /\ Nested'
<1>1. At("stmt")
  BY Zenon DEF ParseReturn
<1>2. tokens \in Texts /\ pos \in Places /\ pos \in Nat /\ Ahead(pos, pos)
  BY <1>1, HeadIs, Zenon
<1>3. /\ Task = todo[1] /\ todo[1].do = "stmt" /\ Len(vals) \in Nat
      /\ AreNodes(vals)
  BY <1>1, HeadIs, HeadShaped, Zenon
<1>4. \A m \in Nat : Yields(todo[1], Len(vals), m) => m <= Len(vals) + 1
  BY <1>3 DEF Yields, Giving, Closing, Handlers
<1>5. ~InExpr(todo[1])
  BY <1>3 DEF InExpr
<1>6. Kind(pos) # "none"
  BY <1>1, HeadIs, Zenon DEF AtToken
<1>7. CASE Kind(pos + 1) = ";"
  <2> DEFINE ts == <<Expect(";"), MakeFromToken("return", "", pos, "written")>>
  <2>1. IsSequence(ts)
    BY SequenceTwo, Zenon
  <2>2. <<>> \o ts = ts
    <3> HIDE DEF ts
    <3> QED
      BY <2>1, ConcatNothing, Zenon
  <2>3. Step(pos + 1, ts, vals, <<>>)
    BY <1>7, <2>2, Zenon DEF ParseReturn, Go, Push
  <2>4. Ahead(pos, pos + 1) /\ pos + 1 # pos
    BY <1>7, <1>2, <1>6, NextPlace, Zenon
  <2>5. /\ IsSequence(ts) /\ Len(ts) = 2 /\ ts[1] = Expect(";")
          /\ ts[2] = MakeFromToken("return", "", pos, "written")
    BY SequenceTwo, Zenon
  <2> HIDE DEF ts
  <2>6. IsSequence(ts) /\ Len(ts) = 2
    BY <2>5
  <2>7. ts[1].do = "expect" /\ Fine(ts[1])
    BY <2>5, ExpectIs, Zenon
  <2>8. /\ ts[2].do = "make" /\ ts[2].first = TokenSpan(pos)
          /\ ts[2].from = Len(vals) /\ ts[2].ends = "written"
    <3>1. Made(ts[2], TokenSpan(pos), Len(vals), "written")
      BY <2>5, MakeFromTokenIs, Zenon
    <3> QED
      BY <3>1 DEF Made
  <2>9. Listed(ts)
    <3>1. \A i \in 1 .. 2 : Fine(ts[i])
      BY <2>7, <2>8 DEF Fine, TaskIs, Tasks, Handlers
    <3>2. \A i \in 2 .. 2 : (ts[i].do \in AtToken => ts[i - 1].do = "expect") /\ ts[i].do # "block"
      BY <2>7, <2>8 DEF AtToken
    <3> QED
      BY <2>6, <3>1, <3>2, SequenceElim DEF Listed
  <2>10. Begins(ts[1], pos + 1)
    BY <2>7, BeginsAnywhere DEF AtToken
  <2>11. IsSpan(TokenSpan(pos))
    BY <1>2, <1>3, <1>4, <1>6, TokenHere
  <2>12. Job(ts[1], pos + 1, Len(vals), Len(vals))
    BY <1>2, <1>3, <1>4, <2>7, PlainJob DEF Plain
  <2>13. Job(ts[2], pos + 1, Len(vals), Len(vals) + 1)
    BY <1>2, <1>3, <1>4, <2>8, <2>11 DEF Job, Carries, Enough, Yields, Giving, Closing, Handlers
  <2>14. \E g : Jobs(ts, g, Len(vals), pos + 1)
    <3> DEFINE g == [i \in 1 .. 3 |-> IF i <= 2 THEN Len(vals) ELSE Len(vals) + 1]
    <3>1. g[1] = Len(vals) /\ g[2] = Len(vals) /\ g[3] = Len(vals) + 1
      OBVIOUS
    <3> HIDE DEF g
    <3>2. \A i \in 1 .. 3 : g[i] \in Nat
      BY <1>2, <1>3, <1>4, <3>1
    <3>3. \A i \in 1 .. 2 : Reaches(todo[1], g[i])
      BY <1>2, <1>3, <1>4, <3>1 DEF Reaches
    <3>4. \A i \in 1 .. 2 : Job(ts[i], pos + 1, g[i], g[i + 1])
      BY <3>1, <2>12, <2>13
    <3>5. Len(ts) = 2 /\ Len(ts) + 1 = 3
      BY <2>6
    <3>6. g[1] <= Len(vals) /\ \A m \in Nat : Yields(todo[1], Len(vals), m) => m <= g[3]
      BY <1>2, <1>3, <1>4, <3>1
    <3> QED
      BY <3>2, <3>4, <3>5, <3>6, <3>3, Zenon DEF Jobs
  <2>15. Nests(todo[1], ts, vals, pos + 1)
    <3>1. \A i \in 1 .. 2 : ~Joins(ts[i]) /\ ts[i].do \notin Operand
      BY <2>7, <2>8 DEF Joins, Operand
    <3> QED
      BY <1>5, <2>6, <3>1, CalmNests
  <2> QED
    BY <1>1, <1>3, <2>3, <2>4, <2>7, <2>9, <2>10, <2>14, <2>15,
       NothingReported, ListedKeeps DEF Consuming
<1>8. CASE Kind(pos + 1) # ";"
  <2> DEFINE ts == <<Call("expr"), Expect(";"), MakeFromToken("return", "", pos, "written")>>
  <2>1. <<Call("expr")>> \o <<Expect(";"), MakeFromToken("return", "", pos, "written")>> = ts
    BY ConcatThree, Zenon
  <2>2. Step(pos + 1, ts, vals, <<>>)
    BY <1>8, <2>1, Zenon DEF ParseReturn, Go, Push
  <2>3. Ahead(pos, pos + 1)
    BY <1>8, <1>2, <1>6, NextPlace, Zenon
  <2>4. /\ IsSequence(ts) /\ Len(ts) = 3 /\ ts[1] = Call("expr")
          /\ ts[2] = Expect(";")
          /\ ts[3] = MakeFromToken("return", "", pos, "written")
    BY SequenceThree, Zenon
  <2> HIDE DEF ts
  <2>5. IsSequence(ts) /\ Len(ts) = 3
    BY <2>4
  <2>6. ts[1].do = "expr"
    BY <2>4, CallIs, Zenon
  <2>7. ts[2].do = "expect" /\ Fine(ts[2])
    BY <2>4, ExpectIs, Zenon
  <2>8. /\ ts[3].do = "make" /\ ts[3].first = TokenSpan(pos)
          /\ ts[3].from = Len(vals) /\ ts[3].ends = "written"
    <3>1. Made(ts[3], TokenSpan(pos), Len(vals), "written")
      BY <2>4, MakeFromTokenIs, Zenon
    <3> QED
      BY <3>1 DEF Made
  <2>9. Listed(ts)
    <3>1. \A i \in 1 .. 3 : Fine(ts[i])
      BY <2>6, <2>7, <2>8 DEF Fine, TaskIs, Tasks, Handlers
    <3>2. \A i \in 2 .. 3 : (ts[i].do \in AtToken => ts[i - 1].do = "expect") /\ ts[i].do # "block"
      BY <2>6, <2>7, <2>8 DEF AtToken
    <3> QED
      BY <2>5, <3>1, <3>2, SequenceElim DEF Listed
  <2>10. Begins(ts[1], pos + 1)
    BY <2>6, BeginsAnywhere DEF AtToken
  <2>11. IsSpan(TokenSpan(pos))
    BY <1>2, <1>3, <1>4, <1>6, TokenHere
  <2>12. Job(ts[1], pos + 1, Len(vals), Len(vals))
    BY <1>2, <1>3, <1>4, <2>6, GivingJob DEF Giving
  <2>13. Job(ts[2], pos + 1, Len(vals), Len(vals))
    BY <1>2, <1>3, <1>4, <2>7, PlainJob DEF Plain
  <2>14. Job(ts[3], pos + 1, Len(vals), Len(vals) + 1)
    BY <1>2, <1>3, <1>4, <2>8, <2>11 DEF Job, Carries, Enough, Yields, Giving, Closing, Handlers
  <2>15. \E g : Jobs(ts, g, Len(vals), pos + 1)
    <3> DEFINE g == [i \in 1 .. 4 |-> IF i <= 3 THEN Len(vals) ELSE Len(vals) + 1]
    <3>1. /\ g[1] = Len(vals) /\ g[2] = Len(vals) /\ g[3] = Len(vals)
            /\ g[4] = Len(vals) + 1
      OBVIOUS
    <3> HIDE DEF g
    <3>2. \A i \in 1 .. 4 : g[i] \in Nat
      BY <1>2, <1>3, <1>4, <3>1
    <3>3. \A i \in 1 .. 3 : Reaches(todo[1], g[i])
      BY <1>2, <1>3, <1>4, <3>1 DEF Reaches
    <3>4. \A i \in 1 .. 3 : Job(ts[i], pos + 1, g[i], g[i + 1])
      BY <3>1, <2>12, <2>13, <2>14
    <3>5. Len(ts) = 3 /\ Len(ts) + 1 = 4
      BY <2>5
    <3>6. g[1] <= Len(vals) /\ \A m \in Nat : Yields(todo[1], Len(vals), m) => m <= g[4]
      BY <1>2, <1>3, <1>4, <3>1
    <3> QED
      BY <3>2, <3>4, <3>5, <3>6, <3>3, Zenon DEF Jobs
  <2>16. Nests(todo[1], ts, vals, pos + 1)
    <3>1. \A i \in 1 .. 3 : ~Joins(ts[i]) /\ ts[i].do \notin Operand
      BY <2>6, <2>7, <2>8 DEF Joins, Operand
    <3> QED
      BY <1>5, <2>5, <3>1, CalmNests
  <2> QED
    BY <1>1, <1>3, <2>2, <2>3, <2>6, <2>9, <2>10, <2>15, <2>16,
       NothingReported, ListedKeeps DEF Consuming
<1> QED
  BY <1>7, <1>8, Zenon

LEMMA ParseJumpKeeps ==
  ASSUME InOrder, Shaped, Nested, ParseJump
  PROVE  InOrder' /\ Shaped' /\ Nested'
<1>1. At("stmt")
  BY Zenon DEF ParseJump
<1>2. tokens \in Texts /\ pos \in Places /\ pos \in Nat /\ Ahead(pos, pos)
  BY <1>1, HeadIs, Zenon
<1>3. /\ Task = todo[1] /\ todo[1].do = "stmt" /\ Len(vals) \in Nat
      /\ AreNodes(vals)
  BY <1>1, HeadIs, HeadShaped, Zenon
<1>4. \A m \in Nat : Yields(todo[1], Len(vals), m) => m <= Len(vals) + 1
  BY <1>3 DEF Yields, Giving, Closing, Handlers
<1>5. ~InExpr(todo[1])
  BY <1>3 DEF InExpr
<1>6. Kind(pos) # "none"
  BY <1>1, HeadIs, Zenon DEF AtToken
<1> DEFINE ts == <<Expect(";"), MakeFromToken(Kind(pos), "", pos, "written")>>
<1>7. Step(pos + 1, ts, vals, <<>>)
  BY Zenon DEF ParseJump, Go, Push
<1>8. Ahead(pos, pos + 1) /\ pos + 1 # pos
  BY <1>2, <1>6, NextPlace, Zenon
<1>9. /\ IsSequence(ts) /\ Len(ts) = 2 /\ ts[1] = Expect(";")
        /\ ts[2] = MakeFromToken(Kind(pos), "", pos, "written")
  BY SequenceTwo, Zenon
<1> HIDE DEF ts
<1>10. IsSequence(ts) /\ Len(ts) = 2
  BY <1>9
<1>11. ts[1].do = "expect" /\ Fine(ts[1])
  BY <1>9, ExpectIs, Zenon
<1>12. /\ ts[2].do = "make" /\ ts[2].first = TokenSpan(pos)
        /\ ts[2].from = Len(vals) /\ ts[2].ends = "written"
  <2>1. Made(ts[2], TokenSpan(pos), Len(vals), "written")
    BY <1>9, MakeFromTokenIs, Zenon
  <2> QED
    BY <2>1 DEF Made
<1>13. Listed(ts)
  <2>1. \A i \in 1 .. 2 : Fine(ts[i])
    BY <1>11, <1>12 DEF Fine, TaskIs, Tasks, Handlers
  <2>2. \A i \in 2 .. 2 : (ts[i].do \in AtToken => ts[i - 1].do = "expect") /\ ts[i].do # "block"
    BY <1>11, <1>12 DEF AtToken
  <2> QED
    BY <1>10, <2>1, <2>2, SequenceElim DEF Listed
<1>14. Begins(ts[1], pos + 1)
  BY <1>11, BeginsAnywhere DEF AtToken
<1>15. IsSpan(TokenSpan(pos))
  BY <1>2, <1>3, <1>4, <1>6, TokenHere
<1>16. Job(ts[1], pos + 1, Len(vals), Len(vals))
  BY <1>2, <1>3, <1>4, <1>11, PlainJob DEF Plain
<1>17. Job(ts[2], pos + 1, Len(vals), Len(vals) + 1)
  BY <1>2, <1>3, <1>4, <1>12, <1>15 DEF Job, Carries, Enough, Yields, Giving, Closing, Handlers
<1>18. \E g : Jobs(ts, g, Len(vals), pos + 1)
  <2> DEFINE g == [i \in 1 .. 3 |-> IF i <= 2 THEN Len(vals) ELSE Len(vals) + 1]
  <2>1. g[1] = Len(vals) /\ g[2] = Len(vals) /\ g[3] = Len(vals) + 1
    OBVIOUS
  <2> HIDE DEF g
  <2>2. \A i \in 1 .. 3 : g[i] \in Nat
    BY <1>2, <1>3, <1>4, <2>1
  <2>3. \A i \in 1 .. 2 : Reaches(todo[1], g[i])
    BY <1>2, <1>3, <1>4, <2>1 DEF Reaches
  <2>4. \A i \in 1 .. 2 : Job(ts[i], pos + 1, g[i], g[i + 1])
    BY <2>1, <1>16, <1>17
  <2>5. Len(ts) = 2 /\ Len(ts) + 1 = 3
    BY <1>10
  <2>6. g[1] <= Len(vals) /\ \A m \in Nat : Yields(todo[1], Len(vals), m) => m <= g[3]
    BY <1>2, <1>3, <1>4, <2>1
  <2> QED
    BY <2>2, <2>4, <2>5, <2>6, <2>3, Zenon DEF Jobs
<1>19. Nests(todo[1], ts, vals, pos + 1)
  <2>1. \A i \in 1 .. 2 : ~Joins(ts[i]) /\ ts[i].do \notin Operand
    BY <1>11, <1>12 DEF Joins, Operand
  <2> QED
    BY <1>5, <1>10, <2>1, CalmNests
<1> QED
  BY <1>1, <1>3, <1>7, <1>8, <1>11, <1>13, <1>14, <1>18, <1>19,
     NothingReported, ListedKeeps DEF Consuming

LEMMA ParseIfKeeps ==
  ASSUME InOrder, Shaped, Nested, ParseIf
  PROVE  InOrder' /\ Shaped' /\ Nested'
<1>1. At("stmt")
  BY Zenon DEF ParseIf
<1>2. tokens \in Texts /\ pos \in Places /\ pos \in Nat /\ Ahead(pos, pos)
  BY <1>1, HeadIs, Zenon
<1>3. /\ Task = todo[1] /\ todo[1].do = "stmt" /\ Len(vals) \in Nat
      /\ AreNodes(vals)
  BY <1>1, HeadIs, HeadShaped, Zenon
<1>4. \A m \in Nat : Yields(todo[1], Len(vals), m) => m <= Len(vals) + 1
  BY <1>3 DEF Yields, Giving, Closing, Handlers
<1>5. ~InExpr(todo[1])
  BY <1>3 DEF InExpr
<1>6. Kind(pos) # "none"
  BY <1>1, HeadIs, Zenon DEF AtToken
<1> DEFINE a == <<Expect("("), Call("expr"), Expect(")")>>
           b == <<Call("stmt"), Call("else"), MakeFromToken("if", "", pos, "written")>>
           ts == a \o b
<1>7. Step(pos + 1, ts, vals, <<>>)
  BY Zenon DEF ParseIf, Go, Push, Parenthesized
<1>8. Ahead(pos, pos + 1) /\ pos + 1 # pos
  BY <1>2, <1>6, NextPlace, Zenon
<1>9. /\ IsSequence(a) /\ Len(a) = 3 /\ a[1] = Expect("(") /\ a[2] = Call("expr")
        /\ a[3] = Expect(")")
  BY SequenceThree, Zenon
<1>10. /\ IsSequence(b) /\ Len(b) = 3 /\ b[1] = Call("stmt") /\ b[2] = Call("else")
        /\ b[3] = MakeFromToken("if", "", pos, "written")
  BY SequenceThree, Zenon
<1>11. IsSequence(a) /\ Len(a) = 3 /\ IsSequence(b) /\ Len(b) = 3
  BY <1>9, <1>10, Zenon
<1> HIDE DEF a, b
<1>12. /\ IsSequence(ts) /\ Len(ts) = 6 /\ ts[1] = a[1] /\ ts[2] = a[2]
        /\ ts[3] = a[3] /\ ts[4] = b[1] /\ ts[5] = b[2] /\ ts[6] = b[3]
  <2>1. IsSequence(a) /\ IsSequence(b)
    BY <1>11
  <2>2. JoinOf(ts, a, b)
    BY <2>1, JoinOfIs
  <2> HIDE DEF ts
  <2> QED
    BY <1>11, <2>2 DEF JoinOf
<1> HIDE DEF ts
<1>13. ts[1].do = "expect" /\ Fine(ts[1])
  <2>1. ts[1] = Expect("(")
    BY <1>12, <1>9, <1>10, Zenon
  <2> QED
    BY <2>1, ExpectIs, Zenon
<1>14. ts[2].do = "expr"
  BY <1>12, <1>9, <1>10, CallIs, Zenon
<1>15. ts[3].do = "expect" /\ Fine(ts[3])
  <2>1. ts[3] = Expect(")")
    BY <1>12, <1>9, <1>10, Zenon
  <2> QED
    BY <2>1, ExpectIs, Zenon
<1>16. ts[4].do = "stmt"
  BY <1>12, <1>9, <1>10, CallIs, Zenon
<1>17. ts[5].do = "else"
  BY <1>12, <1>9, <1>10, CallIs, Zenon
<1>18. /\ ts[6].do = "make" /\ ts[6].first = TokenSpan(pos)
        /\ ts[6].from = Len(vals) /\ ts[6].ends = "written"
  <2>1. Made(ts[6], TokenSpan(pos), Len(vals), "written")
    BY <1>12, <1>9, <1>10, MakeFromTokenIs, Zenon
  <2> QED
    BY <2>1 DEF Made
<1>19. Listed(ts)
  <2>1. Fine(ts[1]) /\ Fine(ts[2]) /\ Fine(ts[3])
    BY <1>13, <1>14, <1>15 DEF Fine, TaskIs, Tasks, Handlers
  <2>2. Fine(ts[4]) /\ Fine(ts[5]) /\ Fine(ts[6])
    BY <1>16, <1>17, <1>18 DEF Fine, TaskIs, Tasks, Handlers
  <2>3. \A i \in 1 .. 6 : Fine(ts[i])
    BY <2>1, <2>2
  <2>4. \A i \in 2 .. 6 : (ts[i].do \in AtToken => ts[i - 1].do = "expect") /\ ts[i].do # "block"
    BY <1>13, <1>14, <1>15, <1>16, <1>17, <1>18 DEF AtToken
  <2>5. IsSequence(ts) /\ Len(ts) = 6
    BY <1>12, Zenon
  <2>6. ts # <<>>
    BY <2>5, SequenceElim
  <2> QED
    BY <2>3, <2>4, <2>5, <2>6 DEF Listed
<1>20. Begins(ts[1], pos + 1)
  BY <1>13, BeginsAnywhere DEF AtToken
<1>21. IsSpan(TokenSpan(pos))
  BY <1>2, <1>3, <1>4, <1>6, TokenHere
<1>22. Job(ts[1], pos + 1, Len(vals), Len(vals))
  BY <1>2, <1>3, <1>4, <1>13, PlainJob DEF Plain
<1>23. Job(ts[2], pos + 1, Len(vals), Len(vals))
  BY <1>2, <1>3, <1>4, <1>14, GivingJob DEF Giving
<1>24. Job(ts[3], pos + 1, Len(vals), Len(vals))
  BY <1>2, <1>3, <1>4, <1>15, PlainJob DEF Plain
<1>25. Job(ts[4], pos + 1, Len(vals), Len(vals))
  BY <1>2, <1>3, <1>4, <1>16, GivingJob DEF Giving
<1>26. Job(ts[5], pos + 1, Len(vals), Len(vals))
  BY <1>2, <1>3, <1>4, <1>17, PlainJob DEF Plain
<1>27. Job(ts[6], pos + 1, Len(vals), Len(vals) + 1)
  BY <1>2, <1>3, <1>4, <1>18, <1>21 DEF Job, Carries, Enough, Yields, Giving, Closing, Handlers
<1>28. \E g : Jobs(ts, g, Len(vals), pos + 1)
  <2> DEFINE g == [i \in 1 .. 7 |-> IF i <= 6 THEN Len(vals) ELSE Len(vals) + 1]
  <2>1. /\ g[1] = Len(vals) /\ g[2] = Len(vals) /\ g[3] = Len(vals)
          /\ g[4] = Len(vals) /\ g[5] = Len(vals) /\ g[6] = Len(vals)
          /\ g[7] = Len(vals) + 1
    OBVIOUS
  <2> HIDE DEF g
  <2>2. \A i \in 1 .. 7 : g[i] \in Nat
    <3>1. /\ g[1] \in Nat /\ g[2] \in Nat /\ g[3] \in Nat /\ g[4] \in Nat
          /\ g[5] \in Nat /\ g[6] \in Nat /\ g[7] \in Nat
      BY <1>2, <1>3, <1>4, <2>1
    <3>2. \A i \in 1 .. 7 : i = 1 \/ i = 2 \/ i = 3 \/ i = 4 \/ i = 5 \/ i = 6 \/ i = 7
      OBVIOUS
    <3> QED
      BY <3>1, <3>2, Zenon
  <2>3. \A i \in 1 .. 6 : Len(vals) <= g[i]
    <3>1. /\ Len(vals) <= g[1] /\ Len(vals) <= g[2] /\ Len(vals) <= g[3]
          /\ Len(vals) <= g[4] /\ Len(vals) <= g[5] /\ Len(vals) <= g[6]
      BY <1>2, <1>3, <1>4, <2>1
    <3>2. \A i \in 1 .. 6 : i = 1 \/ i = 2 \/ i = 3 \/ i = 4 \/ i = 5 \/ i = 6
      OBVIOUS
    <3> QED
      BY <3>1, <3>2, Zenon
  <2>4. \A i \in 1 .. 6 : Job(ts[i], pos + 1, g[i], g[i + 1])
    <3>1. /\ Job(ts[1], pos + 1, g[1], g[1 + 1])
          /\ Job(ts[2], pos + 1, g[2], g[2 + 1])
          /\ Job(ts[3], pos + 1, g[3], g[3 + 1])
      BY <2>1, <1>22, <1>23, <1>24
    <3>2. /\ Job(ts[4], pos + 1, g[4], g[4 + 1])
          /\ Job(ts[5], pos + 1, g[5], g[5 + 1])
          /\ Job(ts[6], pos + 1, g[6], g[6 + 1])
      BY <2>1, <1>25, <1>26, <1>27
    <3>3. \A i \in 1 .. 6 : i = 1 \/ i = 2 \/ i = 3 \/ i = 4 \/ i = 5 \/ i = 6
      OBVIOUS
    <3> QED
      BY <3>1, <3>2, <3>3, Zenon
  <2>5. Len(ts) = 6 /\ Len(ts) + 1 = 7
    BY <1>12
  <2>6. g[1] <= Len(vals) /\ \A m \in Nat : Yields(todo[1], Len(vals), m) => m <= g[7]
    BY <1>2, <1>3, <1>4, <2>1
  <2>7. \A i \in 1 .. 6 : Reaches(todo[1], g[i])
    BY <2>3 DEF Reaches
  <2> QED
    BY <2>2, <2>4, <2>5, <2>6, <2>7, Zenon DEF Jobs
<1>29. Nests(todo[1], ts, vals, pos + 1)
  <2>1. /\ ~Joins(ts[1]) /\ ts[1].do \notin Operand
          /\ ~Joins(ts[2]) /\ ts[2].do \notin Operand
          /\ ~Joins(ts[3]) /\ ts[3].do \notin Operand
          /\ ~Joins(ts[4]) /\ ts[4].do \notin Operand
          /\ ~Joins(ts[5]) /\ ts[5].do \notin Operand
          /\ ~Joins(ts[6]) /\ ts[6].do \notin Operand
    BY <1>13, <1>14, <1>15, <1>16, <1>17, <1>18 DEF Joins, Operand
  <2>2. \A i \in 1 .. 6 : ~Joins(ts[i]) /\ ts[i].do \notin Operand
    <3>1. \A i \in 1 .. 6 : i = 1 \/ i = 2 \/ i = 3 \/ i = 4 \/ i = 5 \/ i = 6
      OBVIOUS
    <3> QED
      BY <2>1, <3>1, Zenon
  <2> QED
    BY <1>5, <1>12, <2>2, CalmNests
<1> QED
  BY <1>1, <1>3, <1>7, <1>8, <1>13, <1>19, <1>20, <1>28, <1>29,
     NothingReported, ListedKeeps DEF Consuming

LEMMA ParseElseKeeps ==
  ASSUME InOrder, Shaped, Nested, ParseElse
  PROVE  InOrder' /\ Shaped' /\ Nested'
<1>1. At("else")
  BY Zenon DEF ParseElse
<1>2. tokens \in Texts /\ pos \in Places /\ pos \in Nat /\ Ahead(pos, pos)
  BY <1>1, HeadIs, Zenon
<1>3. /\ Task = todo[1] /\ todo[1].do = "else" /\ Len(vals) \in Nat
      /\ AreNodes(vals)
  BY <1>1, HeadIs, HeadShaped, Zenon
<1>4. \A m \in Nat : Yields(todo[1], Len(vals), m) => m <= Len(vals)
  BY <1>3 DEF Yields, Giving, Closing, Handlers
<1>5. ~InExpr(todo[1])
  BY <1>3 DEF InExpr
<1>6. CASE Kind(pos) = "else"
  <2>1. Kind(pos + 1) # "none"
    BY <1>2, <1>6, Behind, Zenon
  <2> DEFINE ts == <<Call("stmt")>>
  <2>2. Step(pos + 1, ts, vals, <<>>)
    BY <1>6, Zenon DEF ParseElse, Go, Push
  <2>3. Ahead(pos, pos + 1)
    BY <1>6, <1>2, NextPlace, Zenon
  <2>4. IsSequence(ts) /\ Len(ts) = 1 /\ ts[1] = Call("stmt")
    BY SequenceOne, Zenon
  <2> HIDE DEF ts
  <2>5. IsSequence(ts) /\ Len(ts) = 1
    BY <2>4
  <2>6. ts[1].do = "stmt"
    BY <2>4, CallIs, Zenon
  <2>7. Listed(ts)
    <3>1. Fine(ts[1])
      BY <2>6 DEF Fine, TaskIs, Tasks, Handlers
    <3> QED
      BY <2>5, <3>1, SequenceElim DEF Listed
  <2>8. Begins(ts[1], pos + 1)
    BY <1>6, <2>1, <2>6, Zenon DEF Begins
  <2>9. Job(ts[1], pos + 1, Len(vals), Len(vals))
    BY <1>2, <1>3, <1>4, <2>6, GivingJob DEF Giving
  <2>10. \E g : Jobs(ts, g, Len(vals), pos + 1)
    <3> DEFINE g == [i \in 1 .. 2 |-> Len(vals)]
    <3>1. g[1] = Len(vals) /\ g[2] = Len(vals)
      OBVIOUS
    <3> HIDE DEF g
    <3>2. \A i \in 1 .. 2 : g[i] \in Nat
      BY <1>2, <1>3, <1>4, <3>1
    <3>3. \A i \in 1 .. 1 : Reaches(todo[1], g[i])
      BY <1>2, <1>3, <1>4, <3>1 DEF Reaches
    <3>4. \A i \in 1 .. 1 : Job(ts[i], pos + 1, g[i], g[i + 1])
      BY <3>1, <2>9
    <3>5. Len(ts) = 1 /\ Len(ts) + 1 = 2
      BY <2>5
    <3>6. g[1] <= Len(vals) /\ \A m \in Nat : Yields(todo[1], Len(vals), m) => m <= g[2]
      BY <1>2, <1>3, <1>4, <3>1
    <3> QED
      BY <3>2, <3>4, <3>5, <3>6, <3>3, Zenon DEF Jobs
  <2>11. Nests(todo[1], ts, vals, pos + 1)
    <3>1. \A i \in 1 .. 1 : ~Joins(ts[i]) /\ ts[i].do \notin Operand
      BY <2>6 DEF Joins, Operand
    <3> QED
      BY <1>5, <2>5, <3>1, CalmNests
  <2> QED
    BY <1>1, <1>3, <2>2, <2>3, <2>6, <2>7, <2>8, <2>10, <2>11,
       NothingReported, ListedKeeps DEF Consuming
<1>7. CASE Kind(pos) # "else"
  <2>1. Step(pos, <<>>, vals, <<>>)
    BY <1>7, Zenon DEF ParseElse, Go, Push
  <2>2. Ahead(pos, pos)
    BY <1>7, <1>2
  <2>3. \A m \in Nat : Yields(todo[1], Len(vals), m) => m <= Len(vals)
    BY <1>7, <1>2, <1>3, <1>4
  <2>4. Nests(todo[1], <<>>, vals, pos)
    BY <1>5, CalmNothing
  <2> QED
    BY <1>1, <1>3, <2>1, <2>2, <2>3, <2>4, NothingReported, NothingKeeps DEF Consuming
<1> QED
  BY <1>6, <1>7, Zenon

LEMMA ParseWhileKeeps ==
  ASSUME InOrder, Shaped, Nested, ParseWhile
  PROVE  InOrder' /\ Shaped' /\ Nested'
<1>1. At("stmt")
  BY Zenon DEF ParseWhile
<1>2. tokens \in Texts /\ pos \in Places /\ pos \in Nat /\ Ahead(pos, pos)
  BY <1>1, HeadIs, Zenon
<1>3. /\ Task = todo[1] /\ todo[1].do = "stmt" /\ Len(vals) \in Nat
      /\ AreNodes(vals)
  BY <1>1, HeadIs, HeadShaped, Zenon
<1>4. \A m \in Nat : Yields(todo[1], Len(vals), m) => m <= Len(vals) + 1
  BY <1>3 DEF Yields, Giving, Closing, Handlers
<1>5. ~InExpr(todo[1])
  BY <1>3 DEF InExpr
<1>6. Kind(pos) # "none"
  BY <1>1, HeadIs, Zenon DEF AtToken
<1> DEFINE a == <<Expect("("), Call("expr"), Expect(")")>>
           b == <<Call("stmt"), MakeFromToken("while", "", pos, "written")>>
           ts == a \o b
<1>7. Step(pos + 1, ts, vals, <<>>)
  BY Zenon DEF ParseWhile, Go, Push, Parenthesized
<1>8. Ahead(pos, pos + 1) /\ pos + 1 # pos
  BY <1>2, <1>6, NextPlace, Zenon
<1>9. /\ IsSequence(a) /\ Len(a) = 3 /\ a[1] = Expect("(") /\ a[2] = Call("expr")
        /\ a[3] = Expect(")")
  BY SequenceThree, Zenon
<1>10. /\ IsSequence(b) /\ Len(b) = 2 /\ b[1] = Call("stmt")
        /\ b[2] = MakeFromToken("while", "", pos, "written")
  BY SequenceTwo, Zenon
<1>11. IsSequence(a) /\ Len(a) = 3 /\ IsSequence(b) /\ Len(b) = 2
  BY <1>9, <1>10, Zenon
<1> HIDE DEF a, b
<1>12. /\ IsSequence(ts) /\ Len(ts) = 5 /\ ts[1] = a[1] /\ ts[2] = a[2]
        /\ ts[3] = a[3] /\ ts[4] = b[1] /\ ts[5] = b[2]
  <2>1. IsSequence(a) /\ IsSequence(b)
    BY <1>11
  <2>2. JoinOf(ts, a, b)
    BY <2>1, JoinOfIs
  <2> HIDE DEF ts
  <2> QED
    BY <1>11, <2>2 DEF JoinOf
<1> HIDE DEF ts
<1>13. ts[1].do = "expect" /\ Fine(ts[1])
  <2>1. ts[1] = Expect("(")
    BY <1>12, <1>9, <1>10, Zenon
  <2> QED
    BY <2>1, ExpectIs, Zenon
<1>14. ts[2].do = "expr"
  BY <1>12, <1>9, <1>10, CallIs, Zenon
<1>15. ts[3].do = "expect" /\ Fine(ts[3])
  <2>1. ts[3] = Expect(")")
    BY <1>12, <1>9, <1>10, Zenon
  <2> QED
    BY <2>1, ExpectIs, Zenon
<1>16. ts[4].do = "stmt"
  BY <1>12, <1>9, <1>10, CallIs, Zenon
<1>17. /\ ts[5].do = "make" /\ ts[5].first = TokenSpan(pos)
        /\ ts[5].from = Len(vals) /\ ts[5].ends = "written"
  <2>1. Made(ts[5], TokenSpan(pos), Len(vals), "written")
    BY <1>12, <1>9, <1>10, MakeFromTokenIs, Zenon
  <2> QED
    BY <2>1 DEF Made
<1>18. Listed(ts)
  <2>1. Fine(ts[1]) /\ Fine(ts[2]) /\ Fine(ts[3])
    BY <1>13, <1>14, <1>15 DEF Fine, TaskIs, Tasks, Handlers
  <2>2. Fine(ts[4]) /\ Fine(ts[5])
    BY <1>16, <1>17 DEF Fine, TaskIs, Tasks, Handlers
  <2>3. \A i \in 1 .. 5 : Fine(ts[i])
    BY <2>1, <2>2
  <2>4. \A i \in 2 .. 5 : (ts[i].do \in AtToken => ts[i - 1].do = "expect") /\ ts[i].do # "block"
    BY <1>13, <1>14, <1>15, <1>16, <1>17 DEF AtToken
  <2>5. IsSequence(ts) /\ Len(ts) = 5
    BY <1>12, Zenon
  <2>6. ts # <<>>
    BY <2>5, SequenceElim
  <2> QED
    BY <2>3, <2>4, <2>5, <2>6 DEF Listed
<1>19. Begins(ts[1], pos + 1)
  BY <1>13, BeginsAnywhere DEF AtToken
<1>20. IsSpan(TokenSpan(pos))
  BY <1>2, <1>3, <1>4, <1>6, TokenHere
<1>21. Job(ts[1], pos + 1, Len(vals), Len(vals))
  BY <1>2, <1>3, <1>4, <1>13, PlainJob DEF Plain
<1>22. Job(ts[2], pos + 1, Len(vals), Len(vals))
  BY <1>2, <1>3, <1>4, <1>14, GivingJob DEF Giving
<1>23. Job(ts[3], pos + 1, Len(vals), Len(vals))
  BY <1>2, <1>3, <1>4, <1>15, PlainJob DEF Plain
<1>24. Job(ts[4], pos + 1, Len(vals), Len(vals))
  BY <1>2, <1>3, <1>4, <1>16, GivingJob DEF Giving
<1>25. Job(ts[5], pos + 1, Len(vals), Len(vals) + 1)
  BY <1>2, <1>3, <1>4, <1>17, <1>20 DEF Job, Carries, Enough, Yields, Giving, Closing, Handlers
<1>26. \E g : Jobs(ts, g, Len(vals), pos + 1)
  <2> DEFINE g == [i \in 1 .. 6 |-> IF i <= 5 THEN Len(vals) ELSE Len(vals) + 1]
  <2>1. /\ g[1] = Len(vals) /\ g[2] = Len(vals) /\ g[3] = Len(vals)
          /\ g[4] = Len(vals) /\ g[5] = Len(vals) /\ g[6] = Len(vals) + 1
    OBVIOUS
  <2> HIDE DEF g
  <2>2. \A i \in 1 .. 6 : g[i] \in Nat
    BY <1>2, <1>3, <1>4, <2>1
  <2>3. \A i \in 1 .. 5 : Reaches(todo[1], g[i])
    BY <1>2, <1>3, <1>4, <2>1 DEF Reaches
  <2>4. \A i \in 1 .. 5 : Job(ts[i], pos + 1, g[i], g[i + 1])
    <3>1. /\ Job(ts[1], pos + 1, g[1], g[1 + 1])
          /\ Job(ts[2], pos + 1, g[2], g[2 + 1])
          /\ Job(ts[3], pos + 1, g[3], g[3 + 1])
          /\ Job(ts[4], pos + 1, g[4], g[4 + 1])
          /\ Job(ts[5], pos + 1, g[5], g[5 + 1])
      BY <2>1, <1>21, <1>22, <1>23, <1>24, <1>25
    <3>2. \A i \in 1 .. 5 : i = 1 \/ i = 2 \/ i = 3 \/ i = 4 \/ i = 5
      OBVIOUS
    <3> QED
      BY <3>1, <3>2, Zenon
  <2>5. Len(ts) = 5 /\ Len(ts) + 1 = 6
    BY <1>12
  <2>6. g[1] <= Len(vals) /\ \A m \in Nat : Yields(todo[1], Len(vals), m) => m <= g[6]
    BY <1>2, <1>3, <1>4, <2>1
  <2> QED
    BY <2>2, <2>4, <2>5, <2>6, <2>3, Zenon DEF Jobs
<1>27. Nests(todo[1], ts, vals, pos + 1)
  <2>1. /\ ~Joins(ts[1]) /\ ts[1].do \notin Operand
          /\ ~Joins(ts[2]) /\ ts[2].do \notin Operand
          /\ ~Joins(ts[3]) /\ ts[3].do \notin Operand
          /\ ~Joins(ts[4]) /\ ts[4].do \notin Operand
          /\ ~Joins(ts[5]) /\ ts[5].do \notin Operand
    BY <1>13, <1>14, <1>15, <1>16, <1>17 DEF Joins, Operand
  <2>2. \A i \in 1 .. 5 : ~Joins(ts[i]) /\ ts[i].do \notin Operand
    <3>1. \A i \in 1 .. 5 : i = 1 \/ i = 2 \/ i = 3 \/ i = 4 \/ i = 5
      OBVIOUS
    <3> QED
      BY <2>1, <3>1, Zenon
  <2> QED
    BY <1>5, <1>12, <2>2, CalmNests
<1> QED
  BY <1>1, <1>3, <1>7, <1>8, <1>13, <1>18, <1>19, <1>26, <1>27,
     NothingReported, ListedKeeps DEF Consuming

LEMMA ParseDoWhileKeeps ==
  ASSUME InOrder, Shaped, Nested, ParseDoWhile
  PROVE  InOrder' /\ Shaped' /\ Nested'
<1>1. At("stmt")
  BY Zenon DEF ParseDoWhile
<1>2. tokens \in Texts /\ pos \in Places /\ pos \in Nat /\ Ahead(pos, pos)
  BY <1>1, HeadIs, Zenon
<1>3. /\ Task = todo[1] /\ todo[1].do = "stmt" /\ Len(vals) \in Nat
      /\ AreNodes(vals)
  BY <1>1, HeadIs, HeadShaped, Zenon
<1>4. \A m \in Nat : Yields(todo[1], Len(vals), m) => m <= Len(vals) + 1
  BY <1>3 DEF Yields, Giving, Closing, Handlers
<1>5. ~InExpr(todo[1])
  BY <1>3 DEF InExpr
<1>6. Kind(pos) # "none"
  BY <1>1, HeadIs, Zenon DEF AtToken
<1>7. Kind(pos) = "do"
  BY Zenon DEF ParseDoWhile
<1>8. Kind(pos + 1) # "none"
  BY <1>2, <1>7, Behind, Zenon
<1> DEFINE a == <<Call("stmt"), Expect("while")>>
           b == <<Expect("("), Call("expr"), Expect(")")>>
           c == <<Expect(";"), MakeFromToken("do", "", pos, "written")>>
           ab == a \o b
           ts == ab \o c
<1>9. Step(pos + 1, ts, vals, <<>>)
  BY Zenon DEF ParseDoWhile, Go, Push, Parenthesized
<1>10. Ahead(pos, pos + 1)
  BY <1>2, <1>6, NextPlace, Zenon
<1>11. /\ IsSequence(a) /\ Len(a) = 2 /\ a[1] = Call("stmt")
        /\ a[2] = Expect("while")
  BY SequenceTwo, Zenon
<1>12. /\ IsSequence(b) /\ Len(b) = 3 /\ b[1] = Expect("(") /\ b[2] = Call("expr")
        /\ b[3] = Expect(")")
  BY SequenceThree, Zenon
<1>13. /\ IsSequence(c) /\ Len(c) = 2 /\ c[1] = Expect(";")
        /\ c[2] = MakeFromToken("do", "", pos, "written")
  BY SequenceTwo, Zenon
<1>14. /\ IsSequence(a) /\ Len(a) = 2 /\ IsSequence(b) /\ Len(b) = 3
        /\ IsSequence(c) /\ Len(c) = 2
  BY <1>11, <1>12, <1>13, Zenon
<1> HIDE DEF a, b, c
<1>15. /\ IsSequence(ab) /\ Len(ab) = 5 /\ ab[1] = a[1] /\ ab[2] = a[2]
        /\ ab[3] = b[1] /\ ab[4] = b[2] /\ ab[5] = b[3]
  <2>1. IsSequence(a) /\ IsSequence(b)
    BY <1>14
  <2>2. JoinOf(ab, a, b)
    BY <2>1, JoinOfIs
  <2> HIDE DEF ab
  <2> QED
    BY <1>14, <2>2 DEF JoinOf
<1> HIDE DEF ab
<1>16. /\ IsSequence(ts) /\ Len(ts) = 7 /\ ts[1] = ab[1] /\ ts[2] = ab[2]
        /\ ts[3] = ab[3] /\ ts[4] = ab[4] /\ ts[5] = ab[5] /\ ts[6] = c[1]
        /\ ts[7] = c[2]
  <2>1. IsSequence(ab) /\ IsSequence(c)
    BY <1>14, <1>15
  <2>2. JoinOf(ts, ab, c)
    BY <2>1, JoinOfIs
  <2> HIDE DEF ts
  <2> QED
    BY <1>14, <1>15, <2>2 DEF JoinOf
<1> HIDE DEF ts
<1>17. ts[1].do = "stmt"
  BY <1>16, <1>15, <1>11, <1>12, <1>13, CallIs, Zenon
<1>18. ts[2].do = "expect" /\ Fine(ts[2])
  <2>1. ts[2] = Expect("while")
    BY <1>16, <1>15, <1>11, <1>12, <1>13, Zenon
  <2> QED
    BY <2>1, ExpectIs, Zenon
<1>19. ts[3].do = "expect" /\ Fine(ts[3])
  <2>1. ts[3] = Expect("(")
    BY <1>16, <1>15, <1>11, <1>12, <1>13, Zenon
  <2> QED
    BY <2>1, ExpectIs, Zenon
<1>20. ts[4].do = "expr"
  BY <1>16, <1>15, <1>11, <1>12, <1>13, CallIs, Zenon
<1>21. ts[5].do = "expect" /\ Fine(ts[5])
  <2>1. ts[5] = Expect(")")
    BY <1>16, <1>15, <1>11, <1>12, <1>13, Zenon
  <2> QED
    BY <2>1, ExpectIs, Zenon
<1>22. ts[6].do = "expect" /\ Fine(ts[6])
  <2>1. ts[6] = Expect(";")
    BY <1>16, <1>15, <1>11, <1>12, <1>13, Zenon
  <2> QED
    BY <2>1, ExpectIs, Zenon
<1>23. /\ ts[7].do = "make" /\ ts[7].first = TokenSpan(pos)
        /\ ts[7].from = Len(vals) /\ ts[7].ends = "written"
  <2>1. Made(ts[7], TokenSpan(pos), Len(vals), "written")
    BY <1>16, <1>15, <1>11, <1>12, <1>13, MakeFromTokenIs, Zenon
  <2> QED
    BY <2>1 DEF Made
<1>24. Listed(ts)
  <2>1. Fine(ts[1]) /\ Fine(ts[2]) /\ Fine(ts[3]) /\ Fine(ts[4])
    BY <1>17, <1>18, <1>19, <1>20 DEF Fine, TaskIs, Tasks, Handlers
  <2>2. Fine(ts[5]) /\ Fine(ts[6]) /\ Fine(ts[7])
    BY <1>21, <1>22, <1>23 DEF Fine, TaskIs, Tasks, Handlers
  <2>3. \A i \in 1 .. 7 : Fine(ts[i])
    BY <2>1, <2>2
  <2>4. \A i \in 2 .. 7 : (ts[i].do \in AtToken => ts[i - 1].do = "expect") /\ ts[i].do # "block"
    BY <1>17, <1>18, <1>19, <1>20, <1>21, <1>22, <1>23 DEF AtToken
  <2>5. IsSequence(ts) /\ Len(ts) = 7
    BY <1>16, Zenon
  <2>6. ts # <<>>
    BY <2>5, SequenceElim
  <2> QED
    BY <2>3, <2>4, <2>5, <2>6 DEF Listed
<1>25. Begins(ts[1], pos + 1)
  BY <1>8, <1>17, Zenon DEF Begins
<1>26. IsSpan(TokenSpan(pos))
  BY <1>2, <1>3, <1>4, <1>6, TokenHere
<1>27. Job(ts[1], pos + 1, Len(vals), Len(vals))
  BY <1>2, <1>3, <1>4, <1>17, GivingJob DEF Giving
<1>28. Job(ts[2], pos + 1, Len(vals), Len(vals))
  BY <1>2, <1>3, <1>4, <1>18, PlainJob DEF Plain
<1>29. Job(ts[3], pos + 1, Len(vals), Len(vals))
  BY <1>2, <1>3, <1>4, <1>19, PlainJob DEF Plain
<1>30. Job(ts[4], pos + 1, Len(vals), Len(vals))
  BY <1>2, <1>3, <1>4, <1>20, GivingJob DEF Giving
<1>31. Job(ts[5], pos + 1, Len(vals), Len(vals))
  BY <1>2, <1>3, <1>4, <1>21, PlainJob DEF Plain
<1>32. Job(ts[6], pos + 1, Len(vals), Len(vals))
  BY <1>2, <1>3, <1>4, <1>22, PlainJob DEF Plain
<1>33. Job(ts[7], pos + 1, Len(vals), Len(vals) + 1)
  BY <1>2, <1>3, <1>4, <1>23, <1>26 DEF Job, Carries, Enough, Yields, Giving, Closing, Handlers
<1>34. \E g : Jobs(ts, g, Len(vals), pos + 1)
  <2> DEFINE g == [i \in 1 .. 8 |-> IF i <= 7 THEN Len(vals) ELSE Len(vals) + 1]
  <2>1. /\ g[1] = Len(vals) /\ g[2] = Len(vals) /\ g[3] = Len(vals)
          /\ g[4] = Len(vals) /\ g[5] = Len(vals) /\ g[6] = Len(vals)
          /\ g[7] = Len(vals) /\ g[8] = Len(vals) + 1
    OBVIOUS
  <2> HIDE DEF g
  <2>2. \A i \in 1 .. 8 : g[i] \in Nat
    <3>1. /\ g[1] \in Nat /\ g[2] \in Nat /\ g[3] \in Nat /\ g[4] \in Nat
          /\ g[5] \in Nat /\ g[6] \in Nat /\ g[7] \in Nat /\ g[8] \in Nat
      BY <1>2, <1>3, <1>4, <2>1
    <3>2. \A i \in 1 .. 8 : i = 1 \/ i = 2 \/ i = 3 \/ i = 4 \/ i = 5 \/ i = 6 \/ i = 7 \/ i = 8
      OBVIOUS
    <3> QED
      BY <3>1, <3>2, Zenon
  <2>3. \A i \in 1 .. 7 : Len(vals) <= g[i]
    <3>1. /\ Len(vals) <= g[1] /\ Len(vals) <= g[2] /\ Len(vals) <= g[3]
          /\ Len(vals) <= g[4] /\ Len(vals) <= g[5] /\ Len(vals) <= g[6]
          /\ Len(vals) <= g[7]
      BY <1>2, <1>3, <1>4, <2>1
    <3>2. \A i \in 1 .. 7 : i = 1 \/ i = 2 \/ i = 3 \/ i = 4 \/ i = 5 \/ i = 6 \/ i = 7
      OBVIOUS
    <3> QED
      BY <3>1, <3>2, Zenon
  <2>4. \A i \in 1 .. 7 : Job(ts[i], pos + 1, g[i], g[i + 1])
    <3>1. /\ Job(ts[1], pos + 1, g[1], g[1 + 1])
          /\ Job(ts[2], pos + 1, g[2], g[2 + 1])
          /\ Job(ts[3], pos + 1, g[3], g[3 + 1])
      BY <2>1, <1>27, <1>28, <1>29
    <3>2. /\ Job(ts[4], pos + 1, g[4], g[4 + 1])
          /\ Job(ts[5], pos + 1, g[5], g[5 + 1])
          /\ Job(ts[6], pos + 1, g[6], g[6 + 1])
          /\ Job(ts[7], pos + 1, g[7], g[7 + 1])
      BY <2>1, <1>30, <1>31, <1>32, <1>33
    <3>3. \A i \in 1 .. 7 : i = 1 \/ i = 2 \/ i = 3 \/ i = 4 \/ i = 5 \/ i = 6 \/ i = 7
      OBVIOUS
    <3> QED
      BY <3>1, <3>2, <3>3, Zenon
  <2>5. Len(ts) = 7 /\ Len(ts) + 1 = 8
    BY <1>16
  <2>6. g[1] <= Len(vals) /\ \A m \in Nat : Yields(todo[1], Len(vals), m) => m <= g[8]
    BY <1>2, <1>3, <1>4, <2>1
  <2>7. \A i \in 1 .. 7 : Reaches(todo[1], g[i])
    BY <2>3 DEF Reaches
  <2> QED
    BY <2>2, <2>4, <2>5, <2>6, <2>7, Zenon DEF Jobs
<1>35. Nests(todo[1], ts, vals, pos + 1)
  <2>1. /\ ~Joins(ts[1]) /\ ts[1].do \notin Operand
          /\ ~Joins(ts[2]) /\ ts[2].do \notin Operand
          /\ ~Joins(ts[3]) /\ ts[3].do \notin Operand
          /\ ~Joins(ts[4]) /\ ts[4].do \notin Operand
          /\ ~Joins(ts[5]) /\ ts[5].do \notin Operand
          /\ ~Joins(ts[6]) /\ ts[6].do \notin Operand
          /\ ~Joins(ts[7]) /\ ts[7].do \notin Operand
    BY <1>17, <1>18, <1>19, <1>20, <1>21, <1>22, <1>23 DEF Joins, Operand
  <2>2. \A i \in 1 .. 7 : ~Joins(ts[i]) /\ ts[i].do \notin Operand
    <3>1. \A i \in 1 .. 7 : i = 1 \/ i = 2 \/ i = 3 \/ i = 4 \/ i = 5 \/ i = 6 \/ i = 7
      OBVIOUS
    <3> QED
      BY <2>1, <3>1, Zenon
  <2> QED
    BY <1>5, <1>16, <2>2, CalmNests
<1> QED
  BY <1>1, <1>3, <1>9, <1>10, <1>17, <1>24, <1>25, <1>34, <1>35,
     NothingReported, ListedKeeps DEF Consuming

LEMMA ParseForKeeps ==
  ASSUME InOrder, Shaped, Nested, ParseFor
  PROVE  InOrder' /\ Shaped' /\ Nested'
<1>1. At("stmt")
  BY Zenon DEF ParseFor
<1>2. tokens \in Texts /\ pos \in Places /\ pos \in Nat /\ Ahead(pos, pos)
  BY <1>1, HeadIs, Zenon
<1>3. /\ Task = todo[1] /\ todo[1].do = "stmt" /\ Len(vals) \in Nat
      /\ AreNodes(vals)
  BY <1>1, HeadIs, HeadShaped, Zenon
<1>4. \A m \in Nat : Yields(todo[1], Len(vals), m) => m <= Len(vals) + 1
  BY <1>3 DEF Yields, Giving, Closing, Handlers
<1>5. ~InExpr(todo[1])
  BY <1>3 DEF InExpr
<1>6. Kind(pos) # "none"
  BY <1>1, HeadIs, Zenon DEF AtToken
<1> DEFINE ts == <<Expect("("), Call("for_init"), Slot(";"), Expect(";"), Slot(")"), Expect(")"),
                   Call("stmt"), MakeFromToken("for", "", pos, "written")>>
<1>7. Step(pos + 1, ts, vals, <<>>)
  BY Zenon DEF ParseFor, Go, Push
<1>8. Ahead(pos, pos + 1) /\ pos + 1 # pos
  BY <1>2, <1>6, NextPlace, Zenon
<1>9. /\ IsSequence(ts) /\ Len(ts) = 8 /\ ts[1] = Expect("(")
        /\ ts[2] = Call("for_init") /\ ts[3] = Slot(";") /\ ts[4] = Expect(";")
        /\ ts[5] = Slot(")") /\ ts[6] = Expect(")") /\ ts[7] = Call("stmt")
        /\ ts[8] = MakeFromToken("for", "", pos, "written")
  BY SequenceEight, Zenon
<1> HIDE DEF ts
<1>10. IsSequence(ts) /\ Len(ts) = 8
  BY <1>9
<1>11. ts[1].do = "expect" /\ Fine(ts[1])
  BY <1>9, ExpectIs, Zenon
<1>12. ts[2].do = "for_init"
  BY <1>9, CallIs, Zenon
<1>13. ts[3].do = "slot"
  BY <1>9, SlotIs, Zenon
<1>14. ts[4].do = "expect" /\ Fine(ts[4])
  BY <1>9, ExpectIs, Zenon
<1>15. ts[5].do = "slot"
  BY <1>9, SlotIs, Zenon
<1>16. ts[6].do = "expect" /\ Fine(ts[6])
  BY <1>9, ExpectIs, Zenon
<1>17. ts[7].do = "stmt"
  BY <1>9, CallIs, Zenon
<1>18. /\ ts[8].do = "make" /\ ts[8].first = TokenSpan(pos)
        /\ ts[8].from = Len(vals) /\ ts[8].ends = "written"
  <2>1. Made(ts[8], TokenSpan(pos), Len(vals), "written")
    BY <1>9, MakeFromTokenIs, Zenon
  <2> QED
    BY <2>1 DEF Made
<1>19. Listed(ts)
  <2>1. Fine(ts[1]) /\ Fine(ts[2]) /\ Fine(ts[3]) /\ Fine(ts[4])
    BY <1>11, <1>12, <1>13, <1>14 DEF Fine, TaskIs, Tasks, Handlers
  <2>2. Fine(ts[5]) /\ Fine(ts[6]) /\ Fine(ts[7]) /\ Fine(ts[8])
    BY <1>15, <1>16, <1>17, <1>18 DEF Fine, TaskIs, Tasks, Handlers
  <2>3. \A i \in 1 .. 8 : Fine(ts[i])
    BY <2>1, <2>2
  <2>4. \A i \in 2 .. 8 : (ts[i].do \in AtToken => ts[i - 1].do = "expect") /\ ts[i].do # "block"
    BY <1>11, <1>12, <1>13, <1>14, <1>15, <1>16, <1>17, <1>18 DEF AtToken
  <2> QED
    BY <1>10, <2>3, <2>4, SequenceElim DEF Listed
<1>20. Begins(ts[1], pos + 1)
  BY <1>11, BeginsAnywhere DEF AtToken
<1>21. IsSpan(TokenSpan(pos))
  BY <1>2, <1>3, <1>4, <1>6, TokenHere
<1>22. Job(ts[1], pos + 1, Len(vals), Len(vals))
  BY <1>2, <1>3, <1>4, <1>11, PlainJob DEF Plain
<1>23. Job(ts[2], pos + 1, Len(vals), Len(vals))
  BY <1>2, <1>3, <1>4, <1>12, GivingJob DEF Giving
<1>24. Job(ts[3], pos + 1, Len(vals), Len(vals))
  BY <1>2, <1>3, <1>4, <1>13, GivingJob DEF Giving
<1>25. Job(ts[4], pos + 1, Len(vals), Len(vals))
  BY <1>2, <1>3, <1>4, <1>14, PlainJob DEF Plain
<1>26. Job(ts[5], pos + 1, Len(vals), Len(vals))
  BY <1>2, <1>3, <1>4, <1>15, GivingJob DEF Giving
<1>27. Job(ts[6], pos + 1, Len(vals), Len(vals))
  BY <1>2, <1>3, <1>4, <1>16, PlainJob DEF Plain
<1>28. Job(ts[7], pos + 1, Len(vals), Len(vals))
  BY <1>2, <1>3, <1>4, <1>17, GivingJob DEF Giving
<1>29. Job(ts[8], pos + 1, Len(vals), Len(vals) + 1)
  BY <1>2, <1>3, <1>4, <1>18, <1>21 DEF Job, Carries, Enough, Yields, Giving, Closing, Handlers
<1>30. \E g : Jobs(ts, g, Len(vals), pos + 1)
  <2> DEFINE g == [i \in 1 .. 9 |-> IF i <= 8 THEN Len(vals) ELSE Len(vals) + 1]
  <2>1. /\ g[1] = Len(vals) /\ g[2] = Len(vals) /\ g[3] = Len(vals)
          /\ g[4] = Len(vals) /\ g[5] = Len(vals) /\ g[6] = Len(vals)
          /\ g[7] = Len(vals) /\ g[8] = Len(vals) /\ g[9] = Len(vals) + 1
    OBVIOUS
  <2> HIDE DEF g
  <2>2. \A i \in 1 .. 9 : g[i] \in Nat
    <3>1. /\ g[1] \in Nat /\ g[2] \in Nat /\ g[3] \in Nat /\ g[4] \in Nat
          /\ g[5] \in Nat /\ g[6] \in Nat /\ g[7] \in Nat /\ g[8] \in Nat
          /\ g[9] \in Nat
      BY <1>2, <1>3, <1>4, <2>1
    <3>2. \A i \in 1 .. 9 : i = 1 \/ i = 2 \/ i = 3 \/ i = 4 \/ i = 5 \/ i = 6 \/ i = 7 \/ i = 8 \/ i = 9
      OBVIOUS
    <3> QED
      BY <3>1, <3>2, Zenon
  <2>3. \A i \in 1 .. 8 : Len(vals) <= g[i]
    <3>1. /\ Len(vals) <= g[1] /\ Len(vals) <= g[2] /\ Len(vals) <= g[3]
          /\ Len(vals) <= g[4] /\ Len(vals) <= g[5] /\ Len(vals) <= g[6]
          /\ Len(vals) <= g[7] /\ Len(vals) <= g[8]
      BY <1>2, <1>3, <1>4, <2>1
    <3>2. \A i \in 1 .. 8 : i = 1 \/ i = 2 \/ i = 3 \/ i = 4 \/ i = 5 \/ i = 6 \/ i = 7 \/ i = 8
      OBVIOUS
    <3> QED
      BY <3>1, <3>2, Zenon
  <2>4. \A i \in 1 .. 8 : Job(ts[i], pos + 1, g[i], g[i + 1])
    <3>1. /\ Job(ts[1], pos + 1, g[1], g[1 + 1])
          /\ Job(ts[2], pos + 1, g[2], g[2 + 1])
          /\ Job(ts[3], pos + 1, g[3], g[3 + 1])
          /\ Job(ts[4], pos + 1, g[4], g[4 + 1])
      BY <2>1, <1>22, <1>23, <1>24, <1>25
    <3>2. /\ Job(ts[5], pos + 1, g[5], g[5 + 1])
          /\ Job(ts[6], pos + 1, g[6], g[6 + 1])
          /\ Job(ts[7], pos + 1, g[7], g[7 + 1])
          /\ Job(ts[8], pos + 1, g[8], g[8 + 1])
      BY <2>1, <1>26, <1>27, <1>28, <1>29
    <3>3. \A i \in 1 .. 8 : i = 1 \/ i = 2 \/ i = 3 \/ i = 4 \/ i = 5 \/ i = 6 \/ i = 7 \/ i = 8
      OBVIOUS
    <3> QED
      BY <3>1, <3>2, <3>3, Zenon
  <2>5. Len(ts) = 8 /\ Len(ts) + 1 = 9
    BY <1>10
  <2>6. g[1] <= Len(vals) /\ \A m \in Nat : Yields(todo[1], Len(vals), m) => m <= g[9]
    BY <1>2, <1>3, <1>4, <2>1
  <2>7. \A i \in 1 .. 8 : Reaches(todo[1], g[i])
    BY <2>3 DEF Reaches
  <2> QED
    BY <2>2, <2>4, <2>5, <2>6, <2>7, Zenon DEF Jobs
<1>31. Nests(todo[1], ts, vals, pos + 1)
  <2>1. /\ ~Joins(ts[1]) /\ ts[1].do \notin Operand
          /\ ~Joins(ts[2]) /\ ts[2].do \notin Operand
          /\ ~Joins(ts[3]) /\ ts[3].do \notin Operand
          /\ ~Joins(ts[4]) /\ ts[4].do \notin Operand
          /\ ~Joins(ts[5]) /\ ts[5].do \notin Operand
          /\ ~Joins(ts[6]) /\ ts[6].do \notin Operand
          /\ ~Joins(ts[7]) /\ ts[7].do \notin Operand
          /\ ~Joins(ts[8]) /\ ts[8].do \notin Operand
    BY <1>11, <1>12, <1>13, <1>14, <1>15, <1>16, <1>17, <1>18 DEF Joins, Operand
  <2>2. \A i \in 1 .. 8 : ~Joins(ts[i]) /\ ts[i].do \notin Operand
    <3>1. \A i \in 1 .. 8 : i = 1 \/ i = 2 \/ i = 3 \/ i = 4 \/ i = 5 \/ i = 6 \/ i = 7 \/ i = 8
      OBVIOUS
    <3> QED
      BY <2>1, <3>1, Zenon
  <2> QED
    BY <1>5, <1>10, <2>2, CalmNests
<1> QED
  BY <1>1, <1>3, <1>7, <1>8, <1>11, <1>19, <1>20, <1>30, <1>31,
     NothingReported, ListedKeeps DEF Consuming

LEMMA ParseForInitKeeps ==
  ASSUME InOrder, Shaped, Nested, ParseForInit
  PROVE  InOrder' /\ Shaped' /\ Nested'
<1>1. At("for_init")
  BY Zenon DEF ParseForInit
<1>2. tokens \in Texts /\ pos \in Places /\ pos \in Nat /\ Ahead(pos, pos)
  BY <1>1, HeadIs, Zenon
<1>3. /\ Task = todo[1] /\ todo[1].do = "for_init" /\ Len(vals) \in Nat
      /\ AreNodes(vals)
  BY <1>1, HeadIs, HeadShaped, Zenon
<1>4. \A m \in Nat : Yields(todo[1], Len(vals), m) => m <= Len(vals) + 1
  BY <1>3 DEF Yields, Giving, Closing, Handlers
<1>5. ~InExpr(todo[1])
  BY <1>3 DEF InExpr
<1>6. Kind(pos) # "none"
  BY <1>1, HeadIs, Zenon DEF AtToken
<1>7. CASE Kind(pos) = ";"
  <2>1. IsNode(EmptyNode)
    BY <1>7, <1>2, <1>3, <1>4, EmptyIs
  <2>2. PICK n : Step(pos + 1, <<>>, Append(vals, n), <<>>) /\ IsNode(n)
    BY <1>7, <2>1, Zenon DEF ParseForInit, Go, Push
  <2>3. Ahead(pos, pos + 1)
    BY <1>7, <1>2, <1>6, NextPlace
  <2>4. AreNodes(Append(vals, n)) /\ Len(Append(vals, n)) = Len(vals) + 1
    BY <1>3, <2>2, NodesGrow
  <2>5. \A m \in Nat : Yields(todo[1], Len(vals), m) => m <= Len(Append(vals, n))
    BY <1>7, <1>2, <1>3, <1>4, <2>4
  <2>6. Nests(todo[1], <<>>, Append(vals, n), pos + 1)
    BY <1>5, CalmNothing
  <2> QED
    BY <1>1, <1>3, <2>4, <2>2, <2>3, <2>5, <2>6, NothingReported, NothingKeeps DEF Consuming
<1>8. CASE Kind(pos) # ";" /\ LooksLikeDeclStart(pos)
  <2> DEFINE ts == <<Call("local")>>
  <2>1. Step(pos, ts, vals, <<>>)
    BY <1>8, Zenon DEF ParseForInit, Go, Push
  <2>2. Ahead(pos, pos)
    BY <1>8, <1>2
  <2>3. IsSequence(ts) /\ Len(ts) = 1 /\ ts[1] = Call("local")
    BY SequenceOne, Zenon
  <2> HIDE DEF ts
  <2>4. IsSequence(ts) /\ Len(ts) = 1
    BY <2>3
  <2>5. ts[1].do = "local"
    BY <2>3, CallIs, Zenon
  <2>6. Listed(ts)
    <3>1. Fine(ts[1])
      BY <2>5 DEF Fine, TaskIs, Tasks, Handlers
    <3> QED
      BY <2>4, <3>1, SequenceElim DEF Listed
  <2>7. Begins(ts[1], pos)
    BY <1>8, <1>6, <2>5, Zenon DEF Begins
  <2>8. Job(ts[1], pos, Len(vals), Len(vals) + 1)
    BY <1>2, <1>3, <1>4, <2>5, GivingJob DEF Giving
  <2>9. \E g : Jobs(ts, g, Len(vals), pos)
    <3> DEFINE g == [i \in 1 .. 2 |-> IF i <= 1 THEN Len(vals) ELSE Len(vals) + 1]
    <3>1. g[1] = Len(vals) /\ g[2] = Len(vals) + 1
      OBVIOUS
    <3> HIDE DEF g
    <3>2. \A i \in 1 .. 2 : g[i] \in Nat
      BY <1>2, <1>3, <1>4, <3>1
    <3>3. \A i \in 1 .. 1 : Reaches(todo[1], g[i])
      BY <1>2, <1>3, <1>4, <3>1 DEF Reaches
    <3>4. \A i \in 1 .. 1 : Job(ts[i], pos, g[i], g[i + 1])
      BY <3>1, <2>8
    <3>5. Len(ts) = 1 /\ Len(ts) + 1 = 2
      BY <2>4
    <3>6. g[1] <= Len(vals) /\ \A m \in Nat : Yields(todo[1], Len(vals), m) => m <= g[2]
      BY <1>2, <1>3, <1>4, <3>1
    <3> QED
      BY <3>2, <3>4, <3>5, <3>6, <3>3, Zenon DEF Jobs
  <2>10. Nests(todo[1], ts, vals, pos)
    <3>1. \A i \in 1 .. 1 : ~Joins(ts[i]) /\ ts[i].do \notin Operand
      BY <2>5 DEF Joins, Operand
    <3> QED
      BY <1>5, <2>4, <3>1, CalmNests
  <2> QED
    BY <1>1, <1>3, <2>1, <2>2, <2>5, <2>6, <2>7, <2>9, <2>10,
       NothingReported, ListedKeeps DEF Consuming
<1>9. CASE Kind(pos) # ";" /\ ~LooksLikeDeclStart(pos)
  <2> DEFINE ts == <<Call("expr"), Expect(";"), MakeFromToken("expr", "", pos, "written")>>
  <2>1. Step(pos, ts, vals, <<>>)
    BY <1>9, Zenon DEF ParseForInit, Go, Push, ExprStmtTasks
  <2>2. Ahead(pos, pos)
    BY <1>9, <1>2
  <2>3. /\ IsSequence(ts) /\ Len(ts) = 3 /\ ts[1] = Call("expr")
          /\ ts[2] = Expect(";")
          /\ ts[3] = MakeFromToken("expr", "", pos, "written")
    BY SequenceThree, Zenon
  <2> HIDE DEF ts
  <2>4. IsSequence(ts) /\ Len(ts) = 3
    BY <2>3
  <2>5. ts[1].do = "expr"
    BY <2>3, CallIs, Zenon
  <2>6. ts[2].do = "expect" /\ Fine(ts[2])
    BY <2>3, ExpectIs, Zenon
  <2>7. /\ ts[3].do = "make" /\ ts[3].first = TokenSpan(pos)
          /\ ts[3].from = Len(vals) /\ ts[3].ends = "written"
    <3>1. Made(ts[3], TokenSpan(pos), Len(vals), "written")
      BY <2>3, MakeFromTokenIs, Zenon
    <3> QED
      BY <3>1 DEF Made
  <2>8. Listed(ts)
    <3>1. \A i \in 1 .. 3 : Fine(ts[i])
      BY <2>5, <2>6, <2>7 DEF Fine, TaskIs, Tasks, Handlers
    <3>2. \A i \in 2 .. 3 : (ts[i].do \in AtToken => ts[i - 1].do = "expect") /\ ts[i].do # "block"
      BY <2>5, <2>6, <2>7 DEF AtToken
    <3> QED
      BY <2>4, <3>1, <3>2, SequenceElim DEF Listed
  <2>9. Begins(ts[1], pos)
    BY <2>5, BeginsAnywhere DEF AtToken
  <2>10. IsSpan(TokenSpan(pos))
    BY <1>2, <1>3, <1>4, <1>6, TokenHere
  <2>11. Job(ts[1], pos, Len(vals), Len(vals))
    BY <1>2, <1>3, <1>4, <2>5, GivingJob DEF Giving
  <2>12. Job(ts[2], pos, Len(vals), Len(vals))
    BY <1>2, <1>3, <1>4, <2>6, PlainJob DEF Plain
  <2>13. Job(ts[3], pos, Len(vals), Len(vals) + 1)
    BY <1>2, <1>3, <1>4, <2>7, <2>10 DEF Job, Carries, Enough, Yields, Giving, Closing, Handlers
  <2>14. \E g : Jobs(ts, g, Len(vals), pos)
    <3> DEFINE g == [i \in 1 .. 4 |-> IF i <= 3 THEN Len(vals) ELSE Len(vals) + 1]
    <3>1. /\ g[1] = Len(vals) /\ g[2] = Len(vals) /\ g[3] = Len(vals)
            /\ g[4] = Len(vals) + 1
      OBVIOUS
    <3> HIDE DEF g
    <3>2. \A i \in 1 .. 4 : g[i] \in Nat
      BY <1>2, <1>3, <1>4, <3>1
    <3>3. \A i \in 1 .. 3 : Reaches(todo[1], g[i])
      BY <1>2, <1>3, <1>4, <3>1 DEF Reaches
    <3>4. \A i \in 1 .. 3 : Job(ts[i], pos, g[i], g[i + 1])
      BY <3>1, <2>11, <2>12, <2>13
    <3>5. Len(ts) = 3 /\ Len(ts) + 1 = 4
      BY <2>4
    <3>6. g[1] <= Len(vals) /\ \A m \in Nat : Yields(todo[1], Len(vals), m) => m <= g[4]
      BY <1>2, <1>3, <1>4, <3>1
    <3> QED
      BY <3>2, <3>4, <3>5, <3>6, <3>3, Zenon DEF Jobs
  <2>15. Nests(todo[1], ts, vals, pos)
    <3>1. \A i \in 1 .. 3 : ~Joins(ts[i]) /\ ts[i].do \notin Operand
      BY <2>5, <2>6, <2>7 DEF Joins, Operand
    <3> QED
      BY <1>5, <2>4, <3>1, CalmNests
  <2> QED
    BY <1>1, <1>3, <2>1, <2>2, <2>5, <2>8, <2>9, <2>14, <2>15,
       NothingReported, ListedKeeps DEF Consuming
<1> QED
  BY <1>7, <1>8, <1>9, Zenon

LEMMA ParseSlotKeeps ==
  ASSUME InOrder, Shaped, Nested, ParseSlot
  PROVE  InOrder' /\ Shaped' /\ Nested'
<1>1. At("slot")
  BY Zenon DEF ParseSlot
<1>2. tokens \in Texts /\ pos \in Places /\ pos \in Nat /\ Ahead(pos, pos)
  BY <1>1, HeadIs, Zenon
<1>3. /\ Task = todo[1] /\ todo[1].do = "slot" /\ Len(vals) \in Nat
      /\ AreNodes(vals)
  BY <1>1, HeadIs, HeadShaped, Zenon
<1>4. \A m \in Nat : Yields(todo[1], Len(vals), m) => m <= Len(vals) + 1
  BY <1>3 DEF Yields, Giving, Closing, Handlers
<1>5. ~InExpr(todo[1])
  BY <1>3 DEF InExpr
<1>6. CASE Kind(pos) = Task.k
  <2>1. IsNode(EmptyNode)
    BY <1>6, <1>2, <1>3, <1>4, EmptyIs
  <2>2. PICK n : Step(pos, <<>>, Append(vals, n), <<>>) /\ IsNode(n)
    BY <1>6, <2>1, Zenon DEF ParseSlot, Go, Push
  <2>3. Ahead(pos, pos)
    BY <1>6, <1>2
  <2>4. AreNodes(Append(vals, n)) /\ Len(Append(vals, n)) = Len(vals) + 1
    BY <1>3, <2>2, NodesGrow
  <2>5. \A m \in Nat : Yields(todo[1], Len(vals), m) => m <= Len(Append(vals, n))
    BY <1>6, <1>2, <1>3, <1>4, <2>4
  <2>6. Nests(todo[1], <<>>, Append(vals, n), pos)
    BY <1>5, CalmNothing
  <2> QED
    BY <1>1, <1>3, <2>4, <2>2, <2>3, <2>5, <2>6, NothingReported, NothingKeeps DEF Consuming
<1>7. CASE Kind(pos) # Task.k
  <2> DEFINE ts == <<Call("expr")>>
  <2>1. Step(pos, ts, vals, <<>>)
    BY <1>7, Zenon DEF ParseSlot, Go, Push
  <2>2. Ahead(pos, pos)
    BY <1>7, <1>2
  <2>3. IsSequence(ts) /\ Len(ts) = 1 /\ ts[1] = Call("expr")
    BY SequenceOne, Zenon
  <2> HIDE DEF ts
  <2>4. IsSequence(ts) /\ Len(ts) = 1
    BY <2>3
  <2>5. ts[1].do = "expr"
    BY <2>3, CallIs, Zenon
  <2>6. Listed(ts)
    <3>1. Fine(ts[1])
      BY <2>5 DEF Fine, TaskIs, Tasks, Handlers
    <3> QED
      BY <2>4, <3>1, SequenceElim DEF Listed
  <2>7. Begins(ts[1], pos)
    BY <2>5, BeginsAnywhere DEF AtToken
  <2>8. Job(ts[1], pos, Len(vals), Len(vals) + 1)
    BY <1>2, <1>3, <1>4, <2>5, GivingJob DEF Giving
  <2>9. \E g : Jobs(ts, g, Len(vals), pos)
    <3> DEFINE g == [i \in 1 .. 2 |-> IF i <= 1 THEN Len(vals) ELSE Len(vals) + 1]
    <3>1. g[1] = Len(vals) /\ g[2] = Len(vals) + 1
      OBVIOUS
    <3> HIDE DEF g
    <3>2. \A i \in 1 .. 2 : g[i] \in Nat
      BY <1>2, <1>3, <1>4, <3>1
    <3>3. \A i \in 1 .. 1 : Reaches(todo[1], g[i])
      BY <1>2, <1>3, <1>4, <3>1 DEF Reaches
    <3>4. \A i \in 1 .. 1 : Job(ts[i], pos, g[i], g[i + 1])
      BY <3>1, <2>8
    <3>5. Len(ts) = 1 /\ Len(ts) + 1 = 2
      BY <2>4
    <3>6. g[1] <= Len(vals) /\ \A m \in Nat : Yields(todo[1], Len(vals), m) => m <= g[2]
      BY <1>2, <1>3, <1>4, <3>1
    <3> QED
      BY <3>2, <3>4, <3>5, <3>6, <3>3, Zenon DEF Jobs
  <2>10. Nests(todo[1], ts, vals, pos)
    <3>1. \A i \in 1 .. 1 : ~Joins(ts[i]) /\ ts[i].do \notin Operand
      BY <2>5 DEF Joins, Operand
    <3> QED
      BY <1>5, <2>4, <3>1, CalmNests
  <2> QED
    BY <1>1, <1>3, <2>1, <2>2, <2>5, <2>6, <2>7, <2>9, <2>10,
       NothingReported, ListedKeeps DEF Consuming
<1> QED
  BY <1>6, <1>7, Zenon

LEMMA ParseDeclStmtKeeps ==
  ASSUME InOrder, Shaped, Nested, ParseDeclStmt
  PROVE  InOrder' /\ Shaped' /\ Nested'
<1>1. At("stmt")
  BY Zenon DEF ParseDeclStmt, IsOtherStmt
<1>2. tokens \in Texts /\ pos \in Places /\ pos \in Nat /\ Ahead(pos, pos)
  BY <1>1, HeadIs, Zenon
<1>3. /\ Task = todo[1] /\ todo[1].do = "stmt" /\ Len(vals) \in Nat
      /\ AreNodes(vals)
  BY <1>1, HeadIs, HeadShaped, Zenon
<1>4. \A m \in Nat : Yields(todo[1], Len(vals), m) => m <= Len(vals) + 1
  BY <1>3 DEF Yields, Giving, Closing, Handlers
<1>5. ~InExpr(todo[1])
  BY <1>3 DEF InExpr
<1>6. Kind(pos) # "none"
  BY <1>1, HeadIs, Zenon DEF AtToken
<1> DEFINE ts == <<Call("local")>>
<1>7. Step(pos, ts, vals, <<>>)
  BY Zenon DEF ParseDeclStmt, Go, Push, IsOtherStmt
<1>8. Ahead(pos, pos)
  BY <1>2
<1>9. IsSequence(ts) /\ Len(ts) = 1 /\ ts[1] = Call("local")
  BY SequenceOne, Zenon
<1> HIDE DEF ts
<1>10. IsSequence(ts) /\ Len(ts) = 1
  BY <1>9
<1>11. ts[1].do = "local"
  BY <1>9, CallIs, Zenon
<1>12. Listed(ts)
  <2>1. Fine(ts[1])
    BY <1>11 DEF Fine, TaskIs, Tasks, Handlers
  <2> QED
    BY <1>10, <2>1, SequenceElim DEF Listed
<1>13. Begins(ts[1], pos)
  BY <1>6, <1>11, Zenon DEF Begins
<1>14. Job(ts[1], pos, Len(vals), Len(vals) + 1)
  BY <1>2, <1>3, <1>4, <1>11, GivingJob DEF Giving
<1>15. \E g : Jobs(ts, g, Len(vals), pos)
  <2> DEFINE g == [i \in 1 .. 2 |-> IF i <= 1 THEN Len(vals) ELSE Len(vals) + 1]
  <2>1. g[1] = Len(vals) /\ g[2] = Len(vals) + 1
    OBVIOUS
  <2> HIDE DEF g
  <2>2. \A i \in 1 .. 2 : g[i] \in Nat
    BY <1>2, <1>3, <1>4, <2>1
  <2>3. \A i \in 1 .. 1 : Reaches(todo[1], g[i])
    BY <1>2, <1>3, <1>4, <2>1 DEF Reaches
  <2>4. \A i \in 1 .. 1 : Job(ts[i], pos, g[i], g[i + 1])
    BY <2>1, <1>14
  <2>5. Len(ts) = 1 /\ Len(ts) + 1 = 2
    BY <1>10
  <2>6. g[1] <= Len(vals) /\ \A m \in Nat : Yields(todo[1], Len(vals), m) => m <= g[2]
    BY <1>2, <1>3, <1>4, <2>1
  <2> QED
    BY <2>2, <2>4, <2>5, <2>6, <2>3, Zenon DEF Jobs
<1>16. Nests(todo[1], ts, vals, pos)
  <2>1. \A i \in 1 .. 1 : ~Joins(ts[i]) /\ ts[i].do \notin Operand
    BY <1>11 DEF Joins, Operand
  <2> QED
    BY <1>5, <1>10, <2>1, CalmNests
<1> QED
  BY <1>1, <1>3, <1>7, <1>8, <1>11, <1>12, <1>13, <1>15, <1>16,
     NothingReported, ListedKeeps DEF Consuming

LEMMA ParseExprStmtKeeps ==
  ASSUME InOrder, Shaped, Nested, ParseExprStmt
  PROVE  InOrder' /\ Shaped' /\ Nested'
<1>1. At("stmt")
  BY Zenon DEF ParseExprStmt, IsOtherStmt
<1>2. tokens \in Texts /\ pos \in Places /\ pos \in Nat /\ Ahead(pos, pos)
  BY <1>1, HeadIs, Zenon
<1>3. /\ Task = todo[1] /\ todo[1].do = "stmt" /\ Len(vals) \in Nat
      /\ AreNodes(vals)
  BY <1>1, HeadIs, HeadShaped, Zenon
<1>4. \A m \in Nat : Yields(todo[1], Len(vals), m) => m <= Len(vals) + 1
  BY <1>3 DEF Yields, Giving, Closing, Handlers
<1>5. ~InExpr(todo[1])
  BY <1>3 DEF InExpr
<1>6. Kind(pos) # "none"
  BY <1>1, HeadIs, Zenon DEF AtToken
<1> DEFINE ts == <<Call("expr"), Expect(";"), MakeFromToken("expr", "", pos, "written")>>
<1>7. Step(pos, ts, vals, <<>>)
  BY Zenon DEF ParseExprStmt, Go, Push, IsOtherStmt, ExprStmtTasks
<1>8. Ahead(pos, pos)
  BY <1>2
<1>9. /\ IsSequence(ts) /\ Len(ts) = 3 /\ ts[1] = Call("expr")
        /\ ts[2] = Expect(";") /\ ts[3] = MakeFromToken("expr", "", pos, "written")
  BY SequenceThree, Zenon
<1> HIDE DEF ts
<1>10. IsSequence(ts) /\ Len(ts) = 3
  BY <1>9
<1>11. ts[1].do = "expr"
  BY <1>9, CallIs, Zenon
<1>12. ts[2].do = "expect" /\ Fine(ts[2])
  BY <1>9, ExpectIs, Zenon
<1>13. /\ ts[3].do = "make" /\ ts[3].first = TokenSpan(pos)
        /\ ts[3].from = Len(vals) /\ ts[3].ends = "written"
  <2>1. Made(ts[3], TokenSpan(pos), Len(vals), "written")
    BY <1>9, MakeFromTokenIs, Zenon
  <2> QED
    BY <2>1 DEF Made
<1>14. Listed(ts)
  <2>1. \A i \in 1 .. 3 : Fine(ts[i])
    BY <1>11, <1>12, <1>13 DEF Fine, TaskIs, Tasks, Handlers
  <2>2. \A i \in 2 .. 3 : (ts[i].do \in AtToken => ts[i - 1].do = "expect") /\ ts[i].do # "block"
    BY <1>11, <1>12, <1>13 DEF AtToken
  <2> QED
    BY <1>10, <2>1, <2>2, SequenceElim DEF Listed
<1>15. Begins(ts[1], pos)
  BY <1>11, BeginsAnywhere DEF AtToken
<1>16. IsSpan(TokenSpan(pos))
  BY <1>2, <1>3, <1>4, <1>6, TokenHere
<1>17. Job(ts[1], pos, Len(vals), Len(vals))
  BY <1>2, <1>3, <1>4, <1>11, GivingJob DEF Giving
<1>18. Job(ts[2], pos, Len(vals), Len(vals))
  BY <1>2, <1>3, <1>4, <1>12, PlainJob DEF Plain
<1>19. Job(ts[3], pos, Len(vals), Len(vals) + 1)
  BY <1>2, <1>3, <1>4, <1>13, <1>16 DEF Job, Carries, Enough, Yields, Giving, Closing, Handlers
<1>20. \E g : Jobs(ts, g, Len(vals), pos)
  <2> DEFINE g == [i \in 1 .. 4 |-> IF i <= 3 THEN Len(vals) ELSE Len(vals) + 1]
  <2>1. /\ g[1] = Len(vals) /\ g[2] = Len(vals) /\ g[3] = Len(vals)
          /\ g[4] = Len(vals) + 1
    OBVIOUS
  <2> HIDE DEF g
  <2>2. \A i \in 1 .. 4 : g[i] \in Nat
    BY <1>2, <1>3, <1>4, <2>1
  <2>3. \A i \in 1 .. 3 : Reaches(todo[1], g[i])
    BY <1>2, <1>3, <1>4, <2>1 DEF Reaches
  <2>4. \A i \in 1 .. 3 : Job(ts[i], pos, g[i], g[i + 1])
    BY <2>1, <1>17, <1>18, <1>19
  <2>5. Len(ts) = 3 /\ Len(ts) + 1 = 4
    BY <1>10
  <2>6. g[1] <= Len(vals) /\ \A m \in Nat : Yields(todo[1], Len(vals), m) => m <= g[4]
    BY <1>2, <1>3, <1>4, <2>1
  <2> QED
    BY <2>2, <2>4, <2>5, <2>6, <2>3, Zenon DEF Jobs
<1>21. Nests(todo[1], ts, vals, pos)
  <2>1. \A i \in 1 .. 3 : ~Joins(ts[i]) /\ ts[i].do \notin Operand
    BY <1>11, <1>12, <1>13 DEF Joins, Operand
  <2> QED
    BY <1>5, <1>10, <2>1, CalmNests
<1> QED
  BY <1>1, <1>3, <1>7, <1>8, <1>11, <1>14, <1>15, <1>20, <1>21,
     NothingReported, ListedKeeps DEF Consuming

LEMMA ParseExprKeeps ==
  ASSUME InOrder, Shaped, Nested, ParseExpr
  PROVE  InOrder' /\ Shaped' /\ Nested'
<1>1. At("expr")
  BY Zenon DEF ParseExpr
<1>2. tokens \in Texts /\ pos \in Places /\ pos \in Nat /\ Ahead(pos, pos)
  BY <1>1, HeadIs, Zenon
<1>3. /\ Task = todo[1] /\ todo[1].do = "expr" /\ Len(vals) \in Nat
      /\ AreNodes(vals)
  BY <1>1, HeadIs, HeadShaped, Zenon
<1>4. \A m \in Nat : Yields(todo[1], Len(vals), m) => m <= Len(vals) + 1
  BY <1>3 DEF Yields, Giving, Closing, Handlers
<1> DEFINE ts == <<Call("assignment"), [do |-> "comma", from |-> Len(vals)]>>
<1>5. Step(pos, ts, vals, <<>>)
  BY Zenon DEF ParseExpr, Go, Push
<1>6. Ahead(pos, pos)
  BY <1>2
<1>7. Through(pos, pos)
  BY <1>2, ThroughNothing
<1>8. /\ IsSequence(ts) /\ Len(ts) = 2 /\ ts[1] = Call("assignment")
        /\ ts[2] = [do |-> "comma", from |-> Len(vals)]
  BY SequenceTwo
<1> HIDE DEF ts
<1>9. IsSequence(ts) /\ Len(ts) = 2
  BY <1>8
<1>10. ts[1].do = "assignment"
  BY <1>8, CallIs, Zenon
<1>11. ts[2].do = "comma" /\ ts[2].from = Len(vals)
  <2>1. /\ [do |-> "comma", from |-> Len(vals)].do = "comma"
          /\ [do |-> "comma", from |-> Len(vals)].from = Len(vals)
    OBVIOUS
  <2> QED
    BY <1>8, <2>1, Zenon
<1>12. Listed(ts)
  <2>1. \A i \in 1 .. 2 : Fine(ts[i])
    BY <1>10, <1>11 DEF Fine, TaskIs, Tasks, Handlers
  <2>2. \A i \in 2 .. 2 : (ts[i].do \in AtToken => ts[i - 1].do = "expect") /\ ts[i].do # "block"
    BY <1>10, <1>11 DEF AtToken
  <2> QED
    BY <1>9, <2>1, <2>2, SequenceElim DEF Listed
<1>13. Begins(ts[1], pos)
  BY <1>10, BeginsAnywhere DEF AtToken
<1>14. Job(ts[1], pos, Len(vals), Len(vals) + 1)
  BY <1>2, <1>3, <1>4, <1>10, GivingJob DEF Giving
<1>15. Job(ts[2], pos, Len(vals) + 1, Len(vals) + 1)
  BY <1>2, <1>3, <1>4, <1>11, ClosingJob
<1>16. \E g : Jobs(ts, g, Len(vals), pos)
  <2> DEFINE g == [i \in 1 .. 3 |-> IF i <= 1 THEN Len(vals) ELSE Len(vals) + 1]
  <2>1. g[1] = Len(vals) /\ g[2] = Len(vals) + 1 /\ g[3] = Len(vals) + 1
    OBVIOUS
  <2> HIDE DEF g
  <2>2. \A i \in 1 .. 3 : g[i] \in Nat
    BY <1>2, <1>3, <1>4, <2>1
  <2>3. \A i \in 1 .. 2 : Reaches(todo[1], g[i])
    BY <1>2, <1>3, <1>4, <2>1 DEF Reaches
  <2>4. \A i \in 1 .. 2 : Job(ts[i], pos, g[i], g[i + 1])
    BY <2>1, <1>14, <1>15
  <2>5. Len(ts) = 2 /\ Len(ts) + 1 = 3
    BY <1>9
  <2>6. g[1] <= Len(vals) /\ \A m \in Nat : Yields(todo[1], Len(vals), m) => m <= g[3]
    BY <1>2, <1>3, <1>4, <2>1
  <2> QED
    BY <2>2, <2>4, <2>5, <2>6, <2>3, Zenon DEF Jobs
<1>17. Expecting(todo[1], pos)
  BY <1>1, <1>6, <1>7, ExpectingIs
<1>18. Held(ts[1], todo[1], pos)
  BY <1>10 DEF Held, InExpr
<1>19. Held(ts[2], todo[1], pos)
  BY <1>3, <1>11 DEF Held, InExpr
<1>20. Nests(todo[1], ts, vals, pos)
  <2>1. \A i \in 1 .. 2 : Held(ts[i], todo[1], pos)
    BY <1>18, <1>19
  <2>2. \A j \in 1 .. 2 : Joins(ts[j]) => \A i \in 1 .. j - 1 : ts[i].do \notin {"make", "comma"}
    BY <1>10, <1>11 DEF Joins
  <2>3. \A i \in 2 .. 2 : ts[i].do \in Operand => LeavesOperand(ts[i - 1])
    BY <1>10, <1>11 DEF Operand, LeavesOperand, Joins
  <2>4. ts[1].do \notin Operand /\ (LeavesOperand(todo[1]) => LeavesOperand(ts[2]))
    BY <1>3, <1>10, <1>11 DEF Operand, LeavesOperand, Joins
  <2>5. Parts(todo[1], ts, pos) /\ ts # <<>>
    BY <1>9, <2>1, <2>2, <2>3, <2>4, SequenceElim DEF Parts
  <2> QED
    BY <1>9, <1>17, <2>5, PartsNest
<1> QED
  BY <1>1, <1>3, <1>5, <1>6, <1>10, <1>12, <1>13, <1>16, <1>20,
     NothingReported, ListedKeeps DEF Consuming

LEMMA ParseAssignmentKeeps ==
  ASSUME InOrder, Shaped, Nested, ParseAssignment
  PROVE  InOrder' /\ Shaped' /\ Nested'
<1>1. At("assignment")
  BY Zenon DEF ParseAssignment
<1>2. tokens \in Texts /\ pos \in Places /\ pos \in Nat /\ Ahead(pos, pos)
  BY <1>1, HeadIs, Zenon
<1>3. /\ Task = todo[1] /\ todo[1].do = "assignment" /\ Len(vals) \in Nat
      /\ AreNodes(vals)
  BY <1>1, HeadIs, HeadShaped, Zenon
<1>4. \A m \in Nat : Yields(todo[1], Len(vals), m) => m <= Len(vals) + 1
  BY <1>3 DEF Yields, Giving, Closing, Handlers
<1> DEFINE ts == <<Call("unary"), Climb(0), Call("ternary"), Call("assign_op")>>
<1>5. Step(pos, ts, vals, <<>>)
  BY Zenon DEF ParseAssignment, Go, Push
<1>6. Ahead(pos, pos)
  BY <1>2
<1>7. Through(pos, pos)
  BY <1>2, ThroughNothing
<1>8. /\ IsSequence(ts) /\ Len(ts) = 4 /\ ts[1] = Call("unary")
        /\ ts[2] = Climb(0) /\ ts[3] = Call("ternary") /\ ts[4] = Call("assign_op")
  BY SequenceFour, Zenon
<1> HIDE DEF ts
<1>9. IsSequence(ts) /\ Len(ts) = 4
  BY <1>8
<1>10. ts[1].do = "unary"
  BY <1>8, CallIs, Zenon
<1>11. ts[2].do = "climb"
  BY <1>8, ClimbIs, Zenon
<1>12. ts[3].do = "ternary"
  BY <1>8, CallIs, Zenon
<1>13. ts[4].do = "assign_op"
  BY <1>8, CallIs, Zenon
<1>14. Listed(ts)
  <2>1. Fine(ts[1]) /\ Fine(ts[2])
    BY <1>10, <1>11 DEF Fine, TaskIs, Tasks, Handlers
  <2>2. Fine(ts[3]) /\ Fine(ts[4])
    BY <1>12, <1>13 DEF Fine, TaskIs, Tasks, Handlers
  <2>3. \A i \in 1 .. 4 : Fine(ts[i])
    BY <2>1, <2>2
  <2>4. \A i \in 2 .. 4 : (ts[i].do \in AtToken => ts[i - 1].do = "expect") /\ ts[i].do # "block"
    BY <1>10, <1>11, <1>12, <1>13 DEF AtToken
  <2> QED
    BY <1>9, <2>3, <2>4, SequenceElim DEF Listed
<1>15. Begins(ts[1], pos)
  BY <1>10, BeginsAnywhere DEF AtToken
<1>16. Job(ts[1], pos, Len(vals), Len(vals) + 1)
  BY <1>2, <1>3, <1>4, <1>10, GivingJob DEF Giving
<1>17. Job(ts[2], pos, Len(vals) + 1, Len(vals) + 1)
  BY <1>2, <1>3, <1>4, <1>11, UsingJob DEF Using
<1>18. Job(ts[3], pos, Len(vals) + 1, Len(vals) + 1)
  BY <1>2, <1>3, <1>4, <1>12, UsingJob DEF Using
<1>19. Job(ts[4], pos, Len(vals) + 1, Len(vals) + 1)
  BY <1>2, <1>3, <1>4, <1>13, UsingJob DEF Using
<1>20. \E g : Jobs(ts, g, Len(vals), pos)
  <2> DEFINE g == [i \in 1 .. 5 |-> IF i <= 1 THEN Len(vals) ELSE Len(vals) + 1]
  <2>1. /\ g[1] = Len(vals) /\ g[2] = Len(vals) + 1 /\ g[3] = Len(vals) + 1
          /\ g[4] = Len(vals) + 1 /\ g[5] = Len(vals) + 1
    OBVIOUS
  <2> HIDE DEF g
  <2>2. \A i \in 1 .. 5 : g[i] \in Nat
    BY <1>2, <1>3, <1>4, <2>1
  <2>3. \A i \in 1 .. 4 : Reaches(todo[1], g[i])
    BY <1>2, <1>3, <1>4, <2>1 DEF Reaches
  <2>4. \A i \in 1 .. 4 : Job(ts[i], pos, g[i], g[i + 1])
    <3>1. /\ Job(ts[1], pos, g[1], g[1 + 1]) /\ Job(ts[2], pos, g[2], g[2 + 1])
          /\ Job(ts[3], pos, g[3], g[3 + 1]) /\ Job(ts[4], pos, g[4], g[4 + 1])
      BY <2>1, <1>16, <1>17, <1>18, <1>19
    <3>2. \A i \in 1 .. 4 : i = 1 \/ i = 2 \/ i = 3 \/ i = 4
      OBVIOUS
    <3> QED
      BY <3>1, <3>2, Zenon
  <2>5. Len(ts) = 4 /\ Len(ts) + 1 = 5
    BY <1>9
  <2>6. g[1] <= Len(vals) /\ \A m \in Nat : Yields(todo[1], Len(vals), m) => m <= g[5]
    BY <1>2, <1>3, <1>4, <2>1
  <2> QED
    BY <2>2, <2>4, <2>5, <2>6, <2>3, Zenon DEF Jobs
<1>21. Expecting(todo[1], pos)
  BY <1>1, <1>6, <1>7, ExpectingIs
<1>22. Held(ts[1], todo[1], pos)
  BY <1>10 DEF Held, InExpr
<1>23. Held(ts[2], todo[1], pos)
  BY <1>11 DEF Held, InExpr
<1>24. Held(ts[3], todo[1], pos)
  BY <1>12 DEF Held, InExpr
<1>25. Held(ts[4], todo[1], pos)
  BY <1>13 DEF Held, InExpr
<1>26. Nests(todo[1], ts, vals, pos)
  <2>1. \A i \in 1 .. 4 : Held(ts[i], todo[1], pos)
    BY <1>22, <1>23, <1>24, <1>25
  <2>2. \A j \in 1 .. 4 : Joins(ts[j]) => \A i \in 1 .. j - 1 : ts[i].do \notin {"make", "comma"}
    BY <1>10, <1>11, <1>12, <1>13 DEF Joins
  <2>3. \A i \in 2 .. 4 : ts[i].do \in Operand => LeavesOperand(ts[i - 1])
    BY <1>10, <1>11, <1>12, <1>13 DEF Operand, LeavesOperand, Joins
  <2>4. ts[1].do \notin Operand /\ (LeavesOperand(todo[1]) => LeavesOperand(ts[4]))
    BY <1>3, <1>10, <1>11, <1>12, <1>13 DEF Operand, LeavesOperand, Joins
  <2>5. Parts(todo[1], ts, pos) /\ ts # <<>>
    BY <1>9, <2>1, <2>2, <2>3, <2>4, SequenceElim DEF Parts
  <2> QED
    BY <1>9, <1>21, <2>5, PartsNest
<1> QED
  BY <1>1, <1>3, <1>5, <1>6, <1>10, <1>14, <1>15, <1>20, <1>26,
     NothingReported, ListedKeeps DEF Consuming

LEMMA ParseTernaryKeeps ==
  ASSUME InOrder, Shaped, Nested, ParseTernary
  PROVE  InOrder' /\ Shaped' /\ Nested'
<1>1. At("ternary")
  BY Zenon DEF ParseTernary
<1>2. tokens \in Texts /\ pos \in Places /\ pos \in Nat /\ Ahead(pos, pos)
  BY <1>1, HeadIs, Zenon
<1>3. /\ Task = todo[1] /\ todo[1].do = "ternary" /\ Len(vals) \in Nat
      /\ AreNodes(vals) /\ 1 <= Len(vals)
  <2>1. Task = todo[1] /\ todo[1].do = "ternary"
    BY <1>1, HeadIs, Zenon
  <2>2. Carries(todo[1], pos) /\ Enough(todo[1], Len(vals)) /\ Len(vals) \in Nat /\ AreNodes(vals)
    BY <1>1, HeadShaped, Zenon
  <2> QED
    BY <2>1, <2>2 DEF Carries, Enough, Handlers
<1>4. \A m \in Nat : Yields(todo[1], Len(vals), m) => m <= Len(vals)
  BY <1>3 DEF Yields, Giving, Closing, Handlers
<1>5. CASE Kind(pos) = "?"
  <2> DEFINE ts == <<Call("expr"), Expect(":"), Call("assignment"), MakeFromTop("ternary", "",
                     "value")>>
  <2>1. Step(pos + 1, ts, vals, <<>>)
    BY <1>5, Zenon DEF ParseTernary, Go, Push
  <2>2. Ahead(pos, pos + 1)
    BY <1>5, <1>2, NextPlace, Zenon
  <2>3. Kind(pos) \notin Ends
    BY <1>5, Zenon DEF Ends, StmtKeywords
  <2>4. Through(pos, pos + 1)
    BY <1>2, <2>3, ThroughOne
  <2>5. /\ IsSequence(ts) /\ Len(ts) = 4 /\ ts[1] = Call("expr")
          /\ ts[2] = Expect(":") /\ ts[3] = Call("assignment")
          /\ ts[4] = MakeFromTop("ternary", "", "value")
    BY SequenceFour, Zenon
  <2> HIDE DEF ts
  <2>6. IsSequence(ts) /\ Len(ts) = 4
    BY <2>5
  <2>7. ts[1].do = "expr"
    BY <2>5, CallIs, Zenon
  <2>8. ts[2].do = "expect" /\ Fine(ts[2])
    BY <2>5, ExpectIs, Zenon
  <2>9. ts[3].do = "assignment"
    BY <2>5, CallIs, Zenon
  <2>10. /\ ts[4].do = "make" /\ ts[4].first = Last(vals).span
          /\ ts[4].from = Len(vals) - 1 /\ ts[4].ends = "value"
    <3>1. Made(ts[4], Last(vals).span, Len(vals) - 1, "value")
      BY <2>5, MakeFromTopIs, Zenon
    <3> QED
      BY <3>1 DEF Made
  <2>11. Listed(ts)
    <3>1. Fine(ts[1]) /\ Fine(ts[2])
      BY <2>7, <2>8 DEF Fine, TaskIs, Tasks, Handlers
    <3>2. Fine(ts[3]) /\ Fine(ts[4])
      BY <2>9, <2>10 DEF Fine, TaskIs, Tasks, Handlers
    <3>3. \A i \in 1 .. 4 : Fine(ts[i])
      BY <3>1, <3>2
    <3>4. \A i \in 2 .. 4 : (ts[i].do \in AtToken => ts[i - 1].do = "expect") /\ ts[i].do # "block"
      BY <2>7, <2>8, <2>9, <2>10 DEF AtToken
    <3> QED
      BY <2>6, <3>3, <3>4, SequenceElim DEF Listed
  <2>12. Begins(ts[1], pos + 1)
    BY <2>7, BeginsAnywhere DEF AtToken
  <2>13. Job(ts[1], pos + 1, Len(vals), Len(vals))
    BY <1>2, <1>3, <1>4, <2>7, GivingJob DEF Giving
  <2>14. Job(ts[2], pos + 1, Len(vals), Len(vals))
    BY <1>2, <1>3, <1>4, <2>8, PlainJob DEF Plain
  <2>15. Job(ts[3], pos + 1, Len(vals), Len(vals))
    BY <1>2, <1>3, <1>4, <2>9, GivingJob DEF Giving
  <2>16. Job(ts[4], pos + 1, Len(vals), Len(vals))
    BY <1>2, <1>3, <1>4, <2>10, TopNode DEF Job, Carries, Enough, Yields, Giving, Closing, Handlers
  <2>17. \E g : Jobs(ts, g, Len(vals), pos + 1)
    <3> DEFINE g == [i \in 1 .. 5 |-> Len(vals)]
    <3>1. /\ g[1] = Len(vals) /\ g[2] = Len(vals) /\ g[3] = Len(vals)
            /\ g[4] = Len(vals) /\ g[5] = Len(vals)
      OBVIOUS
    <3> HIDE DEF g
    <3>2. \A i \in 1 .. 5 : g[i] \in Nat
      BY <1>2, <1>3, <1>4, <3>1
    <3>3. \A i \in 1 .. 4 : Reaches(todo[1], g[i])
      BY <1>2, <1>3, <1>4, <3>1 DEF Reaches
    <3>4. \A i \in 1 .. 4 : Job(ts[i], pos + 1, g[i], g[i + 1])
      <4>1. /\ Job(ts[1], pos + 1, g[1], g[1 + 1])
            /\ Job(ts[2], pos + 1, g[2], g[2 + 1])
            /\ Job(ts[3], pos + 1, g[3], g[3 + 1])
            /\ Job(ts[4], pos + 1, g[4], g[4 + 1])
        BY <3>1, <2>13, <2>14, <2>15, <2>16
      <4>2. \A i \in 1 .. 4 : i = 1 \/ i = 2 \/ i = 3 \/ i = 4
        OBVIOUS
      <4> QED
        BY <4>1, <4>2, Zenon
    <3>5. Len(ts) = 4 /\ Len(ts) + 1 = 5
      BY <2>6
    <3>6. g[1] <= Len(vals) /\ \A m \in Nat : Yields(todo[1], Len(vals), m) => m <= g[5]
      BY <1>2, <1>3, <1>4, <3>1
    <3> QED
      BY <3>2, <3>4, <3>5, <3>6, <3>3, Zenon DEF Jobs
  <2>18. Expecting(todo[1], pos + 1)
    BY <1>1, <2>2, <2>4, ExpectingIs
  <2>19. Last(vals) = vals[Len(vals)]
    BY <1>3, TopNode
  <2>20. Held(ts[1], todo[1], pos + 1)
    BY <2>7 DEF Held, InExpr
  <2>21. ts[2].k = ":"
    <3>1. ts[2] = Expect(":")
      BY <2>5, Zenon
    <3> QED
      BY <3>1, ExpectIs, Zenon
  <2>22. Held(ts[2], todo[1], pos + 1)
    BY <2>8, <2>21 DEF Held, InExpr
  <2>23. Held(ts[3], todo[1], pos + 1)
    BY <2>9 DEF Held, InExpr
  <2>24. Held(ts[4], todo[1], pos + 1)
    BY <1>2, <1>3, <2>19, <2>10 DEF Held, InExpr, Operand
  <2>25. Nests(todo[1], ts, vals, pos + 1)
    <3>1. \A i \in 1 .. 4 : Held(ts[i], todo[1], pos + 1)
      BY <2>20, <2>22, <2>23, <2>24
    <3>2. \A j \in 1 .. 4 : Joins(ts[j]) => \A i \in 1 .. j - 1 : ts[i].do \notin {"make", "comma"}
      BY <2>7, <2>8, <2>9, <2>10 DEF Joins
    <3>3. \A i \in 2 .. 4 : ts[i].do \in Operand => LeavesOperand(ts[i - 1])
      BY <2>7, <2>8, <2>9, <2>10 DEF Operand, LeavesOperand, Joins
    <3>4. ts[1].do \notin Operand /\ (LeavesOperand(todo[1]) => LeavesOperand(ts[4]))
      BY <1>3, <2>7, <2>8, <2>9, <2>10 DEF Operand, LeavesOperand, Joins
    <3>5. Parts(todo[1], ts, pos + 1) /\ ts # <<>>
      BY <2>6, <3>1, <3>2, <3>3, <3>4, SequenceElim DEF Parts
    <3> QED
      BY <2>6, <2>18, <3>5, PartsNest
  <2> QED
    BY <1>1, <1>3, <2>1, <2>2, <2>7, <2>11, <2>12, <2>17, <2>25,
       NothingReported, ListedKeeps DEF Consuming
<1>6. CASE Kind(pos) # "?"
  <2>1. Step(pos, <<>>, vals, <<>>)
    BY <1>6, Zenon DEF ParseTernary, Go, Push
  <2>2. Ahead(pos, pos)
    BY <1>6, <1>2
  <2>3. Through(pos, pos)
    BY <1>2, ThroughNothing
  <2>4. \A m \in Nat : Yields(todo[1], Len(vals), m) => m <= Len(vals)
    BY <1>6, <1>2, <1>3, <1>4
  <2>5. Expecting(todo[1], pos)
    BY <1>1, <2>2, <2>3, ExpectingIs
  <2>6. Nests(todo[1], <<>>, vals, pos)
    BY <1>3, <2>5, NothingNests DEF Operand, LeavesOperand, Joins
  <2> QED
    BY <1>1, <1>3, <2>1, <2>2, <2>4, <2>6, NothingReported, NothingKeeps DEF Consuming
<1> QED
  BY <1>5, <1>6, Zenon

LEMMA ParseCallArgsKeeps ==
  ASSUME InOrder, Shaped, Nested, ParseCallArgs
  PROVE  InOrder' /\ Shaped' /\ Nested'
<1>1. At("call_args")
  BY Zenon DEF ParseCallArgs
<1>2. tokens \in Texts /\ pos \in Places /\ pos \in Nat /\ Ahead(pos, pos)
  BY <1>1, HeadIs, Zenon
<1>3. /\ Task = todo[1] /\ todo[1].do = "call_args" /\ Len(vals) \in Nat
      /\ AreNodes(vals)
  BY <1>1, HeadIs, HeadShaped, Zenon
<1>4. \A m \in Nat : Yields(todo[1], Len(vals), m) => m <= Len(vals)
  BY <1>3 DEF Yields, Giving, Closing, Handlers
<1> DEFINE ts == <<Call("assignment"), Call("call_more")>>
<1>5. Step(pos, ts, vals, <<>>)
  BY Zenon DEF ParseCallArgs, Go, Push
<1>6. Ahead(pos, pos)
  BY <1>2
<1>7. Through(pos, pos)
  BY <1>2, ThroughNothing
<1>8. /\ IsSequence(ts) /\ Len(ts) = 2 /\ ts[1] = Call("assignment")
        /\ ts[2] = Call("call_more")
  BY SequenceTwo, Zenon
<1> HIDE DEF ts
<1>9. IsSequence(ts) /\ Len(ts) = 2
  BY <1>8
<1>10. ts[1].do = "assignment"
  BY <1>8, CallIs, Zenon
<1>11. ts[2].do = "call_more"
  BY <1>8, CallIs, Zenon
<1>12. Listed(ts)
  <2>1. \A i \in 1 .. 2 : Fine(ts[i])
    BY <1>10, <1>11 DEF Fine, TaskIs, Tasks, Handlers
  <2>2. \A i \in 2 .. 2 : (ts[i].do \in AtToken => ts[i - 1].do = "expect") /\ ts[i].do # "block"
    BY <1>10, <1>11 DEF AtToken
  <2> QED
    BY <1>9, <2>1, <2>2, SequenceElim DEF Listed
<1>13. Begins(ts[1], pos)
  BY <1>10, BeginsAnywhere DEF AtToken
<1>14. Job(ts[1], pos, Len(vals), Len(vals))
  BY <1>2, <1>3, <1>4, <1>10, GivingJob DEF Giving
<1>15. Job(ts[2], pos, Len(vals), Len(vals))
  BY <1>2, <1>3, <1>4, <1>11, PlainJob DEF Plain
<1>16. \E g : Jobs(ts, g, Len(vals), pos)
  <2> DEFINE g == [i \in 1 .. 3 |-> Len(vals)]
  <2>1. g[1] = Len(vals) /\ g[2] = Len(vals) /\ g[3] = Len(vals)
    OBVIOUS
  <2> HIDE DEF g
  <2>2. \A i \in 1 .. 3 : g[i] \in Nat
    BY <1>2, <1>3, <1>4, <2>1
  <2>3. \A i \in 1 .. 2 : Reaches(todo[1], g[i])
    BY <1>2, <1>3, <1>4, <2>1 DEF Reaches
  <2>4. \A i \in 1 .. 2 : Job(ts[i], pos, g[i], g[i + 1])
    BY <2>1, <1>14, <1>15
  <2>5. Len(ts) = 2 /\ Len(ts) + 1 = 3
    BY <1>9
  <2>6. g[1] <= Len(vals) /\ \A m \in Nat : Yields(todo[1], Len(vals), m) => m <= g[3]
    BY <1>2, <1>3, <1>4, <2>1
  <2> QED
    BY <2>2, <2>4, <2>5, <2>6, <2>3, Zenon DEF Jobs
<1>17. Expecting(todo[1], pos)
  BY <1>1, <1>6, <1>7, ExpectingIs
<1>18. Held(ts[1], todo[1], pos)
  BY <1>10 DEF Held, InExpr
<1>19. Held(ts[2], todo[1], pos)
  BY <1>11 DEF Held, InExpr
<1>20. Nests(todo[1], ts, vals, pos)
  <2>1. \A i \in 1 .. 2 : Held(ts[i], todo[1], pos)
    BY <1>18, <1>19
  <2>2. \A j \in 1 .. 2 : Joins(ts[j]) => \A i \in 1 .. j - 1 : ts[i].do \notin {"make", "comma"}
    BY <1>10, <1>11 DEF Joins
  <2>3. \A i \in 2 .. 2 : ts[i].do \in Operand => LeavesOperand(ts[i - 1])
    BY <1>10, <1>11 DEF Operand, LeavesOperand, Joins
  <2>4. ts[1].do \notin Operand /\ (LeavesOperand(todo[1]) => LeavesOperand(ts[2]))
    BY <1>3, <1>10, <1>11 DEF Operand, LeavesOperand, Joins
  <2>5. Parts(todo[1], ts, pos) /\ ts # <<>>
    BY <1>9, <2>1, <2>2, <2>3, <2>4, SequenceElim DEF Parts
  <2> QED
    BY <1>9, <1>17, <2>5, PartsNest
<1> QED
  BY <1>1, <1>3, <1>5, <1>6, <1>10, <1>12, <1>13, <1>16, <1>20,
     NothingReported, ListedKeeps DEF Consuming

LEMMA ParseMoreArgsKeeps ==
  ASSUME InOrder, Shaped, Nested, ParseMoreArgs
  PROVE  InOrder' /\ Shaped' /\ Nested'
<1>1. At("call_more")
  BY Zenon DEF ParseMoreArgs
<1>2. tokens \in Texts /\ pos \in Places /\ pos \in Nat /\ Ahead(pos, pos)
  BY <1>1, HeadIs, Zenon
<1>3. /\ Task = todo[1] /\ todo[1].do = "call_more" /\ Len(vals) \in Nat
      /\ AreNodes(vals)
  BY <1>1, HeadIs, HeadShaped, Zenon
<1>4. \A m \in Nat : Yields(todo[1], Len(vals), m) => m <= Len(vals)
  BY <1>3 DEF Yields, Giving, Closing, Handlers
<1>5. CASE Kind(pos) = ","
  <2> DEFINE ts == <<Call("call_args")>>
  <2>1. Step(pos + 1, ts, vals, <<>>)
    BY <1>5, Zenon DEF ParseMoreArgs, Go, Push
  <2>2. Ahead(pos, pos + 1)
    BY <1>5, <1>2, NextPlace, Zenon
  <2>3. Kind(pos) \notin Ends
    BY <1>5, Zenon DEF Ends, StmtKeywords
  <2>4. Through(pos, pos + 1)
    BY <1>2, <2>3, ThroughOne
  <2>5. IsSequence(ts) /\ Len(ts) = 1 /\ ts[1] = Call("call_args")
    BY SequenceOne, Zenon
  <2> HIDE DEF ts
  <2>6. IsSequence(ts) /\ Len(ts) = 1
    BY <2>5
  <2>7. ts[1].do = "call_args"
    BY <2>5, CallIs, Zenon
  <2>8. Listed(ts)
    <3>1. Fine(ts[1])
      BY <2>7 DEF Fine, TaskIs, Tasks, Handlers
    <3> QED
      BY <2>6, <3>1, SequenceElim DEF Listed
  <2>9. Begins(ts[1], pos + 1)
    BY <2>7, BeginsAnywhere DEF AtToken
  <2>10. Job(ts[1], pos + 1, Len(vals), Len(vals))
    BY <1>2, <1>3, <1>4, <2>7, PlainJob DEF Plain
  <2>11. \E g : Jobs(ts, g, Len(vals), pos + 1)
    <3> DEFINE g == [i \in 1 .. 2 |-> Len(vals)]
    <3>1. g[1] = Len(vals) /\ g[2] = Len(vals)
      OBVIOUS
    <3> HIDE DEF g
    <3>2. \A i \in 1 .. 2 : g[i] \in Nat
      BY <1>2, <1>3, <1>4, <3>1
    <3>3. \A i \in 1 .. 1 : Reaches(todo[1], g[i])
      BY <1>2, <1>3, <1>4, <3>1 DEF Reaches
    <3>4. \A i \in 1 .. 1 : Job(ts[i], pos + 1, g[i], g[i + 1])
      BY <3>1, <2>10
    <3>5. Len(ts) = 1 /\ Len(ts) + 1 = 2
      BY <2>6
    <3>6. g[1] <= Len(vals) /\ \A m \in Nat : Yields(todo[1], Len(vals), m) => m <= g[2]
      BY <1>2, <1>3, <1>4, <3>1
    <3> QED
      BY <3>2, <3>4, <3>5, <3>6, <3>3, Zenon DEF Jobs
  <2>12. Expecting(todo[1], pos + 1)
    BY <1>1, <2>2, <2>4, ExpectingIs
  <2>13. Held(ts[1], todo[1], pos + 1)
    BY <2>7 DEF Held, InExpr
  <2>14. Nests(todo[1], ts, vals, pos + 1)
    <3>1. \A i \in 1 .. 1 : Held(ts[i], todo[1], pos + 1)
      BY <2>13
    <3>2. \A j \in 1 .. 1 : Joins(ts[j]) => \A i \in 1 .. j - 1 : ts[i].do \notin {"make", "comma"}
      BY <2>7 DEF Joins
    <3>3. \A i \in 2 .. 1 : ts[i].do \in Operand => LeavesOperand(ts[i - 1])
      BY <2>7 DEF Operand, LeavesOperand, Joins
    <3>4. ts[1].do \notin Operand /\ (LeavesOperand(todo[1]) => LeavesOperand(ts[1]))
      BY <1>3, <2>7 DEF Operand, LeavesOperand, Joins
    <3>5. Parts(todo[1], ts, pos + 1) /\ ts # <<>>
      BY <2>6, <3>1, <3>2, <3>3, <3>4, SequenceElim DEF Parts
    <3> QED
      BY <2>6, <2>12, <3>5, PartsNest
  <2> QED
    BY <1>1, <1>3, <2>1, <2>2, <2>7, <2>8, <2>9, <2>11, <2>14,
       NothingReported, ListedKeeps DEF Consuming
<1>6. CASE Kind(pos) # ","
  <2>1. Step(pos, <<>>, vals, <<>>)
    BY <1>6, Zenon DEF ParseMoreArgs, Go, Push
  <2>2. Ahead(pos, pos)
    BY <1>6, <1>2
  <2>3. Through(pos, pos)
    BY <1>2, ThroughNothing
  <2>4. \A m \in Nat : Yields(todo[1], Len(vals), m) => m <= Len(vals)
    BY <1>6, <1>2, <1>3, <1>4
  <2>5. Expecting(todo[1], pos)
    BY <1>1, <2>2, <2>3, ExpectingIs
  <2>6. Nests(todo[1], <<>>, vals, pos)
    BY <1>3, <2>5, NothingNests DEF Operand, LeavesOperand, Joins
  <2> QED
    BY <1>1, <1>3, <2>1, <2>2, <2>4, <2>6, NothingReported, NothingKeeps DEF Consuming
<1> QED
  BY <1>5, <1>6, Zenon

LEMMA ParseLeafKeeps ==
  ASSUME InOrder, Shaped, Nested, ParseLeaf
  PROVE  InOrder' /\ Shaped' /\ Nested'
<1>1. At("primary")
  BY Zenon DEF ParseLeaf
<1>2. tokens \in Texts /\ pos \in Places /\ pos \in Nat /\ Ahead(pos, pos)
  BY <1>1, HeadIs, Zenon
<1>3. /\ Task = todo[1] /\ todo[1].do = "primary" /\ Len(vals) \in Nat
      /\ AreNodes(vals)
  BY <1>1, HeadIs, HeadShaped, Zenon
<1>4. \A m \in Nat : Yields(todo[1], Len(vals), m) => m <= Len(vals) + 1
  BY <1>3 DEF Yields, Giving, Closing, Handlers
<1>5. Kind(pos) # "none"
  BY DEF ParseLeaf, Leaves
<1>6. /\ IsNode(N(Kind(pos), Text(pos), <<>>, NoType, TokenSpan(pos)))
      /\ N(Kind(pos), Text(pos), <<>>, NoType, TokenSpan(pos)).span.lo = pos
  BY <1>2, <1>3, <1>4, <1>5, TokenHere, NodeIs DEF TokenSpan
<1>7. PICK n : Step(pos + 1, <<>>, Append(vals, n), <<>>) /\ IsNode(n) /\ n.span.lo = pos
  BY <1>6, Zenon DEF ParseLeaf, Go, Push
<1>8. Ahead(pos, pos + 1) /\ pos + 1 # pos
  BY <1>2, <1>5, NextPlace
<1>9. Kind(pos) \notin Ends
  BY LeavesGoOn DEF ParseLeaf
<1>10. Through(pos, pos + 1)
  BY <1>2, <1>9, ThroughOne
<1>11. AreNodes(Append(vals, n)) /\ Len(Append(vals, n)) = Len(vals) + 1
        /\ Append(vals, n)[Len(vals) + 1] = n /\ \A v \in 1 .. Len(vals) : Append(vals, n)[v] = vals[v]
  BY <1>3, <1>7, NodesGrow
<1>12. \A m \in Nat : Yields(todo[1], Len(vals), m) => m <= Len(Append(vals, n))
  BY <1>2, <1>3, <1>4, <1>11
<1>13. Expecting(todo[1], pos + 1)
  BY <1>1, <1>8, <1>10, ExpectingIs
<1>14. Nests(todo[1], <<>>, Append(vals, n), pos + 1)
  <2> DEFINE vs == Append(vals, n)
  <2>1. /\ Len(vs) = Len(vals) + 1 /\ vs[Len(vals) + 1].span.lo = pos /\ pos < pos + 1
        /\ \A v \in 1 .. Len(vals) : vs[v] = vals[v]
    BY <1>2, <1>7, <1>11
  <2> HIDE DEF vs
  <2>2. Nests(todo[1], <<>>, vs, pos + 1)
    BY <1>13, <2>1, LeafNests
  <2> QED
    BY <2>2 DEF vs
<1> QED
  BY <1>1, <1>3, <1>11, <1>7, <1>8, <1>12, <1>14, NothingReported, NothingKeeps DEF Consuming

LEMMA ParseParenKeeps ==
  ASSUME InOrder, Shaped, Nested, ParseParen
  PROVE  InOrder' /\ Shaped' /\ Nested'
<1>1. At("primary")
  BY Zenon DEF ParseParen
<1>2. /\ tokens \in Texts /\ pos \in Places /\ pos \in Nat /\ Ahead(pos, pos)
      /\ pos # 0
  BY <1>1, HeadIs, Zenon
<1>3. /\ Task = todo[1] /\ todo[1].do = "primary" /\ Len(vals) \in Nat
      /\ AreNodes(vals)
  BY <1>1, HeadIs, HeadShaped, Zenon
<1>4. \A m \in Nat : Yields(todo[1], Len(vals), m) => m <= Len(vals) + 1
  BY <1>3 DEF Yields, Giving, Closing, Handlers
<1>5. Kind(pos) # "none"
  BY Zenon DEF ParseParen
<1> DEFINE ts == <<Call("expr"), Expect(")"), MakeFromToken("paren", "", pos, "token")>>
<1>6. Step(pos + 1, ts, vals, <<>>)
  BY Zenon DEF ParseParen, Go, Push
<1>7. Ahead(pos, pos + 1)
  BY <1>2, <1>5, NextPlace
<1>8. Kind(pos) \notin Ends
  BY Zenon DEF ParseParen, Ends, StmtKeywords
<1>9. Through(pos, pos + 1)
  BY <1>2, <1>8, ThroughOne
<1>10. /\ IsSequence(ts) /\ Len(ts) = 3 /\ ts[1] = Call("expr")
        /\ ts[2] = Expect(")") /\ ts[3] = MakeFromToken("paren", "", pos, "token")
  BY SequenceThree, Zenon
<1> HIDE DEF ts
<1>11. IsSequence(ts) /\ Len(ts) = 3
  BY <1>10
<1>12. ts[1].do = "expr"
  BY <1>10, CallIs, Zenon
<1>13. ts[2].do = "expect" /\ Fine(ts[2])
  BY <1>10, ExpectIs, Zenon
<1>14. /\ ts[3].do = "make" /\ ts[3].first = TokenSpan(pos)
        /\ ts[3].from = Len(vals) /\ ts[3].ends = "token"
  <2>1. Made(ts[3], TokenSpan(pos), Len(vals), "token")
    BY <1>10, MakeFromTokenIs, Zenon
  <2> QED
    BY <2>1 DEF Made
<1>15. Listed(ts)
  <2>1. \A i \in 1 .. 3 : Fine(ts[i])
    BY <1>12, <1>13, <1>14 DEF Fine, TaskIs, Tasks, Handlers
  <2>2. \A i \in 2 .. 3 : (ts[i].do \in AtToken => ts[i - 1].do = "expect") /\ ts[i].do # "block"
    BY <1>12, <1>13, <1>14 DEF AtToken
  <2> QED
    BY <1>11, <2>1, <2>2, SequenceElim DEF Listed
<1>16. Begins(ts[1], pos + 1)
  BY <1>12, BeginsAnywhere DEF AtToken
<1>17. IsSpan(TokenSpan(pos))
  BY <1>2, <1>3, <1>4, <1>5, TokenHere
<1>18. Job(ts[1], pos + 1, Len(vals), Len(vals))
  BY <1>2, <1>3, <1>4, <1>12, GivingJob DEF Giving
<1>19. Job(ts[2], pos + 1, Len(vals), Len(vals))
  BY <1>2, <1>3, <1>4, <1>13, PlainJob DEF Plain
<1>20. Job(ts[3], pos + 1, Len(vals), Len(vals) + 1)
  BY <1>2, <1>3, <1>4, <1>14, <1>17 DEF Job, Carries, Enough, Yields, Giving, Closing, Handlers
<1>21. \E g : Jobs(ts, g, Len(vals), pos + 1)
  <2> DEFINE g == [i \in 1 .. 4 |-> IF i <= 3 THEN Len(vals) ELSE Len(vals) + 1]
  <2>1. /\ g[1] = Len(vals) /\ g[2] = Len(vals) /\ g[3] = Len(vals)
          /\ g[4] = Len(vals) + 1
    OBVIOUS
  <2> HIDE DEF g
  <2>2. \A i \in 1 .. 4 : g[i] \in Nat
    BY <1>2, <1>3, <1>4, <2>1
  <2>3. \A i \in 1 .. 3 : Reaches(todo[1], g[i])
    BY <1>2, <1>3, <1>4, <2>1 DEF Reaches
  <2>4. \A i \in 1 .. 3 : Job(ts[i], pos + 1, g[i], g[i + 1])
    BY <2>1, <1>18, <1>19, <1>20
  <2>5. Len(ts) = 3 /\ Len(ts) + 1 = 4
    BY <1>11
  <2>6. g[1] <= Len(vals) /\ \A m \in Nat : Yields(todo[1], Len(vals), m) => m <= g[4]
    BY <1>2, <1>3, <1>4, <2>1
  <2> QED
    BY <2>2, <2>4, <2>5, <2>6, <2>3, Zenon DEF Jobs
<1>22. Expecting(todo[1], pos + 1)
  BY <1>1, <1>7, <1>9, ExpectingIs
<1>23. Held(ts[1], todo[1], pos + 1)
  BY <1>12 DEF Held, InExpr
<1>24. ts[2].k = ")"
  <2>1. ts[2] = Expect(")")
    BY <1>10, Zenon
  <2> QED
    BY <2>1, ExpectIs, Zenon
<1>25. Held(ts[2], todo[1], pos + 1)
  BY <1>13, <1>24 DEF Held, InExpr
<1>26. Held(ts[3], todo[1], pos + 1)
  BY <1>2, <1>3, <1>14 DEF Held, InExpr, TokenSpan
<1>27. Nests(todo[1], ts, vals, pos + 1)
  <2>1. \A i \in 1 .. 3 : Held(ts[i], todo[1], pos + 1)
    BY <1>23, <1>25, <1>26
  <2>2. \A j \in 1 .. 3 : Joins(ts[j]) => \A i \in 1 .. j - 1 : ts[i].do \notin {"make", "comma"}
    BY <1>12, <1>13, <1>14 DEF Joins
  <2>3. \A i \in 2 .. 3 : ts[i].do \in Operand => LeavesOperand(ts[i - 1])
    BY <1>12, <1>13, <1>14 DEF Operand, LeavesOperand, Joins
  <2>4. ts[1].do \notin Operand /\ (LeavesOperand(todo[1]) => LeavesOperand(ts[3]))
    BY <1>3, <1>12, <1>13, <1>14 DEF Operand, LeavesOperand, Joins
  <2>5. Parts(todo[1], ts, pos + 1) /\ ts # <<>>
    BY <1>11, <2>1, <2>2, <2>3, <2>4, SequenceElim DEF Parts
  <2> QED
    BY <1>11, <1>22, <2>5, PartsNest
<1> QED
  BY <1>1, <1>3, <1>6, <1>7, <1>12, <1>15, <1>16, <1>21, <1>27,
     NothingReported, ListedKeeps DEF Consuming

LEMMA ExpectedExprKeeps ==
  ASSUME InOrder, Shaped, Nested, ExpectedExpr
  PROVE  InOrder' /\ Shaped' /\ Nested'
<1>1. At("primary")
  BY Zenon DEF ExpectedExpr
<1>2. tokens \in Texts /\ pos \in Places /\ pos \in Nat /\ Ahead(pos, pos)
  BY <1>1, HeadIs, Zenon
<1>3. /\ Task = todo[1] /\ todo[1].do = "primary" /\ Len(vals) \in Nat
      /\ AreNodes(vals)
  BY <1>1, HeadIs, HeadShaped, Zenon
<1>4. \A m \in Nat : Yields(todo[1], Len(vals), m) => m <= Len(vals) + 1
  BY <1>3 DEF Yields, Giving, Closing, Handlers
<1>5. AreReports(Error("E0303", pos))
  BY <1>2, ErrorIs
<1>6. PICK es : Fail(pos, es) /\ AreReports(es)
  BY <1>5, Zenon DEF ExpectedExpr, Go, Push
<1>7. Ahead(pos, pos)
  BY <1>2
<1> QED
  BY <1>1, <1>6, <1>7, NothingReported, FailKeeps DEF Rounds

LEMMA ParseCommaKeeps ==
  ASSUME InOrder, Shaped, Nested, ParseComma
  PROVE  InOrder' /\ Shaped' /\ Nested'
<1>1. At("comma")
  BY Zenon DEF ParseComma
<1>2. /\ tokens \in Texts /\ pos \in Places /\ pos \in Nat /\ Ahead(pos, pos)
      /\ Task.do = "comma"
  BY <1>1, HeadIs, Zenon
<1>3. /\ Task = todo[1] /\ todo[1].do = "comma" /\ Len(vals) \in Nat
      /\ AreNodes(vals) /\ Task.from \in Nat /\ Task.from + 1 <= Len(vals)
  <2>1. Task = todo[1] /\ todo[1].do = "comma"
    BY <1>1, HeadIs, Zenon
  <2>2. Carries(todo[1], pos) /\ Enough(todo[1], Len(vals)) /\ Len(vals) \in Nat /\ AreNodes(vals)
    BY <1>1, HeadShaped, Zenon
  <2> QED
    BY <2>1, <2>2 DEF Carries, Enough, Handlers
<1>4. \A m \in Nat : Yields(todo[1], Len(vals), m) => m <= Task.from + 1
  BY <1>3 DEF Yields, Giving, Closing, Handlers
<1>5. CASE Kind(pos) = ","
  <2> DEFINE ts == <<Call("assignment"), Task>>
  <2>1. Step(pos + 1, ts, vals, <<>>)
    BY <1>5, Zenon DEF ParseComma, Go, Push
  <2>2. Ahead(pos, pos + 1)
    BY <1>5, <1>2, NextPlace, Zenon
  <2>3. Kind(pos) \notin Ends
    BY <1>5, Zenon DEF Ends, StmtKeywords
  <2>4. Through(pos, pos + 1)
    BY <1>2, <2>3, ThroughOne
  <2>5. /\ IsSequence(ts) /\ Len(ts) = 2 /\ ts[1] = Call("assignment")
          /\ ts[2] = Task
    BY SequenceTwo, Zenon
  <2> HIDE DEF ts
  <2>6. IsSequence(ts) /\ Len(ts) = 2
    BY <2>5
  <2>7. ts[1].do = "assignment"
    BY <2>5, CallIs, Zenon
  <2>8. ts[2].do = "comma" /\ ts[2].from = Task.from
    <3>1. Task.do = "comma" /\ Task.from = Task.from
      BY <1>2
    <3> QED
      BY <2>5, <3>1, Zenon
  <2>9. Listed(ts)
    <3>1. \A i \in 1 .. 2 : Fine(ts[i])
      BY <2>7, <2>8 DEF Fine, TaskIs, Tasks, Handlers
    <3>2. \A i \in 2 .. 2 : (ts[i].do \in AtToken => ts[i - 1].do = "expect") /\ ts[i].do # "block"
      BY <2>7, <2>8 DEF AtToken
    <3> QED
      BY <2>6, <3>1, <3>2, SequenceElim DEF Listed
  <2>10. Begins(ts[1], pos + 1)
    BY <2>7, BeginsAnywhere DEF AtToken
  <2>11. Job(ts[1], pos + 1, Len(vals), Len(vals))
    BY <1>2, <1>3, <1>4, <2>7, GivingJob DEF Giving
  <2>12. Job(ts[2], pos + 1, Len(vals), Task.from + 1)
    BY <1>2, <1>3, <1>4, <2>8, ClosingJob
  <2>13. \E g : Jobs(ts, g, Len(vals), pos + 1)
    <3> DEFINE g == [i \in 1 .. 3 |-> IF i <= 2 THEN Len(vals) ELSE Task.from + 1]
    <3>1. g[1] = Len(vals) /\ g[2] = Len(vals) /\ g[3] = Task.from + 1
      OBVIOUS
    <3> HIDE DEF g
    <3>2. \A i \in 1 .. 3 : g[i] \in Nat
      BY <1>2, <1>3, <1>4, <3>1
    <3>3. \A i \in 1 .. 2 : Reaches(todo[1], g[i])
      BY <1>2, <1>3, <1>4, <3>1 DEF Reaches
    <3>4. \A i \in 1 .. 2 : Job(ts[i], pos + 1, g[i], g[i + 1])
      BY <3>1, <2>11, <2>12
    <3>5. Len(ts) = 2 /\ Len(ts) + 1 = 3
      BY <2>6
    <3>6. g[1] <= Len(vals) /\ \A m \in Nat : Yields(todo[1], Len(vals), m) => m <= g[3]
      BY <1>2, <1>3, <1>4, <3>1
    <3> QED
      BY <3>2, <3>4, <3>5, <3>6, <3>3, Zenon DEF Jobs
  <2>14. Expecting(todo[1], pos + 1)
    BY <1>1, <2>2, <2>4, ExpectingIs
  <2>15. Held(ts[1], todo[1], pos + 1)
    BY <2>7 DEF Held, InExpr
  <2>16. Held(ts[2], todo[1], pos + 1)
    BY <1>3, <2>8 DEF Held, InExpr
  <2>17. Nests(todo[1], ts, vals, pos + 1)
    <3>1. \A i \in 1 .. 2 : Held(ts[i], todo[1], pos + 1)
      BY <2>15, <2>16
    <3>2. \A j \in 1 .. 2 : Joins(ts[j]) => \A i \in 1 .. j - 1 : ts[i].do \notin {"make", "comma"}
      BY <2>7, <2>8 DEF Joins
    <3>3. \A i \in 2 .. 2 : ts[i].do \in Operand => LeavesOperand(ts[i - 1])
      BY <2>7, <2>8 DEF Operand, LeavesOperand, Joins
    <3>4. ts[1].do \notin Operand /\ (LeavesOperand(todo[1]) => LeavesOperand(ts[2]))
      BY <1>3, <2>7, <2>8 DEF Operand, LeavesOperand, Joins
    <3>5. Parts(todo[1], ts, pos + 1) /\ ts # <<>>
      BY <2>6, <3>1, <3>2, <3>3, <3>4, SequenceElim DEF Parts
    <3> QED
      BY <2>6, <2>14, <3>5, PartsNest
  <2> QED
    BY <1>1, <1>3, <2>1, <2>2, <2>7, <2>9, <2>10, <2>13, <2>17,
       NothingReported, ListedKeeps DEF Consuming
<1>6. CASE Kind(pos) # "," /\ Len(vals) = Task.from + 1
  <2>1. Step(pos, <<>>, vals, <<>>)
    BY <1>6, Zenon DEF ParseComma, Go, Push
  <2>2. Ahead(pos, pos)
    BY <1>6, <1>2
  <2>3. Through(pos, pos)
    BY <1>2, ThroughNothing
  <2>4. \A m \in Nat : Yields(todo[1], Len(vals), m) => m <= Len(vals)
    BY <1>6, <1>2, <1>3, <1>4
  <2>5. Expecting(todo[1], pos)
    BY <1>1, <2>2, <2>3, ExpectingIs
  <2>6. Nests(todo[1], <<>>, vals, pos)
    BY <1>3, <2>5, NothingNests DEF Operand, LeavesOperand, Joins
  <2> QED
    BY <1>1, <1>3, <2>1, <2>2, <2>4, <2>6, NothingReported, NothingKeeps DEF Consuming
<1>7. CASE Kind(pos) # "," /\ Len(vals) # Task.from + 1
  <2>1. IsSpan(vals[Task.from + 1].span)
    <3>1. Task.from + 1 \in 1 .. Len(vals)
      BY <1>3
    <3> QED
      BY <1>3, <3>1, NodeAt
  <2> DEFINE ts == <<Make("comma", "", NoType, vals[Task.from + 1].span, Task.from, "written")>>
  <2>2. Step(pos, ts, vals, <<>>)
    BY <1>7, Zenon DEF ParseComma, Go, Push
  <2>3. Ahead(pos, pos)
    BY <1>7, <1>2
  <2>4. Through(pos, pos)
    BY <1>2, ThroughNothing
  <2>5. /\ IsSequence(ts) /\ Len(ts) = 1
          /\ ts[1] = Make("comma", "", NoType, vals[Task.from + 1].span, Task.from, "written")
    BY SequenceOne, Zenon
  <2> HIDE DEF ts
  <2>6. IsSequence(ts) /\ Len(ts) = 1
    BY <2>5
  <2>7. /\ ts[1].do = "make" /\ ts[1].first = vals[Task.from + 1].span
          /\ ts[1].from = Task.from /\ ts[1].ends = "written" /\ ts[1].k = "comma"
    <3>1. ts[1] = Make("comma", "", NoType, vals[Task.from + 1].span, Task.from, "written")
      BY <2>5, Zenon
    <3>2. /\ Make("comma", "", NoType, vals[Task.from + 1].span, Task.from, "written").do = "make"
            /\ Make("comma", "", NoType, vals[Task.from + 1].span, Task.from, "written").first = vals[Task.from + 1].span
            /\ Make("comma", "", NoType, vals[Task.from + 1].span, Task.from, "written").from = Task.from
            /\ Make("comma", "", NoType, vals[Task.from + 1].span, Task.from, "written").ends = "written"
            /\ Make("comma", "", NoType, vals[Task.from + 1].span, Task.from, "written").k = "comma"
      BY DEF Make
    <3> QED
      BY <3>1, <3>2, Zenon
  <2>8. Listed(ts)
    <3>1. Fine(ts[1])
      BY <2>7 DEF Fine, TaskIs, Tasks, Handlers
    <3> QED
      BY <2>6, <3>1, SequenceElim DEF Listed
  <2>9. Begins(ts[1], pos)
    BY <2>7, BeginsAnywhere DEF AtToken
  <2>10. Job(ts[1], pos, Len(vals), Task.from + 1)
    BY <1>2, <1>3, <1>4, <2>7, <2>1 DEF Job, Carries, Enough, Yields, Giving, Closing, Handlers
  <2>11. \E g : Jobs(ts, g, Len(vals), pos)
    <3> DEFINE g == [i \in 1 .. 2 |-> IF i <= 1 THEN Len(vals) ELSE Task.from + 1]
    <3>1. g[1] = Len(vals) /\ g[2] = Task.from + 1
      OBVIOUS
    <3> HIDE DEF g
    <3>2. \A i \in 1 .. 2 : g[i] \in Nat
      BY <1>2, <1>3, <1>4, <3>1
    <3>3. \A i \in 1 .. 1 : Reaches(todo[1], g[i])
      BY <1>2, <1>3, <1>4, <3>1 DEF Reaches
    <3>4. \A i \in 1 .. 1 : Job(ts[i], pos, g[i], g[i + 1])
      BY <3>1, <2>10
    <3>5. Len(ts) = 1 /\ Len(ts) + 1 = 2
      BY <2>6
    <3>6. g[1] <= Len(vals) /\ \A m \in Nat : Yields(todo[1], Len(vals), m) => m <= g[2]
      BY <1>2, <1>3, <1>4, <3>1
    <3> QED
      BY <3>2, <3>4, <3>5, <3>6, <3>3, Zenon DEF Jobs
  <2>12. Expecting(todo[1], pos)
    BY <1>1, <2>3, <2>4, ExpectingIs
  <2>13. Held(ts[1], todo[1], pos)
    BY <1>3, <2>7 DEF Held, InExpr, Joins
  <2>14. Nests(todo[1], ts, vals, pos)
    <3>1. \A i \in 1 .. 1 : Held(ts[i], todo[1], pos)
      BY <2>13
    <3>2. \A j \in 1 .. 1 : Joins(ts[j]) => \A i \in 1 .. j - 1 : ts[i].do \notin {"make", "comma"}
      BY <2>7 DEF Joins
    <3>3. \A i \in 2 .. 1 : ts[i].do \in Operand => LeavesOperand(ts[i - 1])
      BY <2>7 DEF Operand, LeavesOperand, Joins
    <3>4. ts[1].do \notin Operand /\ (LeavesOperand(todo[1]) => LeavesOperand(ts[1]))
      BY <1>3, <2>7 DEF Operand, LeavesOperand, Joins
    <3>5. Parts(todo[1], ts, pos) /\ ts # <<>>
      BY <2>6, <3>1, <3>2, <3>3, <3>4, SequenceElim DEF Parts
    <3> QED
      BY <2>6, <2>12, <3>5, PartsNest
  <2> QED
    BY <1>1, <1>3, <2>2, <2>3, <2>7, <2>8, <2>9, <2>11, <2>14,
       NothingReported, ListedKeeps DEF Consuming
<1> QED
  BY <1>5, <1>6, <1>7, Zenon

LEMMA ParseAssignOpKeeps ==
  ASSUME InOrder, Shaped, Nested, ParseAssignOp
  PROVE  InOrder' /\ Shaped' /\ Nested'
<1>1. At("assign_op")
  BY Zenon DEF ParseAssignOp
<1>2. tokens \in Texts /\ pos \in Places /\ pos \in Nat /\ Ahead(pos, pos)
  BY <1>1, HeadIs, Zenon
<1>3. /\ Task = todo[1] /\ todo[1].do = "assign_op" /\ Len(vals) \in Nat
      /\ AreNodes(vals) /\ 1 <= Len(vals)
  <2>1. Task = todo[1] /\ todo[1].do = "assign_op"
    BY <1>1, HeadIs, Zenon
  <2>2. Carries(todo[1], pos) /\ Enough(todo[1], Len(vals)) /\ Len(vals) \in Nat /\ AreNodes(vals)
    BY <1>1, HeadShaped, Zenon
  <2> QED
    BY <2>1, <2>2 DEF Carries, Enough, Handlers
<1>4. \A m \in Nat : Yields(todo[1], Len(vals), m) => m <= Len(vals)
  BY <1>3 DEF Yields, Giving, Closing, Handlers
<1>5. CASE Kind(pos) = "none"
  <2>1. PICK es : Fail(pos, es) /\ es = <<>>
    BY <1>5, Zenon DEF ParseAssignOp, Go, Push
  <2>2. Ahead(pos, pos)
    BY <1>5, <1>2
  <2> QED
    BY <1>1, <2>1, <2>2, NothingReported, FailKeeps DEF Rounds
<1>6. CASE Kind(pos) # "none" /\ Kind(pos) \in AssignOps
  <2> DEFINE ts == <<Call("assignment"), MakeFromTop("assign", Kind(pos), "value")>>
  <2>1. Step(pos + 1, ts, vals, <<>>)
    BY <1>6, Zenon DEF ParseAssignOp, Go, Push
  <2>2. Ahead(pos, pos + 1)
    BY <1>6, <1>2, NextPlace, Zenon
  <2>3. Kind(pos) \notin Ends
    BY <1>6, AssignmentsGoOn
  <2>4. Through(pos, pos + 1)
    BY <1>2, <2>3, ThroughOne
  <2>5. /\ IsSequence(ts) /\ Len(ts) = 2 /\ ts[1] = Call("assignment")
          /\ ts[2] = MakeFromTop("assign", Kind(pos), "value")
    BY SequenceTwo, Zenon
  <2> HIDE DEF ts
  <2>6. IsSequence(ts) /\ Len(ts) = 2
    BY <2>5
  <2>7. ts[1].do = "assignment"
    BY <2>5, CallIs, Zenon
  <2>8. /\ ts[2].do = "make" /\ ts[2].first = Last(vals).span
          /\ ts[2].from = Len(vals) - 1 /\ ts[2].ends = "value"
    <3>1. Made(ts[2], Last(vals).span, Len(vals) - 1, "value")
      BY <2>5, MakeFromTopIs, Zenon
    <3> QED
      BY <3>1 DEF Made
  <2>9. Listed(ts)
    <3>1. \A i \in 1 .. 2 : Fine(ts[i])
      BY <2>7, <2>8 DEF Fine, TaskIs, Tasks, Handlers
    <3>2. \A i \in 2 .. 2 : (ts[i].do \in AtToken => ts[i - 1].do = "expect") /\ ts[i].do # "block"
      BY <2>7, <2>8 DEF AtToken
    <3> QED
      BY <2>6, <3>1, <3>2, SequenceElim DEF Listed
  <2>10. Begins(ts[1], pos + 1)
    BY <2>7, BeginsAnywhere DEF AtToken
  <2>11. Job(ts[1], pos + 1, Len(vals), Len(vals))
    BY <1>2, <1>3, <1>4, <2>7, GivingJob DEF Giving
  <2>12. Job(ts[2], pos + 1, Len(vals), Len(vals))
    BY <1>2, <1>3, <1>4, <2>8, TopNode DEF Job, Carries, Enough, Yields, Giving, Closing, Handlers
  <2>13. \E g : Jobs(ts, g, Len(vals), pos + 1)
    <3> DEFINE g == [i \in 1 .. 3 |-> Len(vals)]
    <3>1. g[1] = Len(vals) /\ g[2] = Len(vals) /\ g[3] = Len(vals)
      OBVIOUS
    <3> HIDE DEF g
    <3>2. \A i \in 1 .. 3 : g[i] \in Nat
      BY <1>2, <1>3, <1>4, <3>1
    <3>3. \A i \in 1 .. 2 : Reaches(todo[1], g[i])
      BY <1>2, <1>3, <1>4, <3>1 DEF Reaches
    <3>4. \A i \in 1 .. 2 : Job(ts[i], pos + 1, g[i], g[i + 1])
      BY <3>1, <2>11, <2>12
    <3>5. Len(ts) = 2 /\ Len(ts) + 1 = 3
      BY <2>6
    <3>6. g[1] <= Len(vals) /\ \A m \in Nat : Yields(todo[1], Len(vals), m) => m <= g[3]
      BY <1>2, <1>3, <1>4, <3>1
    <3> QED
      BY <3>2, <3>4, <3>5, <3>6, <3>3, Zenon DEF Jobs
  <2>14. Expecting(todo[1], pos + 1)
    BY <1>1, <2>2, <2>4, ExpectingIs
  <2>15. Last(vals) = vals[Len(vals)]
    BY <1>3, TopNode
  <2>16. Held(ts[1], todo[1], pos + 1)
    BY <2>7 DEF Held, InExpr
  <2>17. Held(ts[2], todo[1], pos + 1)
    BY <1>2, <1>3, <2>15, <2>8 DEF Held, InExpr, Operand
  <2>18. Nests(todo[1], ts, vals, pos + 1)
    <3>1. \A i \in 1 .. 2 : Held(ts[i], todo[1], pos + 1)
      BY <2>16, <2>17
    <3>2. \A j \in 1 .. 2 : Joins(ts[j]) => \A i \in 1 .. j - 1 : ts[i].do \notin {"make", "comma"}
      BY <2>7, <2>8 DEF Joins
    <3>3. \A i \in 2 .. 2 : ts[i].do \in Operand => LeavesOperand(ts[i - 1])
      BY <2>7, <2>8 DEF Operand, LeavesOperand, Joins
    <3>4. ts[1].do \notin Operand /\ (LeavesOperand(todo[1]) => LeavesOperand(ts[2]))
      BY <1>3, <2>7, <2>8 DEF Operand, LeavesOperand, Joins
    <3>5. Parts(todo[1], ts, pos + 1) /\ ts # <<>>
      BY <2>6, <3>1, <3>2, <3>3, <3>4, SequenceElim DEF Parts
    <3> QED
      BY <2>6, <2>14, <3>5, PartsNest
  <2> QED
    BY <1>1, <1>3, <2>1, <2>2, <2>7, <2>9, <2>10, <2>13, <2>18,
       NothingReported, ListedKeeps DEF Consuming
<1>7. CASE Kind(pos) # "none" /\ Kind(pos) \notin AssignOps
  <2>1. Step(pos, <<>>, vals, <<>>)
    BY <1>7, Zenon DEF ParseAssignOp, Go, Push
  <2>2. Ahead(pos, pos)
    BY <1>7, <1>2
  <2>3. Through(pos, pos)
    BY <1>2, ThroughNothing
  <2>4. \A m \in Nat : Yields(todo[1], Len(vals), m) => m <= Len(vals)
    BY <1>7, <1>2, <1>3, <1>4
  <2>5. Expecting(todo[1], pos)
    BY <1>1, <2>2, <2>3, ExpectingIs
  <2>6. Nests(todo[1], <<>>, vals, pos)
    BY <1>3, <2>5, NothingNests DEF Operand, LeavesOperand, Joins
  <2> QED
    BY <1>1, <1>3, <2>1, <2>2, <2>4, <2>6, NothingReported, NothingKeeps DEF Consuming
<1> QED
  BY <1>5, <1>6, <1>7, Zenon

LEMMA ParseBinaryKeeps ==
  ASSUME InOrder, Shaped, Nested, ParseBinary
  PROVE  InOrder' /\ Shaped' /\ Nested'
<1>1. At("climb")
  BY Zenon DEF ParseBinary
<1>2. /\ tokens \in Texts /\ pos \in Places /\ pos \in Nat /\ Ahead(pos, pos)
      /\ Task.do = "climb"
  BY <1>1, HeadIs, Zenon
<1>3. /\ Task = todo[1] /\ todo[1].do = "climb" /\ Len(vals) \in Nat
      /\ AreNodes(vals) /\ 1 <= Len(vals)
  <2>1. Task = todo[1] /\ todo[1].do = "climb"
    BY <1>1, HeadIs, Zenon
  <2>2. Carries(todo[1], pos) /\ Enough(todo[1], Len(vals)) /\ Len(vals) \in Nat /\ AreNodes(vals)
    BY <1>1, HeadShaped, Zenon
  <2> QED
    BY <2>1, <2>2 DEF Carries, Enough, Handlers
<1>4. \A m \in Nat : Yields(todo[1], Len(vals), m) => m <= Len(vals)
  BY <1>3 DEF Yields, Giving, Closing, Handlers
<1>5. CASE Kind(pos) \in DOMAIN Precedence /\ Precedence[Kind(pos)] >= Task.min
  <2>1. Kind(pos) # "none"
    BY <1>5, OperatorsAreTokens, Zenon
  <2> DEFINE ts == <<Call("unary"), Climb(Precedence[Kind(pos)] + 1), MakeFromTop("binary",
                     Kind(pos), "value"), Task>>
  <2>2. Step(pos + 1, ts, vals, <<>>)
    BY <1>5, Zenon DEF ParseBinary, Go, Push
  <2>3. Ahead(pos, pos + 1)
    BY <1>5, <1>2, <2>1, NextPlace, Zenon
  <2>4. Kind(pos) \notin Ends
    BY <1>5, OperatorsGoOn
  <2>5. Through(pos, pos + 1)
    BY <1>2, <2>4, ThroughOne
  <2>6. /\ IsSequence(ts) /\ Len(ts) = 4 /\ ts[1] = Call("unary")
          /\ ts[2] = Climb(Precedence[Kind(pos)] + 1)
          /\ ts[3] = MakeFromTop("binary", Kind(pos), "value") /\ ts[4] = Task
    BY SequenceFour, Zenon
  <2> HIDE DEF ts
  <2>7. IsSequence(ts) /\ Len(ts) = 4
    BY <2>6
  <2>8. ts[1].do = "unary"
    BY <2>6, CallIs, Zenon
  <2>9. ts[2].do = "climb"
    BY <2>6, ClimbIs, Zenon
  <2>10. /\ ts[3].do = "make" /\ ts[3].first = Last(vals).span
          /\ ts[3].from = Len(vals) - 1 /\ ts[3].ends = "value"
    <3>1. Made(ts[3], Last(vals).span, Len(vals) - 1, "value")
      BY <2>6, MakeFromTopIs, Zenon
    <3> QED
      BY <3>1 DEF Made
  <2>11. ts[4].do = "climb"
    <3>1. Task.do = "climb"
      BY <1>2
    <3> QED
      BY <2>6, <3>1, Zenon
  <2>12. Listed(ts)
    <3>1. Fine(ts[1]) /\ Fine(ts[2])
      BY <2>8, <2>9 DEF Fine, TaskIs, Tasks, Handlers
    <3>2. Fine(ts[3]) /\ Fine(ts[4])
      BY <2>10, <2>11 DEF Fine, TaskIs, Tasks, Handlers
    <3>3. \A i \in 1 .. 4 : Fine(ts[i])
      BY <3>1, <3>2
    <3>4. \A i \in 2 .. 4 : (ts[i].do \in AtToken => ts[i - 1].do = "expect") /\ ts[i].do # "block"
      BY <2>8, <2>9, <2>10, <2>11 DEF AtToken
    <3> QED
      BY <2>7, <3>3, <3>4, SequenceElim DEF Listed
  <2>13. Begins(ts[1], pos + 1)
    BY <2>8, BeginsAnywhere DEF AtToken
  <2>14. Job(ts[1], pos + 1, Len(vals), Len(vals))
    BY <1>2, <1>3, <1>4, <2>8, GivingJob DEF Giving
  <2>15. Job(ts[2], pos + 1, Len(vals), Len(vals))
    BY <1>2, <1>3, <1>4, <2>9, UsingJob DEF Using
  <2>16. Job(ts[3], pos + 1, Len(vals), Len(vals))
    BY <1>2, <1>3, <1>4, <2>10, TopNode DEF Job, Carries, Enough, Yields, Giving, Closing, Handlers
  <2>17. Job(ts[4], pos + 1, Len(vals), Len(vals))
    BY <1>2, <1>3, <1>4, <2>11, UsingJob DEF Using
  <2>18. \E g : Jobs(ts, g, Len(vals), pos + 1)
    <3> DEFINE g == [i \in 1 .. 5 |-> Len(vals)]
    <3>1. /\ g[1] = Len(vals) /\ g[2] = Len(vals) /\ g[3] = Len(vals)
            /\ g[4] = Len(vals) /\ g[5] = Len(vals)
      OBVIOUS
    <3> HIDE DEF g
    <3>2. \A i \in 1 .. 5 : g[i] \in Nat
      BY <1>2, <1>3, <1>4, <3>1
    <3>3. \A i \in 1 .. 4 : Reaches(todo[1], g[i])
      BY <1>2, <1>3, <1>4, <3>1 DEF Reaches
    <3>4. \A i \in 1 .. 4 : Job(ts[i], pos + 1, g[i], g[i + 1])
      <4>1. /\ Job(ts[1], pos + 1, g[1], g[1 + 1])
            /\ Job(ts[2], pos + 1, g[2], g[2 + 1])
            /\ Job(ts[3], pos + 1, g[3], g[3 + 1])
            /\ Job(ts[4], pos + 1, g[4], g[4 + 1])
        BY <3>1, <2>14, <2>15, <2>16, <2>17
      <4>2. \A i \in 1 .. 4 : i = 1 \/ i = 2 \/ i = 3 \/ i = 4
        OBVIOUS
      <4> QED
        BY <4>1, <4>2, Zenon
    <3>5. Len(ts) = 4 /\ Len(ts) + 1 = 5
      BY <2>7
    <3>6. g[1] <= Len(vals) /\ \A m \in Nat : Yields(todo[1], Len(vals), m) => m <= g[5]
      BY <1>2, <1>3, <1>4, <3>1
    <3> QED
      BY <3>2, <3>4, <3>5, <3>6, <3>3, Zenon DEF Jobs
  <2>19. Expecting(todo[1], pos + 1)
    BY <1>1, <2>3, <2>5, ExpectingIs
  <2>20. Last(vals) = vals[Len(vals)]
    BY <1>3, TopNode
  <2>21. Held(ts[1], todo[1], pos + 1)
    BY <2>8 DEF Held, InExpr
  <2>22. Held(ts[2], todo[1], pos + 1)
    BY <2>9 DEF Held, InExpr
  <2>23. Held(ts[3], todo[1], pos + 1)
    BY <1>2, <1>3, <2>20, <2>10 DEF Held, InExpr, Operand
  <2>24. Held(ts[4], todo[1], pos + 1)
    BY <2>11 DEF Held, InExpr
  <2>25. Nests(todo[1], ts, vals, pos + 1)
    <3>1. \A i \in 1 .. 4 : Held(ts[i], todo[1], pos + 1)
      BY <2>21, <2>22, <2>23, <2>24
    <3>2. \A j \in 1 .. 4 : Joins(ts[j]) => \A i \in 1 .. j - 1 : ts[i].do \notin {"make", "comma"}
      BY <2>8, <2>9, <2>10, <2>11 DEF Joins
    <3>3. \A i \in 2 .. 4 : ts[i].do \in Operand => LeavesOperand(ts[i - 1])
      BY <2>8, <2>9, <2>10, <2>11 DEF Operand, LeavesOperand, Joins
    <3>4. ts[1].do \notin Operand /\ (LeavesOperand(todo[1]) => LeavesOperand(ts[4]))
      BY <1>3, <2>8, <2>9, <2>10, <2>11 DEF Operand, LeavesOperand, Joins
    <3>5. Parts(todo[1], ts, pos + 1) /\ ts # <<>>
      BY <2>7, <3>1, <3>2, <3>3, <3>4, SequenceElim DEF Parts
    <3> QED
      BY <2>7, <2>19, <3>5, PartsNest
  <2> QED
    BY <1>1, <1>3, <2>2, <2>3, <2>8, <2>12, <2>13, <2>18, <2>25,
       NothingReported, ListedKeeps DEF Consuming
<1>6. CASE ~ (Kind(pos) \in DOMAIN Precedence /\ Precedence[Kind(pos)] >= Task.min)
  <2>1. Step(pos, <<>>, vals, <<>>)
    BY <1>6, Zenon DEF ParseBinary, Go, Push
  <2>2. Ahead(pos, pos)
    BY <1>6, <1>2
  <2>3. Through(pos, pos)
    BY <1>2, ThroughNothing
  <2>4. \A m \in Nat : Yields(todo[1], Len(vals), m) => m <= Len(vals)
    BY <1>6, <1>2, <1>3, <1>4
  <2>5. Expecting(todo[1], pos)
    BY <1>1, <2>2, <2>3, ExpectingIs
  <2>6. Nests(todo[1], <<>>, vals, pos)
    BY <1>3, <2>5, NothingNests DEF Operand, LeavesOperand, Joins
  <2> QED
    BY <1>1, <1>3, <2>1, <2>2, <2>4, <2>6, NothingReported, NothingKeeps DEF Consuming
<1> QED
  BY <1>5, <1>6, Zenon

LEMMA ParseUnaryKeeps ==
  ASSUME InOrder, Shaped, Nested, ParseUnary
  PROVE  InOrder' /\ Shaped' /\ Nested'
<1>1. At("unary")
  BY Zenon DEF ParseUnary
<1>2. tokens \in Texts /\ pos \in Places /\ pos \in Nat /\ Ahead(pos, pos)
  BY <1>1, HeadIs, Zenon
<1>3. /\ Task = todo[1] /\ todo[1].do = "unary" /\ Len(vals) \in Nat
      /\ AreNodes(vals)
  BY <1>1, HeadIs, HeadShaped, Zenon
<1>4. \A m \in Nat : Yields(todo[1], Len(vals), m) => m <= Len(vals) + 1
  BY <1>3 DEF Yields, Giving, Closing, Handlers
<1>5. CASE Kind(pos) = "none"
  <2>1. PICK es : Fail(pos, es) /\ es = <<>>
    BY <1>5, Zenon DEF ParseUnary, Go, Push
  <2>2. Ahead(pos, pos)
    BY <1>5, <1>2
  <2> QED
    BY <1>1, <2>1, <2>2, NothingReported, FailKeeps DEF Rounds
<1>6. CASE Kind(pos) # "none" /\ Kind(pos) \in DOMAIN UnaryOps
  <2> DEFINE ts == <<Call("unary"), MakeFromToken("unary", UnaryOps[Kind(pos)], pos, "value")>>
  <2>1. Step(pos + 1, ts, vals, <<>>)
    BY <1>6, Zenon DEF ParseUnary, Go, Push
  <2>2. Ahead(pos, pos + 1)
    BY <1>6, <1>2, NextPlace, Zenon
  <2>3. Kind(pos) \notin Ends
    BY <1>6, OperatorsGoOn
  <2>4. Through(pos, pos + 1)
    BY <1>2, <2>3, ThroughOne
  <2>5. /\ IsSequence(ts) /\ Len(ts) = 2 /\ ts[1] = Call("unary")
          /\ ts[2] = MakeFromToken("unary", UnaryOps[Kind(pos)], pos, "value")
    BY SequenceTwo, Zenon
  <2> HIDE DEF ts
  <2>6. IsSequence(ts) /\ Len(ts) = 2
    BY <2>5
  <2>7. ts[1].do = "unary"
    BY <2>5, CallIs, Zenon
  <2>8. /\ ts[2].do = "make" /\ ts[2].first = TokenSpan(pos)
          /\ ts[2].from = Len(vals) /\ ts[2].ends = "value"
    <3>1. Made(ts[2], TokenSpan(pos), Len(vals), "value")
      BY <2>5, MakeFromTokenIs, Zenon
    <3> QED
      BY <3>1 DEF Made
  <2>9. Listed(ts)
    <3>1. \A i \in 1 .. 2 : Fine(ts[i])
      BY <2>7, <2>8 DEF Fine, TaskIs, Tasks, Handlers
    <3>2. \A i \in 2 .. 2 : (ts[i].do \in AtToken => ts[i - 1].do = "expect") /\ ts[i].do # "block"
      BY <2>7, <2>8 DEF AtToken
    <3> QED
      BY <2>6, <3>1, <3>2, SequenceElim DEF Listed
  <2>10. Begins(ts[1], pos + 1)
    BY <2>7, BeginsAnywhere DEF AtToken
  <2>11. IsSpan(TokenSpan(pos))
    BY <1>2, <1>3, <1>4, <1>6, TokenHere
  <2>12. Job(ts[1], pos + 1, Len(vals), Len(vals) + 1)
    BY <1>2, <1>3, <1>4, <2>7, GivingJob DEF Giving
  <2>13. Job(ts[2], pos + 1, Len(vals) + 1, Len(vals) + 1)
    BY <1>2, <1>3, <1>4, <2>8, <2>11 DEF Job, Carries, Enough, Yields, Giving, Closing, Handlers
  <2>14. \E g : Jobs(ts, g, Len(vals), pos + 1)
    <3> DEFINE g == [i \in 1 .. 3 |-> IF i <= 1 THEN Len(vals) ELSE Len(vals) + 1]
    <3>1. g[1] = Len(vals) /\ g[2] = Len(vals) + 1 /\ g[3] = Len(vals) + 1
      OBVIOUS
    <3> HIDE DEF g
    <3>2. \A i \in 1 .. 3 : g[i] \in Nat
      BY <1>2, <1>3, <1>4, <3>1
    <3>3. \A i \in 1 .. 2 : Reaches(todo[1], g[i])
      BY <1>2, <1>3, <1>4, <3>1 DEF Reaches
    <3>4. \A i \in 1 .. 2 : Job(ts[i], pos + 1, g[i], g[i + 1])
      BY <3>1, <2>12, <2>13
    <3>5. Len(ts) = 2 /\ Len(ts) + 1 = 3
      BY <2>6
    <3>6. g[1] <= Len(vals) /\ \A m \in Nat : Yields(todo[1], Len(vals), m) => m <= g[3]
      BY <1>2, <1>3, <1>4, <3>1
    <3> QED
      BY <3>2, <3>4, <3>5, <3>6, <3>3, Zenon DEF Jobs
  <2>15. Expecting(todo[1], pos + 1)
    BY <1>1, <2>2, <2>4, ExpectingIs
  <2>16. Held(ts[1], todo[1], pos + 1)
    BY <2>7 DEF Held, InExpr
  <2>17. Held(ts[2], todo[1], pos + 1)
    BY <1>2, <1>3, <2>8 DEF Held, InExpr, TokenSpan
  <2>18. Nests(todo[1], ts, vals, pos + 1)
    <3>1. \A i \in 1 .. 2 : Held(ts[i], todo[1], pos + 1)
      BY <2>16, <2>17
    <3>2. \A j \in 1 .. 2 : Joins(ts[j]) => \A i \in 1 .. j - 1 : ts[i].do \notin {"make", "comma"}
      BY <2>7, <2>8 DEF Joins
    <3>3. \A i \in 2 .. 2 : ts[i].do \in Operand => LeavesOperand(ts[i - 1])
      BY <2>7, <2>8 DEF Operand, LeavesOperand, Joins
    <3>4. ts[1].do \notin Operand /\ (LeavesOperand(todo[1]) => LeavesOperand(ts[2]))
      BY <1>3, <2>7, <2>8 DEF Operand, LeavesOperand, Joins
    <3>5. Parts(todo[1], ts, pos + 1) /\ ts # <<>>
      BY <2>6, <3>1, <3>2, <3>3, <3>4, SequenceElim DEF Parts
    <3> QED
      BY <2>6, <2>15, <3>5, PartsNest
  <2> QED
    BY <1>1, <1>3, <2>1, <2>2, <2>7, <2>9, <2>10, <2>14, <2>18,
       NothingReported, ListedKeeps DEF Consuming
<1>7. CASE Kind(pos) # "none" /\ Kind(pos) \notin DOMAIN UnaryOps /\ Kind(pos) = "sizeof"
  <2> DEFINE ts == <<Call("unary"), MakeFromToken("sizeof", "", pos, "value")>>
  <2>1. Step(pos + 1, ts, vals, <<>>)
    BY <1>7, Zenon DEF ParseUnary, Go, Push
  <2>2. Ahead(pos, pos + 1)
    BY <1>7, <1>2, NextPlace, Zenon
  <2>3. Kind(pos) \notin Ends
    BY <1>7, Zenon DEF Ends, StmtKeywords
  <2>4. Through(pos, pos + 1)
    BY <1>2, <2>3, ThroughOne
  <2>5. /\ IsSequence(ts) /\ Len(ts) = 2 /\ ts[1] = Call("unary")
          /\ ts[2] = MakeFromToken("sizeof", "", pos, "value")
    BY SequenceTwo, Zenon
  <2> HIDE DEF ts
  <2>6. IsSequence(ts) /\ Len(ts) = 2
    BY <2>5
  <2>7. ts[1].do = "unary"
    BY <2>5, CallIs, Zenon
  <2>8. /\ ts[2].do = "make" /\ ts[2].first = TokenSpan(pos)
          /\ ts[2].from = Len(vals) /\ ts[2].ends = "value"
    <3>1. Made(ts[2], TokenSpan(pos), Len(vals), "value")
      BY <2>5, MakeFromTokenIs, Zenon
    <3> QED
      BY <3>1 DEF Made
  <2>9. Listed(ts)
    <3>1. \A i \in 1 .. 2 : Fine(ts[i])
      BY <2>7, <2>8 DEF Fine, TaskIs, Tasks, Handlers
    <3>2. \A i \in 2 .. 2 : (ts[i].do \in AtToken => ts[i - 1].do = "expect") /\ ts[i].do # "block"
      BY <2>7, <2>8 DEF AtToken
    <3> QED
      BY <2>6, <3>1, <3>2, SequenceElim DEF Listed
  <2>10. Begins(ts[1], pos + 1)
    BY <2>7, BeginsAnywhere DEF AtToken
  <2>11. IsSpan(TokenSpan(pos))
    BY <1>2, <1>3, <1>4, <1>7, TokenHere
  <2>12. Job(ts[1], pos + 1, Len(vals), Len(vals) + 1)
    BY <1>2, <1>3, <1>4, <2>7, GivingJob DEF Giving
  <2>13. Job(ts[2], pos + 1, Len(vals) + 1, Len(vals) + 1)
    BY <1>2, <1>3, <1>4, <2>8, <2>11 DEF Job, Carries, Enough, Yields, Giving, Closing, Handlers
  <2>14. \E g : Jobs(ts, g, Len(vals), pos + 1)
    <3> DEFINE g == [i \in 1 .. 3 |-> IF i <= 1 THEN Len(vals) ELSE Len(vals) + 1]
    <3>1. g[1] = Len(vals) /\ g[2] = Len(vals) + 1 /\ g[3] = Len(vals) + 1
      OBVIOUS
    <3> HIDE DEF g
    <3>2. \A i \in 1 .. 3 : g[i] \in Nat
      BY <1>2, <1>3, <1>4, <3>1
    <3>3. \A i \in 1 .. 2 : Reaches(todo[1], g[i])
      BY <1>2, <1>3, <1>4, <3>1 DEF Reaches
    <3>4. \A i \in 1 .. 2 : Job(ts[i], pos + 1, g[i], g[i + 1])
      BY <3>1, <2>12, <2>13
    <3>5. Len(ts) = 2 /\ Len(ts) + 1 = 3
      BY <2>6
    <3>6. g[1] <= Len(vals) /\ \A m \in Nat : Yields(todo[1], Len(vals), m) => m <= g[3]
      BY <1>2, <1>3, <1>4, <3>1
    <3> QED
      BY <3>2, <3>4, <3>5, <3>6, <3>3, Zenon DEF Jobs
  <2>15. Expecting(todo[1], pos + 1)
    BY <1>1, <2>2, <2>4, ExpectingIs
  <2>16. Held(ts[1], todo[1], pos + 1)
    BY <2>7 DEF Held, InExpr
  <2>17. Held(ts[2], todo[1], pos + 1)
    BY <1>2, <1>3, <2>8 DEF Held, InExpr, TokenSpan
  <2>18. Nests(todo[1], ts, vals, pos + 1)
    <3>1. \A i \in 1 .. 2 : Held(ts[i], todo[1], pos + 1)
      BY <2>16, <2>17
    <3>2. \A j \in 1 .. 2 : Joins(ts[j]) => \A i \in 1 .. j - 1 : ts[i].do \notin {"make", "comma"}
      BY <2>7, <2>8 DEF Joins
    <3>3. \A i \in 2 .. 2 : ts[i].do \in Operand => LeavesOperand(ts[i - 1])
      BY <2>7, <2>8 DEF Operand, LeavesOperand, Joins
    <3>4. ts[1].do \notin Operand /\ (LeavesOperand(todo[1]) => LeavesOperand(ts[2]))
      BY <1>3, <2>7, <2>8 DEF Operand, LeavesOperand, Joins
    <3>5. Parts(todo[1], ts, pos + 1) /\ ts # <<>>
      BY <2>6, <3>1, <3>2, <3>3, <3>4, SequenceElim DEF Parts
    <3> QED
      BY <2>6, <2>15, <3>5, PartsNest
  <2> QED
    BY <1>1, <1>3, <2>1, <2>2, <2>7, <2>9, <2>10, <2>14, <2>18,
       NothingReported, ListedKeeps DEF Consuming
<1>8. CASE Kind(pos) # "none" /\ Kind(pos) \notin DOMAIN UnaryOps /\ Kind(pos) # "sizeof"
  <2> DEFINE ts == <<Call("primary"), Call("postfix")>>
  <2>1. Step(pos, ts, vals, <<>>)
    BY <1>8, Zenon DEF ParseUnary, Go, Push
  <2>2. Ahead(pos, pos)
    BY <1>8, <1>2
  <2>3. Through(pos, pos)
    BY <1>2, ThroughNothing
  <2>4. /\ IsSequence(ts) /\ Len(ts) = 2 /\ ts[1] = Call("primary")
          /\ ts[2] = Call("postfix")
    BY SequenceTwo, Zenon
  <2> HIDE DEF ts
  <2>5. IsSequence(ts) /\ Len(ts) = 2
    BY <2>4
  <2>6. ts[1].do = "primary"
    BY <2>4, CallIs, Zenon
  <2>7. ts[2].do = "postfix"
    BY <2>4, CallIs, Zenon
  <2>8. Listed(ts)
    <3>1. \A i \in 1 .. 2 : Fine(ts[i])
      BY <2>6, <2>7 DEF Fine, TaskIs, Tasks, Handlers
    <3>2. \A i \in 2 .. 2 : (ts[i].do \in AtToken => ts[i - 1].do = "expect") /\ ts[i].do # "block"
      BY <2>6, <2>7 DEF AtToken
    <3> QED
      BY <2>5, <3>1, <3>2, SequenceElim DEF Listed
  <2>9. Begins(ts[1], pos)
    BY <2>6, BeginsAnywhere DEF AtToken
  <2>10. Job(ts[1], pos, Len(vals), Len(vals) + 1)
    BY <1>2, <1>3, <1>4, <2>6, GivingJob DEF Giving
  <2>11. Job(ts[2], pos, Len(vals) + 1, Len(vals) + 1)
    BY <1>2, <1>3, <1>4, <2>7, UsingJob DEF Using
  <2>12. \E g : Jobs(ts, g, Len(vals), pos)
    <3> DEFINE g == [i \in 1 .. 3 |-> IF i <= 1 THEN Len(vals) ELSE Len(vals) + 1]
    <3>1. g[1] = Len(vals) /\ g[2] = Len(vals) + 1 /\ g[3] = Len(vals) + 1
      OBVIOUS
    <3> HIDE DEF g
    <3>2. \A i \in 1 .. 3 : g[i] \in Nat
      BY <1>2, <1>3, <1>4, <3>1
    <3>3. \A i \in 1 .. 2 : Reaches(todo[1], g[i])
      BY <1>2, <1>3, <1>4, <3>1 DEF Reaches
    <3>4. \A i \in 1 .. 2 : Job(ts[i], pos, g[i], g[i + 1])
      BY <3>1, <2>10, <2>11
    <3>5. Len(ts) = 2 /\ Len(ts) + 1 = 3
      BY <2>5
    <3>6. g[1] <= Len(vals) /\ \A m \in Nat : Yields(todo[1], Len(vals), m) => m <= g[3]
      BY <1>2, <1>3, <1>4, <3>1
    <3> QED
      BY <3>2, <3>4, <3>5, <3>6, <3>3, Zenon DEF Jobs
  <2>13. Expecting(todo[1], pos)
    BY <1>1, <2>2, <2>3, ExpectingIs
  <2>14. Held(ts[1], todo[1], pos)
    BY <2>6 DEF Held, InExpr
  <2>15. Held(ts[2], todo[1], pos)
    BY <2>7 DEF Held, InExpr
  <2>16. Nests(todo[1], ts, vals, pos)
    <3>1. \A i \in 1 .. 2 : Held(ts[i], todo[1], pos)
      BY <2>14, <2>15
    <3>2. \A j \in 1 .. 2 : Joins(ts[j]) => \A i \in 1 .. j - 1 : ts[i].do \notin {"make", "comma"}
      BY <2>6, <2>7 DEF Joins
    <3>3. \A i \in 2 .. 2 : ts[i].do \in Operand => LeavesOperand(ts[i - 1])
      BY <2>6, <2>7 DEF Operand, LeavesOperand, Joins
    <3>4. ts[1].do \notin Operand /\ (LeavesOperand(todo[1]) => LeavesOperand(ts[2]))
      BY <1>3, <2>6, <2>7 DEF Operand, LeavesOperand, Joins
    <3>5. Parts(todo[1], ts, pos) /\ ts # <<>>
      BY <2>5, <3>1, <3>2, <3>3, <3>4, SequenceElim DEF Parts
    <3> QED
      BY <2>5, <2>13, <3>5, PartsNest
  <2> QED
    BY <1>1, <1>3, <2>1, <2>2, <2>6, <2>8, <2>9, <2>12, <2>16,
       NothingReported, ListedKeeps DEF Consuming
<1> QED
  BY <1>5, <1>6, <1>7, <1>8, Zenon

LEMMA ParsePostfixKeeps ==
  ASSUME InOrder, Shaped, Nested, ParsePostfix
  PROVE  InOrder' /\ Shaped' /\ Nested'
<1>1. At("postfix")
  BY Zenon DEF ParsePostfix
<1>2. /\ tokens \in Texts /\ pos \in Places /\ pos \in Nat /\ Ahead(pos, pos)
      /\ pos # 0
  BY <1>1, HeadIs, Zenon
<1>3. /\ Task = todo[1] /\ todo[1].do = "postfix" /\ Len(vals) \in Nat
      /\ AreNodes(vals) /\ 1 <= Len(vals)
  <2>1. Task = todo[1] /\ todo[1].do = "postfix"
    BY <1>1, HeadIs, Zenon
  <2>2. Carries(todo[1], pos) /\ Enough(todo[1], Len(vals)) /\ Len(vals) \in Nat /\ AreNodes(vals)
    BY <1>1, HeadShaped, Zenon
  <2> QED
    BY <2>1, <2>2 DEF Carries, Enough, Handlers
<1>4. \A m \in Nat : Yields(todo[1], Len(vals), m) => m <= Len(vals)
  BY <1>3 DEF Yields, Giving, Closing, Handlers
<1>5. CASE Kind(pos) = "(" /\ Kind(pos + 1) = ")"
  <2> DEFINE ts == <<Expect(")"), MakeFromTop("call", "", "token"), Call("postfix")>>
  <2>1. IsSequence(ts)
    BY SequenceThree, Zenon
  <2>2. <<>> \o ts = ts
    <3> HIDE DEF ts
    <3> QED
      BY <2>1, ConcatNothing, Zenon
  <2>3. Step(pos + 1, ts, vals, <<>>)
    BY <1>5, <2>2, Zenon DEF ParsePostfix, Go, Push
  <2>4. Ahead(pos, pos + 1)
    BY <1>5, <1>2, NextPlace, Zenon
  <2>5. Kind(pos) \notin Ends
    BY <1>5, Zenon DEF Ends, StmtKeywords
  <2>6. Through(pos, pos + 1)
    BY <1>2, <2>5, ThroughOne
  <2>7. /\ IsSequence(ts) /\ Len(ts) = 3 /\ ts[1] = Expect(")")
          /\ ts[2] = MakeFromTop("call", "", "token") /\ ts[3] = Call("postfix")
    BY SequenceThree, Zenon
  <2> HIDE DEF ts
  <2>8. IsSequence(ts) /\ Len(ts) = 3
    BY <2>7
  <2>9. ts[1].do = "expect" /\ Fine(ts[1])
    BY <2>7, ExpectIs, Zenon
  <2>10. /\ ts[2].do = "make" /\ ts[2].first = Last(vals).span
          /\ ts[2].from = Len(vals) - 1 /\ ts[2].ends = "token"
    <3>1. Made(ts[2], Last(vals).span, Len(vals) - 1, "token")
      BY <2>7, MakeFromTopIs, Zenon
    <3> QED
      BY <3>1 DEF Made
  <2>11. ts[3].do = "postfix"
    BY <2>7, CallIs, Zenon
  <2>12. Listed(ts)
    <3>1. \A i \in 1 .. 3 : Fine(ts[i])
      BY <2>9, <2>10, <2>11 DEF Fine, TaskIs, Tasks, Handlers
    <3>2. \A i \in 2 .. 3 : (ts[i].do \in AtToken => ts[i - 1].do = "expect") /\ ts[i].do # "block"
      BY <2>9, <2>10, <2>11 DEF AtToken
    <3> QED
      BY <2>8, <3>1, <3>2, SequenceElim DEF Listed
  <2>13. Begins(ts[1], pos + 1)
    BY <2>9, BeginsAnywhere DEF AtToken
  <2>14. Job(ts[1], pos + 1, Len(vals), Len(vals))
    BY <1>2, <1>3, <1>4, <2>9, PlainJob DEF Plain
  <2>15. Job(ts[2], pos + 1, Len(vals), Len(vals))
    BY <1>2, <1>3, <1>4, <2>10, TopNode DEF Job, Carries, Enough, Yields, Giving, Closing, Handlers
  <2>16. Job(ts[3], pos + 1, Len(vals), Len(vals))
    BY <1>2, <1>3, <1>4, <2>11, UsingJob DEF Using
  <2>17. \E g : Jobs(ts, g, Len(vals), pos + 1)
    <3> DEFINE g == [i \in 1 .. 4 |-> Len(vals)]
    <3>1. /\ g[1] = Len(vals) /\ g[2] = Len(vals) /\ g[3] = Len(vals)
            /\ g[4] = Len(vals)
      OBVIOUS
    <3> HIDE DEF g
    <3>2. \A i \in 1 .. 4 : g[i] \in Nat
      BY <1>2, <1>3, <1>4, <3>1
    <3>3. \A i \in 1 .. 3 : Reaches(todo[1], g[i])
      BY <1>2, <1>3, <1>4, <3>1 DEF Reaches
    <3>4. \A i \in 1 .. 3 : Job(ts[i], pos + 1, g[i], g[i + 1])
      BY <3>1, <2>14, <2>15, <2>16
    <3>5. Len(ts) = 3 /\ Len(ts) + 1 = 4
      BY <2>8
    <3>6. g[1] <= Len(vals) /\ \A m \in Nat : Yields(todo[1], Len(vals), m) => m <= g[4]
      BY <1>2, <1>3, <1>4, <3>1
    <3> QED
      BY <3>2, <3>4, <3>5, <3>6, <3>3, Zenon DEF Jobs
  <2>18. Expecting(todo[1], pos + 1)
    BY <1>1, <2>4, <2>6, ExpectingIs
  <2>19. Last(vals) = vals[Len(vals)]
    BY <1>3, TopNode
  <2>20. ts[1].k = ")"
    <3>1. ts[1] = Expect(")")
      BY <2>7, Zenon
    <3> QED
      BY <3>1, ExpectIs, Zenon
  <2>21. Held(ts[1], todo[1], pos + 1)
    BY <2>9, <2>20 DEF Held, InExpr
  <2>22. Held(ts[2], todo[1], pos + 1)
    BY <1>2, <1>3, <2>19, <2>10 DEF Held, InExpr, Operand
  <2>23. Held(ts[3], todo[1], pos + 1)
    BY <2>11 DEF Held, InExpr
  <2>24. Nests(todo[1], ts, vals, pos + 1)
    <3>1. \A i \in 1 .. 3 : Held(ts[i], todo[1], pos + 1)
      BY <2>21, <2>22, <2>23
    <3>2. \A j \in 1 .. 3 : Joins(ts[j]) => \A i \in 1 .. j - 1 : ts[i].do \notin {"make", "comma"}
      BY <2>9, <2>10, <2>11 DEF Joins
    <3>3. \A i \in 2 .. 3 : ts[i].do \in Operand => LeavesOperand(ts[i - 1])
      BY <2>9, <2>10, <2>11 DEF Operand, LeavesOperand, Joins
    <3>4. ts[1].do \notin Operand /\ (LeavesOperand(todo[1]) => LeavesOperand(ts[3]))
      BY <1>3, <2>9, <2>10, <2>11 DEF Operand, LeavesOperand, Joins
    <3>5. Parts(todo[1], ts, pos + 1) /\ ts # <<>>
      BY <2>8, <3>1, <3>2, <3>3, <3>4, SequenceElim DEF Parts
    <3> QED
      BY <2>8, <2>18, <3>5, PartsNest
  <2> QED
    BY <1>1, <1>3, <2>3, <2>4, <2>9, <2>12, <2>13, <2>17, <2>24,
       NothingReported, ListedKeeps DEF Consuming
<1>6. CASE Kind(pos) = "(" /\ Kind(pos + 1) # ")"
  <2> DEFINE a == <<Call("call_args")>>
             b == <<Expect(")"), MakeFromTop("call", "", "token"), Call("postfix")>>
             ts == a \o b
  <2>1. Step(pos + 1, ts, vals, <<>>)
    BY <1>6, Zenon DEF ParsePostfix, Go, Push
  <2>2. Ahead(pos, pos + 1)
    BY <1>6, <1>2, NextPlace, Zenon
  <2>3. Kind(pos) \notin Ends
    BY <1>6, Zenon DEF Ends, StmtKeywords
  <2>4. Through(pos, pos + 1)
    BY <1>2, <2>3, ThroughOne
  <2>5. IsSequence(a) /\ Len(a) = 1 /\ a[1] = Call("call_args")
    BY SequenceOne, Zenon
  <2>6. /\ IsSequence(b) /\ Len(b) = 3 /\ b[1] = Expect(")")
          /\ b[2] = MakeFromTop("call", "", "token") /\ b[3] = Call("postfix")
    BY SequenceThree, Zenon
  <2>7. IsSequence(a) /\ Len(a) = 1 /\ IsSequence(b) /\ Len(b) = 3
    BY <2>5, <2>6, Zenon
  <2> HIDE DEF a, b
  <2>8. /\ IsSequence(ts) /\ Len(ts) = 4 /\ ts[1] = a[1] /\ ts[2] = b[1]
          /\ ts[3] = b[2] /\ ts[4] = b[3]
    <3>1. IsSequence(a) /\ IsSequence(b)
      BY <2>7
    <3>2. JoinOf(ts, a, b)
      BY <3>1, JoinOfIs
    <3> HIDE DEF ts
    <3> QED
      BY <2>7, <3>2 DEF JoinOf
  <2> HIDE DEF ts
  <2>9. ts[1].do = "call_args"
    BY <2>8, <2>5, <2>6, CallIs, Zenon
  <2>10. ts[2].do = "expect" /\ Fine(ts[2])
    <3>1. ts[2] = Expect(")")
      BY <2>8, <2>5, <2>6, Zenon
    <3> QED
      BY <3>1, ExpectIs, Zenon
  <2>11. /\ ts[3].do = "make" /\ ts[3].first = Last(vals).span
          /\ ts[3].from = Len(vals) - 1 /\ ts[3].ends = "token"
    <3>1. Made(ts[3], Last(vals).span, Len(vals) - 1, "token")
      BY <2>8, <2>5, <2>6, MakeFromTopIs, Zenon
    <3> QED
      BY <3>1 DEF Made
  <2>12. ts[4].do = "postfix"
    BY <2>8, <2>5, <2>6, CallIs, Zenon
  <2>13. Listed(ts)
    <3>1. Fine(ts[1]) /\ Fine(ts[2])
      BY <2>9, <2>10 DEF Fine, TaskIs, Tasks, Handlers
    <3>2. Fine(ts[3]) /\ Fine(ts[4])
      BY <2>11, <2>12 DEF Fine, TaskIs, Tasks, Handlers
    <3>3. \A i \in 1 .. 4 : Fine(ts[i])
      BY <3>1, <3>2
    <3>4. \A i \in 2 .. 4 : (ts[i].do \in AtToken => ts[i - 1].do = "expect") /\ ts[i].do # "block"
      BY <2>9, <2>10, <2>11, <2>12 DEF AtToken
    <3>5. IsSequence(ts) /\ Len(ts) = 4
      BY <2>8, Zenon
    <3>6. ts # <<>>
      BY <3>5, SequenceElim
    <3> QED
      BY <3>3, <3>4, <3>5, <3>6 DEF Listed
  <2>14. Begins(ts[1], pos + 1)
    BY <2>9, BeginsAnywhere DEF AtToken
  <2>15. Job(ts[1], pos + 1, Len(vals), Len(vals))
    BY <1>2, <1>3, <1>4, <2>9, PlainJob DEF Plain
  <2>16. Job(ts[2], pos + 1, Len(vals), Len(vals))
    BY <1>2, <1>3, <1>4, <2>10, PlainJob DEF Plain
  <2>17. Job(ts[3], pos + 1, Len(vals), Len(vals))
    BY <1>2, <1>3, <1>4, <2>11, TopNode DEF Job, Carries, Enough, Yields, Giving, Closing, Handlers
  <2>18. Job(ts[4], pos + 1, Len(vals), Len(vals))
    BY <1>2, <1>3, <1>4, <2>12, UsingJob DEF Using
  <2>19. \E g : Jobs(ts, g, Len(vals), pos + 1)
    <3> DEFINE g == [i \in 1 .. 5 |-> Len(vals)]
    <3>1. /\ g[1] = Len(vals) /\ g[2] = Len(vals) /\ g[3] = Len(vals)
            /\ g[4] = Len(vals) /\ g[5] = Len(vals)
      OBVIOUS
    <3> HIDE DEF g
    <3>2. \A i \in 1 .. 5 : g[i] \in Nat
      BY <1>2, <1>3, <1>4, <3>1
    <3>3. \A i \in 1 .. 4 : Reaches(todo[1], g[i])
      BY <1>2, <1>3, <1>4, <3>1 DEF Reaches
    <3>4. \A i \in 1 .. 4 : Job(ts[i], pos + 1, g[i], g[i + 1])
      <4>1. /\ Job(ts[1], pos + 1, g[1], g[1 + 1])
            /\ Job(ts[2], pos + 1, g[2], g[2 + 1])
            /\ Job(ts[3], pos + 1, g[3], g[3 + 1])
            /\ Job(ts[4], pos + 1, g[4], g[4 + 1])
        BY <3>1, <2>15, <2>16, <2>17, <2>18
      <4>2. \A i \in 1 .. 4 : i = 1 \/ i = 2 \/ i = 3 \/ i = 4
        OBVIOUS
      <4> QED
        BY <4>1, <4>2, Zenon
    <3>5. Len(ts) = 4 /\ Len(ts) + 1 = 5
      BY <2>8
    <3>6. g[1] <= Len(vals) /\ \A m \in Nat : Yields(todo[1], Len(vals), m) => m <= g[5]
      BY <1>2, <1>3, <1>4, <3>1
    <3> QED
      BY <3>2, <3>4, <3>5, <3>6, <3>3, Zenon DEF Jobs
  <2>20. Expecting(todo[1], pos + 1)
    BY <1>1, <2>2, <2>4, ExpectingIs
  <2>21. Last(vals) = vals[Len(vals)]
    BY <1>3, TopNode
  <2>22. Held(ts[1], todo[1], pos + 1)
    BY <2>9 DEF Held, InExpr
  <2>23. ts[2].k = ")"
    <3>1. ts[2] = Expect(")")
      BY <2>8, <2>5, <2>6, Zenon
    <3> QED
      BY <3>1, ExpectIs, Zenon
  <2>24. Held(ts[2], todo[1], pos + 1)
    BY <2>10, <2>23 DEF Held, InExpr
  <2>25. Held(ts[3], todo[1], pos + 1)
    BY <1>2, <1>3, <2>21, <2>11 DEF Held, InExpr, Operand
  <2>26. Held(ts[4], todo[1], pos + 1)
    BY <2>12 DEF Held, InExpr
  <2>27. Nests(todo[1], ts, vals, pos + 1)
    <3>1. \A i \in 1 .. 4 : Held(ts[i], todo[1], pos + 1)
      BY <2>22, <2>24, <2>25, <2>26
    <3>2. \A j \in 1 .. 4 : Joins(ts[j]) => \A i \in 1 .. j - 1 : ts[i].do \notin {"make", "comma"}
      BY <2>9, <2>10, <2>11, <2>12 DEF Joins
    <3>3. \A i \in 2 .. 4 : ts[i].do \in Operand => LeavesOperand(ts[i - 1])
      BY <2>9, <2>10, <2>11, <2>12 DEF Operand, LeavesOperand, Joins
    <3>4. ts[1].do \notin Operand /\ (LeavesOperand(todo[1]) => LeavesOperand(ts[4]))
      BY <1>3, <2>9, <2>10, <2>11, <2>12 DEF Operand, LeavesOperand, Joins
    <3>5. Parts(todo[1], ts, pos + 1) /\ ts # <<>>
      BY <2>8, <3>1, <3>2, <3>3, <3>4, SequenceElim DEF Parts
    <3> QED
      BY <2>8, <2>20, <3>5, PartsNest
  <2> QED
    BY <1>1, <1>3, <2>1, <2>2, <2>9, <2>13, <2>14, <2>19, <2>27,
       NothingReported, ListedKeeps DEF Consuming
<1>7. CASE Kind(pos) = "["
  <2> DEFINE ts == <<Call("expr"), Expect("]"), MakeFromTop("index", "", "token"), Call("postfix")>>
  <2>1. Step(pos + 1, ts, vals, <<>>)
    BY <1>7, Zenon DEF ParsePostfix, Go, Push
  <2>2. Ahead(pos, pos + 1)
    BY <1>7, <1>2, NextPlace, Zenon
  <2>3. Kind(pos) \notin Ends
    BY <1>7, Zenon DEF Ends, StmtKeywords
  <2>4. Through(pos, pos + 1)
    BY <1>2, <2>3, ThroughOne
  <2>5. /\ IsSequence(ts) /\ Len(ts) = 4 /\ ts[1] = Call("expr")
          /\ ts[2] = Expect("]") /\ ts[3] = MakeFromTop("index", "", "token")
          /\ ts[4] = Call("postfix")
    BY SequenceFour, Zenon
  <2> HIDE DEF ts
  <2>6. IsSequence(ts) /\ Len(ts) = 4
    BY <2>5
  <2>7. ts[1].do = "expr"
    BY <2>5, CallIs, Zenon
  <2>8. ts[2].do = "expect" /\ Fine(ts[2])
    BY <2>5, ExpectIs, Zenon
  <2>9. /\ ts[3].do = "make" /\ ts[3].first = Last(vals).span
          /\ ts[3].from = Len(vals) - 1 /\ ts[3].ends = "token"
    <3>1. Made(ts[3], Last(vals).span, Len(vals) - 1, "token")
      BY <2>5, MakeFromTopIs, Zenon
    <3> QED
      BY <3>1 DEF Made
  <2>10. ts[4].do = "postfix"
    BY <2>5, CallIs, Zenon
  <2>11. Listed(ts)
    <3>1. Fine(ts[1]) /\ Fine(ts[2])
      BY <2>7, <2>8 DEF Fine, TaskIs, Tasks, Handlers
    <3>2. Fine(ts[3]) /\ Fine(ts[4])
      BY <2>9, <2>10 DEF Fine, TaskIs, Tasks, Handlers
    <3>3. \A i \in 1 .. 4 : Fine(ts[i])
      BY <3>1, <3>2
    <3>4. \A i \in 2 .. 4 : (ts[i].do \in AtToken => ts[i - 1].do = "expect") /\ ts[i].do # "block"
      BY <2>7, <2>8, <2>9, <2>10 DEF AtToken
    <3> QED
      BY <2>6, <3>3, <3>4, SequenceElim DEF Listed
  <2>12. Begins(ts[1], pos + 1)
    BY <2>7, BeginsAnywhere DEF AtToken
  <2>13. Job(ts[1], pos + 1, Len(vals), Len(vals))
    BY <1>2, <1>3, <1>4, <2>7, GivingJob DEF Giving
  <2>14. Job(ts[2], pos + 1, Len(vals), Len(vals))
    BY <1>2, <1>3, <1>4, <2>8, PlainJob DEF Plain
  <2>15. Job(ts[3], pos + 1, Len(vals), Len(vals))
    BY <1>2, <1>3, <1>4, <2>9, TopNode DEF Job, Carries, Enough, Yields, Giving, Closing, Handlers
  <2>16. Job(ts[4], pos + 1, Len(vals), Len(vals))
    BY <1>2, <1>3, <1>4, <2>10, UsingJob DEF Using
  <2>17. \E g : Jobs(ts, g, Len(vals), pos + 1)
    <3> DEFINE g == [i \in 1 .. 5 |-> Len(vals)]
    <3>1. /\ g[1] = Len(vals) /\ g[2] = Len(vals) /\ g[3] = Len(vals)
            /\ g[4] = Len(vals) /\ g[5] = Len(vals)
      OBVIOUS
    <3> HIDE DEF g
    <3>2. \A i \in 1 .. 5 : g[i] \in Nat
      BY <1>2, <1>3, <1>4, <3>1
    <3>3. \A i \in 1 .. 4 : Reaches(todo[1], g[i])
      BY <1>2, <1>3, <1>4, <3>1 DEF Reaches
    <3>4. \A i \in 1 .. 4 : Job(ts[i], pos + 1, g[i], g[i + 1])
      <4>1. /\ Job(ts[1], pos + 1, g[1], g[1 + 1])
            /\ Job(ts[2], pos + 1, g[2], g[2 + 1])
            /\ Job(ts[3], pos + 1, g[3], g[3 + 1])
            /\ Job(ts[4], pos + 1, g[4], g[4 + 1])
        BY <3>1, <2>13, <2>14, <2>15, <2>16
      <4>2. \A i \in 1 .. 4 : i = 1 \/ i = 2 \/ i = 3 \/ i = 4
        OBVIOUS
      <4> QED
        BY <4>1, <4>2, Zenon
    <3>5. Len(ts) = 4 /\ Len(ts) + 1 = 5
      BY <2>6
    <3>6. g[1] <= Len(vals) /\ \A m \in Nat : Yields(todo[1], Len(vals), m) => m <= g[5]
      BY <1>2, <1>3, <1>4, <3>1
    <3> QED
      BY <3>2, <3>4, <3>5, <3>6, <3>3, Zenon DEF Jobs
  <2>18. Expecting(todo[1], pos + 1)
    BY <1>1, <2>2, <2>4, ExpectingIs
  <2>19. Last(vals) = vals[Len(vals)]
    BY <1>3, TopNode
  <2>20. Held(ts[1], todo[1], pos + 1)
    BY <2>7 DEF Held, InExpr
  <2>21. ts[2].k = "]"
    <3>1. ts[2] = Expect("]")
      BY <2>5, Zenon
    <3> QED
      BY <3>1, ExpectIs, Zenon
  <2>22. Held(ts[2], todo[1], pos + 1)
    BY <2>8, <2>21 DEF Held, InExpr
  <2>23. Held(ts[3], todo[1], pos + 1)
    BY <1>2, <1>3, <2>19, <2>9 DEF Held, InExpr, Operand
  <2>24. Held(ts[4], todo[1], pos + 1)
    BY <2>10 DEF Held, InExpr
  <2>25. Nests(todo[1], ts, vals, pos + 1)
    <3>1. \A i \in 1 .. 4 : Held(ts[i], todo[1], pos + 1)
      BY <2>20, <2>22, <2>23, <2>24
    <3>2. \A j \in 1 .. 4 : Joins(ts[j]) => \A i \in 1 .. j - 1 : ts[i].do \notin {"make", "comma"}
      BY <2>7, <2>8, <2>9, <2>10 DEF Joins
    <3>3. \A i \in 2 .. 4 : ts[i].do \in Operand => LeavesOperand(ts[i - 1])
      BY <2>7, <2>8, <2>9, <2>10 DEF Operand, LeavesOperand, Joins
    <3>4. ts[1].do \notin Operand /\ (LeavesOperand(todo[1]) => LeavesOperand(ts[4]))
      BY <1>3, <2>7, <2>8, <2>9, <2>10 DEF Operand, LeavesOperand, Joins
    <3>5. Parts(todo[1], ts, pos + 1) /\ ts # <<>>
      BY <2>6, <3>1, <3>2, <3>3, <3>4, SequenceElim DEF Parts
    <3> QED
      BY <2>6, <2>18, <3>5, PartsNest
  <2> QED
    BY <1>1, <1>3, <2>1, <2>2, <2>7, <2>11, <2>12, <2>17, <2>25,
       NothingReported, ListedKeeps DEF Consuming
<1>8. CASE Kind(pos) \notin {"(", "["} /\ Kind(pos) \in DOMAIN MemberKind /\ Kind(pos + 1) = "ident"
  <2>1. Kind(pos) # "none"
    BY <1>8, OperatorsAreTokens, Zenon
  <2> DEFINE ts == <<MakeFromTop(MemberKind[Kind(pos)], Text(pos + 1), "token"), Call("postfix")>>
  <2>2. Step(pos + 2, ts, vals, <<>>)
    BY <1>8, Zenon DEF ParsePostfix, Go, Push
  <2>3. Ahead(pos, pos + 2)
    BY <1>8, <1>2, <1>8, <2>1, NextTwo, Zenon
  <2>4. Kind(pos) \notin Ends /\ Kind(pos + 1) \notin Ends
    BY <1>8, OperatorsGoOn, LeavesGoOn
  <2>5. Through(pos, pos + 2)
    BY <1>2, <2>4, ThroughTwo
  <2>6. /\ IsSequence(ts) /\ Len(ts) = 2
          /\ ts[1] = MakeFromTop(MemberKind[Kind(pos)], Text(pos + 1), "token")
          /\ ts[2] = Call("postfix")
    BY SequenceTwo, Zenon
  <2> HIDE DEF ts
  <2>7. IsSequence(ts) /\ Len(ts) = 2
    BY <2>6
  <2>8. /\ ts[1].do = "make" /\ ts[1].first = Last(vals).span
          /\ ts[1].from = Len(vals) - 1 /\ ts[1].ends = "token"
    <3>1. Made(ts[1], Last(vals).span, Len(vals) - 1, "token")
      BY <2>6, MakeFromTopIs, Zenon
    <3> QED
      BY <3>1 DEF Made
  <2>9. ts[2].do = "postfix"
    BY <2>6, CallIs, Zenon
  <2>10. Listed(ts)
    <3>1. \A i \in 1 .. 2 : Fine(ts[i])
      BY <2>8, <2>9 DEF Fine, TaskIs, Tasks, Handlers
    <3>2. \A i \in 2 .. 2 : (ts[i].do \in AtToken => ts[i - 1].do = "expect") /\ ts[i].do # "block"
      BY <2>8, <2>9 DEF AtToken
    <3> QED
      BY <2>7, <3>1, <3>2, SequenceElim DEF Listed
  <2>11. Begins(ts[1], pos + 2)
    BY <2>8, BeginsAnywhere DEF AtToken
  <2>12. Job(ts[1], pos + 2, Len(vals), Len(vals))
    BY <1>2, <1>3, <1>4, <2>8, TopNode DEF Job, Carries, Enough, Yields, Giving, Closing, Handlers
  <2>13. Job(ts[2], pos + 2, Len(vals), Len(vals))
    BY <1>2, <1>3, <1>4, <2>9, UsingJob DEF Using
  <2>14. \E g : Jobs(ts, g, Len(vals), pos + 2)
    <3> DEFINE g == [i \in 1 .. 3 |-> Len(vals)]
    <3>1. g[1] = Len(vals) /\ g[2] = Len(vals) /\ g[3] = Len(vals)
      OBVIOUS
    <3> HIDE DEF g
    <3>2. \A i \in 1 .. 3 : g[i] \in Nat
      BY <1>2, <1>3, <1>4, <3>1
    <3>3. \A i \in 1 .. 2 : Reaches(todo[1], g[i])
      BY <1>2, <1>3, <1>4, <3>1 DEF Reaches
    <3>4. \A i \in 1 .. 2 : Job(ts[i], pos + 2, g[i], g[i + 1])
      BY <3>1, <2>12, <2>13
    <3>5. Len(ts) = 2 /\ Len(ts) + 1 = 3
      BY <2>7
    <3>6. g[1] <= Len(vals) /\ \A m \in Nat : Yields(todo[1], Len(vals), m) => m <= g[3]
      BY <1>2, <1>3, <1>4, <3>1
    <3> QED
      BY <3>2, <3>4, <3>5, <3>6, <3>3, Zenon DEF Jobs
  <2>15. Expecting(todo[1], pos + 2)
    BY <1>1, <2>3, <2>5, ExpectingIs
  <2>16. Last(vals) = vals[Len(vals)]
    BY <1>3, TopNode
  <2>17. Held(ts[1], todo[1], pos + 2)
    BY <1>2, <1>3, <2>16, <2>8 DEF Held, InExpr, Operand
  <2>18. Held(ts[2], todo[1], pos + 2)
    BY <2>9 DEF Held, InExpr
  <2>19. Nests(todo[1], ts, vals, pos + 2)
    <3>1. \A i \in 1 .. 2 : Held(ts[i], todo[1], pos + 2)
      BY <2>17, <2>18
    <3>2. \A j \in 1 .. 2 : Joins(ts[j]) => \A i \in 1 .. j - 1 : ts[i].do \notin {"make", "comma"}
      BY <2>8, <2>9 DEF Joins
    <3>3. \A i \in 2 .. 2 : ts[i].do \in Operand => LeavesOperand(ts[i - 1])
      BY <2>8, <2>9 DEF Operand, LeavesOperand, Joins
    <3>4. ts[1].do \notin Operand /\ (LeavesOperand(todo[1]) => LeavesOperand(ts[2]))
      BY <1>3, <2>8, <2>9 DEF Operand, LeavesOperand, Joins
    <3>5. Parts(todo[1], ts, pos + 2) /\ ts # <<>>
      BY <2>7, <3>1, <3>2, <3>3, <3>4, SequenceElim DEF Parts
    <3> QED
      BY <2>7, <2>15, <3>5, PartsNest
  <2> QED
    BY <1>1, <1>3, <2>2, <2>3, <2>8, <2>10, <2>11, <2>14, <2>19,
       NothingReported, ListedKeeps DEF Consuming
<1>9. CASE Kind(pos) \notin {"(", "["} /\ Kind(pos) \in DOMAIN MemberKind /\ Kind(pos + 1) # "ident"
  <2>1. Kind(pos) # "none"
    BY <1>9, OperatorsAreTokens, Zenon
  <2>2. AreReports(Error("E0305", pos + 1))
    BY <1>9, <2>1, <1>2, NextPlace, ErrorIs
  <2>3. PICK es : Fail(pos + 1, es) /\ AreReports(es)
    BY <1>9, <2>2, Zenon DEF ParsePostfix, Go, Push
  <2>4. Ahead(pos, pos + 1)
    BY <1>9, <1>2, <2>1, NextPlace, Zenon
  <2> QED
    BY <1>1, <2>3, <2>4, NothingReported, FailKeeps DEF Rounds
<1>10. CASE Kind(pos) \notin {"(", "["} /\ Kind(pos) \notin DOMAIN MemberKind /\ Kind(pos) \in DOMAIN PostfixOps
  <2>1. Kind(pos) # "none"
    BY <1>10, OperatorsAreTokens, Zenon
  <2> DEFINE ts == <<MakeFromTop("postfix", PostfixOps[Kind(pos)], "token"), Call("postfix")>>
  <2>2. Step(pos + 1, ts, vals, <<>>)
    BY <1>10, Zenon DEF ParsePostfix, Go, Push
  <2>3. Ahead(pos, pos + 1)
    BY <1>10, <1>2, <2>1, NextPlace, Zenon
  <2>4. Kind(pos) \notin Ends
    BY <1>10, OperatorsGoOn
  <2>5. Through(pos, pos + 1)
    BY <1>2, <2>4, ThroughOne
  <2>6. /\ IsSequence(ts) /\ Len(ts) = 2
          /\ ts[1] = MakeFromTop("postfix", PostfixOps[Kind(pos)], "token")
          /\ ts[2] = Call("postfix")
    BY SequenceTwo, Zenon
  <2> HIDE DEF ts
  <2>7. IsSequence(ts) /\ Len(ts) = 2
    BY <2>6
  <2>8. /\ ts[1].do = "make" /\ ts[1].first = Last(vals).span
          /\ ts[1].from = Len(vals) - 1 /\ ts[1].ends = "token"
    <3>1. Made(ts[1], Last(vals).span, Len(vals) - 1, "token")
      BY <2>6, MakeFromTopIs, Zenon
    <3> QED
      BY <3>1 DEF Made
  <2>9. ts[2].do = "postfix"
    BY <2>6, CallIs, Zenon
  <2>10. Listed(ts)
    <3>1. \A i \in 1 .. 2 : Fine(ts[i])
      BY <2>8, <2>9 DEF Fine, TaskIs, Tasks, Handlers
    <3>2. \A i \in 2 .. 2 : (ts[i].do \in AtToken => ts[i - 1].do = "expect") /\ ts[i].do # "block"
      BY <2>8, <2>9 DEF AtToken
    <3> QED
      BY <2>7, <3>1, <3>2, SequenceElim DEF Listed
  <2>11. Begins(ts[1], pos + 1)
    BY <2>8, BeginsAnywhere DEF AtToken
  <2>12. Job(ts[1], pos + 1, Len(vals), Len(vals))
    BY <1>2, <1>3, <1>4, <2>8, TopNode DEF Job, Carries, Enough, Yields, Giving, Closing, Handlers
  <2>13. Job(ts[2], pos + 1, Len(vals), Len(vals))
    BY <1>2, <1>3, <1>4, <2>9, UsingJob DEF Using
  <2>14. \E g : Jobs(ts, g, Len(vals), pos + 1)
    <3> DEFINE g == [i \in 1 .. 3 |-> Len(vals)]
    <3>1. g[1] = Len(vals) /\ g[2] = Len(vals) /\ g[3] = Len(vals)
      OBVIOUS
    <3> HIDE DEF g
    <3>2. \A i \in 1 .. 3 : g[i] \in Nat
      BY <1>2, <1>3, <1>4, <3>1
    <3>3. \A i \in 1 .. 2 : Reaches(todo[1], g[i])
      BY <1>2, <1>3, <1>4, <3>1 DEF Reaches
    <3>4. \A i \in 1 .. 2 : Job(ts[i], pos + 1, g[i], g[i + 1])
      BY <3>1, <2>12, <2>13
    <3>5. Len(ts) = 2 /\ Len(ts) + 1 = 3
      BY <2>7
    <3>6. g[1] <= Len(vals) /\ \A m \in Nat : Yields(todo[1], Len(vals), m) => m <= g[3]
      BY <1>2, <1>3, <1>4, <3>1
    <3> QED
      BY <3>2, <3>4, <3>5, <3>6, <3>3, Zenon DEF Jobs
  <2>15. Expecting(todo[1], pos + 1)
    BY <1>1, <2>3, <2>5, ExpectingIs
  <2>16. Last(vals) = vals[Len(vals)]
    BY <1>3, TopNode
  <2>17. Held(ts[1], todo[1], pos + 1)
    BY <1>2, <1>3, <2>16, <2>8 DEF Held, InExpr, Operand
  <2>18. Held(ts[2], todo[1], pos + 1)
    BY <2>9 DEF Held, InExpr
  <2>19. Nests(todo[1], ts, vals, pos + 1)
    <3>1. \A i \in 1 .. 2 : Held(ts[i], todo[1], pos + 1)
      BY <2>17, <2>18
    <3>2. \A j \in 1 .. 2 : Joins(ts[j]) => \A i \in 1 .. j - 1 : ts[i].do \notin {"make", "comma"}
      BY <2>8, <2>9 DEF Joins
    <3>3. \A i \in 2 .. 2 : ts[i].do \in Operand => LeavesOperand(ts[i - 1])
      BY <2>8, <2>9 DEF Operand, LeavesOperand, Joins
    <3>4. ts[1].do \notin Operand /\ (LeavesOperand(todo[1]) => LeavesOperand(ts[2]))
      BY <1>3, <2>8, <2>9 DEF Operand, LeavesOperand, Joins
    <3>5. Parts(todo[1], ts, pos + 1) /\ ts # <<>>
      BY <2>7, <3>1, <3>2, <3>3, <3>4, SequenceElim DEF Parts
    <3> QED
      BY <2>7, <2>15, <3>5, PartsNest
  <2> QED
    BY <1>1, <1>3, <2>2, <2>3, <2>8, <2>10, <2>11, <2>14, <2>19,
       NothingReported, ListedKeeps DEF Consuming
<1>11. CASE Kind(pos) \notin {"(", "["} /\ Kind(pos) \notin DOMAIN MemberKind /\ Kind(pos) \notin DOMAIN PostfixOps
  <2>1. Step(pos, <<>>, vals, <<>>)
    BY <1>11, Zenon DEF ParsePostfix, Go, Push
  <2>2. Ahead(pos, pos)
    BY <1>11, <1>2
  <2>3. Through(pos, pos)
    BY <1>2, ThroughNothing
  <2>4. \A m \in Nat : Yields(todo[1], Len(vals), m) => m <= Len(vals)
    BY <1>11, <1>2, <1>3, <1>4
  <2>5. Expecting(todo[1], pos)
    BY <1>1, <2>2, <2>3, ExpectingIs
  <2>6. Nests(todo[1], <<>>, vals, pos)
    BY <1>3, <2>5, NothingNests DEF Operand, LeavesOperand, Joins
  <2> QED
    BY <1>1, <1>3, <2>1, <2>2, <2>4, <2>6, NothingReported, NothingKeeps DEF Consuming
<1> QED
  BY <1>5, <1>6, <1>7, <1>8, <1>9, <1>10, <1>11, Zenon

LEMMA ParseDeclaratorKeeps ==
  ASSUME InOrder, Shaped, Nested, ParseDeclarator
  PROVE  InOrder' /\ Shaped' /\ Nested'
<1>1. At("declarator")
  BY Zenon DEF ParseDeclarator
<1>2. tokens \in Texts /\ pos \in Places /\ pos \in Nat /\ Ahead(pos, pos)
  BY <1>1, HeadIs, Zenon
<1>3. /\ Task = todo[1] /\ todo[1].do = "declarator" /\ Len(vals) \in Nat
      /\ AreNodes(vals) /\ Task.c.at \in DOMAIN tokens
  <2>1. Task = todo[1] /\ todo[1].do = "declarator"
    BY <1>1, HeadIs, Zenon
  <2>2. Carries(todo[1], pos) /\ Enough(todo[1], Len(vals)) /\ Len(vals) \in Nat /\ AreNodes(vals)
    BY <1>1, HeadShaped, Zenon
  <2> QED
    BY <2>1, <2>2 DEF Carries, Enough, Handlers
<1>4. \A m \in Nat : Yields(todo[1], Len(vals), m) => m <= Len(vals) + 1
  BY <1>3 DEF Yields, Giving, Closing, Handlers
<1>5. ~InExpr(todo[1])
  BY <1>3 DEF InExpr
<1>6. CASE Kind(pos) = "none"
  <2>1. PICK es : Fail(pos, es) /\ es = <<>>
    BY <1>6, Zenon DEF ParseDeclarator, Go, Push
  <2>2. Ahead(pos, pos)
    BY <1>6, <1>2
  <2> QED
    BY <1>1, <2>1, <2>2, NothingReported, FailKeeps DEF Rounds
<1>7. CASE Kind(pos) # "none" /\ Kind(Pointers(pos, Task.c.base, TRUE).end) # "ident"
  <2>1. Pointers(pos, Task.c.base, TRUE).end \in Places
    BY <1>2, PointersIs, AheadIs
  <2>2. AreReports(Error("E0305", Pointers(pos, Task.c.base, TRUE).end))
    BY <1>7, <1>2, <2>1, ErrorIs
  <2> DEFINE p == Pointers(pos, Task.c.base, TRUE).end
  <2>3. PICK es : Fail(p, es) /\ AreReports(es)
    BY <1>7, <2>2, Zenon DEF ParseDeclarator, Go, Push, DeclareVar
  <2>4. Ahead(pos, p)
    BY <1>7, <1>2, PointersIs, Zenon
  <2> HIDE DEF p
  <2> QED
    BY <1>1, <2>3, <2>4, NothingReported, FailKeeps DEF Rounds
<1>8. CASE Kind(pos) # "none" /\ Kind(Pointers(pos, Task.c.base, TRUE).end) = "ident"
  <2> DEFINE e == Pointers(pos, Task.c.base, TRUE).end
             ty == ApplyOutermostOwnership(Pointers(pos, Task.c.base, TRUE).ty, Task.c.own)
  <2>1. Ahead(pos, e)
    BY <1>2, PointersIs
  <2>2. Ahead(e, e + 1) /\ e < e + 1
    BY <1>2, <1>8, NextPlace, Zenon
  <2>3. IsSpan(TokenSpan(e))
    BY <1>2, <1>8, TokenHere
  <2>4. IsNode(N("var", Text(e), <<>>, ty, TokenSpan(e)))
    BY <1>8, <1>2, <1>3, <1>4, <2>3, NodeIs
  <2> DEFINE p == Pointers(pos, Task.c.base, TRUE).end + 1
  <2>5. PICK n : Step(p, <<>>, Append(vals, n), <<>>) /\ IsNode(n)
    BY <1>8, <2>4, Zenon DEF ParseDeclarator, Go, Push, DeclareVar
  <2>6. Ahead(pos, p) /\ p # pos
    BY <1>8, <1>2, <2>1, <2>2, AheadOn
  <2> HIDE DEF p
  <2>7. AreNodes(Append(vals, n)) /\ Len(Append(vals, n)) = Len(vals) + 1
    BY <1>3, <2>5, NodesGrow
  <2>8. \A m \in Nat : Yields(todo[1], Len(vals), m) => m <= Len(Append(vals, n))
    BY <1>8, <1>2, <1>3, <1>4, <2>7
  <2>9. Nests(todo[1], <<>>, Append(vals, n), p)
    BY <1>5, CalmNothing
  <2> QED
    BY <1>1, <1>3, <2>7, <2>5, <2>6, <2>8, <2>9, NothingReported, NothingKeeps DEF Consuming
<1> QED
  BY <1>6, <1>7, <1>8, Zenon

LEMMA ParseItemKeeps ==
  ASSUME InOrder, Shaped, Nested, ParseItem
  PROVE  InOrder' /\ Shaped' /\ Nested'
<1>1. At("item")
  BY Zenon DEF ParseItem
<1>2. tokens \in Texts /\ pos \in Places /\ pos \in Nat /\ Ahead(pos, pos)
  BY <1>1, HeadIs, Zenon
<1>3. /\ Task = todo[1] /\ todo[1].do = "item" /\ Len(vals) \in Nat
      /\ AreNodes(vals)
  BY <1>1, HeadIs, HeadShaped, Zenon
<1>4. \A m \in Nat : Yields(todo[1], Len(vals), m) => m <= Len(vals)
  BY <1>3 DEF Yields, Giving, Closing, Handlers
<1>5. ~InExpr(todo[1])
  BY <1>3 DEF InExpr
<1>6. Kind(pos) # "none"
  BY <1>1, HeadIs, Zenon DEF AtToken
<1>7. CASE Specifiers(pos).ty = <<>>
  <2>1. AreReports(Specifiers(pos).errors)
    BY <1>7, <1>2, SpecifierErrorsAre
  <2> DEFINE p == Specifiers(pos).end
  <2>2. PICK es : Fail(p, es) /\ AreReports(es)
    BY <1>7, <2>1, Zenon DEF ParseItem, Go, Push, Declaration
  <2>3. Ahead(pos, p)
    BY <1>7, <1>2, SpecifiersIs, Zenon
  <2> HIDE DEF p
  <2> QED
    BY <1>1, <2>2, <2>3, NothingReported, FailKeeps DEF Rounds
<1>8. CASE Specifiers(pos).ty # <<>>
  <2> DEFINE sh == Shared(Specifiers(pos), pos, FALSE)
  <2>1. sh.at \in DOMAIN tokens
    BY <1>2, <1>6, TokenHere DEF Shared
  <2>2. AreReports(Specifiers(pos).errors)
    BY <1>8, <1>2, SpecifierErrorsAre
  <2> DEFINE ts == <<Of("declarator", sh), Of("item_form", sh)>>
  <2> DEFINE p == Specifiers(pos).end
  <2>3. PICK es : Step(p, ts, vals, es) /\ AreReports(es)
    BY <1>8, <2>2, Zenon DEF ParseItem, Go, Push, Declaration
  <2>4. Ahead(pos, p)
    BY <1>8, <1>2, SpecifiersIs, Zenon
  <2> HIDE DEF p
  <2> HIDE DEF sh
  <2>5. /\ IsSequence(ts) /\ Len(ts) = 2 /\ ts[1] = Of("declarator", sh)
          /\ ts[2] = Of("item_form", sh)
    BY SequenceTwo, Zenon
  <2> HIDE DEF ts
  <2>6. IsSequence(ts) /\ Len(ts) = 2
    BY <2>5
  <2>7. ts[1].do = "declarator" /\ ts[1].c = sh
    <3>1. ts[1] = Of("declarator", sh)
      BY <2>5, Zenon
    <3>2. Of("declarator", sh).do = "declarator" /\ Of("declarator", sh).c = sh
      BY OfIs
    <3> QED
      BY <3>1, <3>2, Zenon
  <2>8. ts[2].do = "item_form" /\ ts[2].c = sh
    <3>1. ts[2] = Of("item_form", sh)
      BY <2>5, Zenon
    <3>2. Of("item_form", sh).do = "item_form" /\ Of("item_form", sh).c = sh
      BY OfIs
    <3> QED
      BY <3>1, <3>2, Zenon
  <2>9. Listed(ts)
    <3>1. \A i \in 1 .. 2 : Fine(ts[i])
      BY <2>7, <2>8 DEF Fine, TaskIs, Tasks, Handlers
    <3>2. \A i \in 2 .. 2 : (ts[i].do \in AtToken => ts[i - 1].do = "expect") /\ ts[i].do # "block"
      BY <2>7, <2>8 DEF AtToken
    <3> QED
      BY <2>6, <3>1, <3>2, SequenceElim DEF Listed
  <2>10. Begins(ts[1], p)
    BY <2>7, BeginsAnywhere DEF AtToken
  <2>11. Job(ts[1], p, Len(vals), Len(vals) + 1)
    BY <1>2, <1>3, <1>4, <2>7, <2>1, DeclarationJob DEF OfDeclaration
  <2>12. Job(ts[2], p, Len(vals) + 1, Len(vals) + 1)
    BY <1>2, <1>3, <1>4, <2>8, <2>1, DeclarationJob DEF OfDeclaration
  <2>13. \E g : Jobs(ts, g, Len(vals), p)
    <3> DEFINE g == [i \in 1 .. 3 |-> IF i <= 1 THEN Len(vals) ELSE Len(vals) + 1]
    <3>1. g[1] = Len(vals) /\ g[2] = Len(vals) + 1 /\ g[3] = Len(vals) + 1
      OBVIOUS
    <3> HIDE DEF g
    <3>2. \A i \in 1 .. 3 : g[i] \in Nat
      BY <1>2, <1>3, <1>4, <3>1
    <3>3. \A i \in 1 .. 2 : Reaches(todo[1], g[i])
      BY <1>2, <1>3, <1>4, <3>1 DEF Reaches
    <3>4. \A i \in 1 .. 2 : Job(ts[i], p, g[i], g[i + 1])
      BY <3>1, <2>11, <2>12
    <3>5. Len(ts) = 2 /\ Len(ts) + 1 = 3
      BY <2>6
    <3>6. g[1] <= Len(vals) /\ \A m \in Nat : Yields(todo[1], Len(vals), m) => m <= g[3]
      BY <1>2, <1>3, <1>4, <3>1
    <3> QED
      BY <3>2, <3>4, <3>5, <3>6, <3>3, Zenon DEF Jobs
  <2>14. Nests(todo[1], ts, vals, p)
    <3>1. \A i \in 1 .. 2 : ~Joins(ts[i]) /\ ts[i].do \notin Operand
      BY <2>7, <2>8 DEF Joins, Operand
    <3> QED
      BY <1>5, <2>6, <3>1, CalmNests
  <2> QED
    BY <1>1, <1>3, <2>3, <2>4, <2>7, <2>9, <2>10, <2>13, <2>14,
       NothingReported, ListedKeeps DEF Consuming
<1> QED
  BY <1>7, <1>8, Zenon

LEMMA ParseLocalKeeps ==
  ASSUME InOrder, Shaped, Nested, ParseLocal
  PROVE  InOrder' /\ Shaped' /\ Nested'
<1>1. At("local")
  BY Zenon DEF ParseLocal
<1>2. tokens \in Texts /\ pos \in Places /\ pos \in Nat /\ Ahead(pos, pos)
  BY <1>1, HeadIs, Zenon
<1>3. /\ Task = todo[1] /\ todo[1].do = "local" /\ Len(vals) \in Nat
      /\ AreNodes(vals)
  BY <1>1, HeadIs, HeadShaped, Zenon
<1>4. \A m \in Nat : Yields(todo[1], Len(vals), m) => m <= Len(vals) + 1
  BY <1>3 DEF Yields, Giving, Closing, Handlers
<1>5. ~InExpr(todo[1])
  BY <1>3 DEF InExpr
<1>6. Kind(pos) # "none"
  BY <1>1, HeadIs, Zenon DEF AtToken
<1>7. CASE Specifiers(pos).ty = <<>>
  <2>1. AreReports(Specifiers(pos).errors)
    BY <1>7, <1>2, SpecifierErrorsAre
  <2> DEFINE p == Specifiers(pos).end
  <2>2. PICK es : Fail(p, es) /\ AreReports(es)
    BY <1>7, <2>1, Zenon DEF ParseLocal, Go, Push, Declaration
  <2>3. Ahead(pos, p)
    BY <1>7, <1>2, SpecifiersIs, Zenon
  <2> HIDE DEF p
  <2> QED
    BY <1>1, <2>2, <2>3, NothingReported, FailKeeps DEF Rounds
<1>8. CASE Specifiers(pos).ty # <<>>
  <2> DEFINE sh == Shared(Specifiers(pos), pos, TRUE)
  <2>1. sh.at \in DOMAIN tokens
    BY <1>2, <1>6, TokenHere DEF Shared
  <2>2. AreReports(Specifiers(pos).errors)
    BY <1>8, <1>2, SpecifierErrorsAre
  <2> DEFINE a == <<Of("declarator", sh)>>
             b == <<Call("array"), Call("init"), Of("finish_var", sh), Of("more", sh)>>
             c == <<MakeFromToken("decl", "", pos, "written")>>
             ab == a \o b
             ts == ab \o c
  <2> DEFINE p == Specifiers(pos).end
  <2>3. PICK es : Step(p, ts, vals, es) /\ AreReports(es)
    BY <1>8, <2>2, Zenon DEF ParseLocal, Go, Push, Declaration, VarTasks
  <2>4. Ahead(pos, p)
    BY <1>8, <1>2, SpecifiersIs, Zenon
  <2> HIDE DEF p
  <2> HIDE DEF sh
  <2>5. IsSequence(a) /\ Len(a) = 1 /\ a[1] = Of("declarator", sh)
    BY SequenceOne, Zenon
  <2>6. /\ IsSequence(b) /\ Len(b) = 4 /\ b[1] = Call("array")
          /\ b[2] = Call("init") /\ b[3] = Of("finish_var", sh)
          /\ b[4] = Of("more", sh)
    BY SequenceFour, Zenon
  <2>7. /\ IsSequence(c) /\ Len(c) = 1
          /\ c[1] = MakeFromToken("decl", "", pos, "written")
    BY SequenceOne, Zenon
  <2>8. /\ IsSequence(a) /\ Len(a) = 1 /\ IsSequence(b) /\ Len(b) = 4
          /\ IsSequence(c) /\ Len(c) = 1
    BY <2>5, <2>6, <2>7, Zenon
  <2> HIDE DEF a, b, c
  <2>9. /\ IsSequence(ab) /\ Len(ab) = 5 /\ ab[1] = a[1] /\ ab[2] = b[1]
          /\ ab[3] = b[2] /\ ab[4] = b[3] /\ ab[5] = b[4]
    <3>1. IsSequence(a) /\ IsSequence(b)
      BY <2>8
    <3>2. JoinOf(ab, a, b)
      BY <3>1, JoinOfIs
    <3> HIDE DEF ab
    <3> QED
      BY <2>8, <3>2 DEF JoinOf
  <2> HIDE DEF ab
  <2>10. /\ IsSequence(ts) /\ Len(ts) = 6 /\ ts[1] = ab[1] /\ ts[2] = ab[2]
          /\ ts[3] = ab[3] /\ ts[4] = ab[4] /\ ts[5] = ab[5] /\ ts[6] = c[1]
    <3>1. IsSequence(ab) /\ IsSequence(c)
      BY <2>8, <2>9
    <3>2. JoinOf(ts, ab, c)
      BY <3>1, JoinOfIs
    <3> HIDE DEF ts
    <3> QED
      BY <2>8, <2>9, <3>2 DEF JoinOf
  <2> HIDE DEF ts
  <2>11. ts[1].do = "declarator" /\ ts[1].c = sh
    <3>1. ts[1] = Of("declarator", sh)
      BY <2>10, <2>9, <2>5, <2>6, <2>7, Zenon
    <3>2. Of("declarator", sh).do = "declarator" /\ Of("declarator", sh).c = sh
      BY OfIs
    <3> QED
      BY <3>1, <3>2, Zenon
  <2>12. ts[2].do = "array"
    BY <2>10, <2>9, <2>5, <2>6, <2>7, CallIs, Zenon
  <2>13. ts[3].do = "init"
    BY <2>10, <2>9, <2>5, <2>6, <2>7, CallIs, Zenon
  <2>14. ts[4].do = "finish_var" /\ ts[4].c = sh
    <3>1. ts[4] = Of("finish_var", sh)
      BY <2>10, <2>9, <2>5, <2>6, <2>7, Zenon
    <3>2. Of("finish_var", sh).do = "finish_var" /\ Of("finish_var", sh).c = sh
      BY OfIs
    <3> QED
      BY <3>1, <3>2, Zenon
  <2>15. ts[5].do = "more" /\ ts[5].c = sh
    <3>1. ts[5] = Of("more", sh)
      BY <2>10, <2>9, <2>5, <2>6, <2>7, Zenon
    <3>2. Of("more", sh).do = "more" /\ Of("more", sh).c = sh
      BY OfIs
    <3> QED
      BY <3>1, <3>2, Zenon
  <2>16. /\ ts[6].do = "make" /\ ts[6].first = TokenSpan(pos)
          /\ ts[6].from = Len(vals) /\ ts[6].ends = "written"
    <3>1. Made(ts[6], TokenSpan(pos), Len(vals), "written")
      BY <2>10, <2>9, <2>5, <2>6, <2>7, MakeFromTokenIs, Zenon
    <3> QED
      BY <3>1 DEF Made
  <2>17. Listed(ts)
    <3>1. Fine(ts[1]) /\ Fine(ts[2]) /\ Fine(ts[3])
      BY <2>11, <2>12, <2>13 DEF Fine, TaskIs, Tasks, Handlers
    <3>2. Fine(ts[4]) /\ Fine(ts[5]) /\ Fine(ts[6])
      BY <2>14, <2>15, <2>16 DEF Fine, TaskIs, Tasks, Handlers
    <3>3. \A i \in 1 .. 6 : Fine(ts[i])
      BY <3>1, <3>2
    <3>4. \A i \in 2 .. 6 : (ts[i].do \in AtToken => ts[i - 1].do = "expect") /\ ts[i].do # "block"
      BY <2>11, <2>12, <2>13, <2>14, <2>15, <2>16 DEF AtToken
    <3>5. IsSequence(ts) /\ Len(ts) = 6
      BY <2>10, Zenon
    <3>6. ts # <<>>
      BY <3>5, SequenceElim
    <3> QED
      BY <3>3, <3>4, <3>5, <3>6 DEF Listed
  <2>18. Begins(ts[1], p)
    BY <2>11, BeginsAnywhere DEF AtToken
  <2>19. IsSpan(TokenSpan(pos))
    BY <1>2, <1>3, <1>4, <1>6, TokenHere
  <2>20. Job(ts[1], p, Len(vals), Len(vals) + 1)
    BY <1>2, <1>3, <1>4, <2>11, <2>1, DeclarationJob DEF OfDeclaration
  <2>21. Job(ts[2], p, Len(vals) + 1, Len(vals) + 1)
    BY <1>2, <1>3, <1>4, <2>12, <2>1, UsingJob DEF Using
  <2>22. Job(ts[3], p, Len(vals) + 1, Len(vals) + 1)
    BY <1>2, <1>3, <1>4, <2>13, <2>1, UsingJob DEF Using
  <2>23. Job(ts[4], p, Len(vals) + 1, Len(vals) + 1)
    BY <1>2, <1>3, <1>4, <2>14, <2>1, DeclarationJob DEF OfDeclaration
  <2>24. Job(ts[5], p, Len(vals) + 1, Len(vals) + 1)
    BY <1>2, <1>3, <1>4, <2>15, <2>1, DeclarationJob DEF OfDeclaration
  <2>25. Job(ts[6], p, Len(vals) + 1, Len(vals) + 1)
    BY <1>2, <1>3, <1>4, <2>16, <2>1, <2>19 DEF Job, Carries, Enough, Yields, Giving, Closing, Handlers
  <2>26. \E g : Jobs(ts, g, Len(vals), p)
    <3> DEFINE g == [i \in 1 .. 7 |-> IF i <= 1 THEN Len(vals) ELSE Len(vals) + 1]
    <3>1. /\ g[1] = Len(vals) /\ g[2] = Len(vals) + 1 /\ g[3] = Len(vals) + 1
            /\ g[4] = Len(vals) + 1 /\ g[5] = Len(vals) + 1 /\ g[6] = Len(vals) + 1
            /\ g[7] = Len(vals) + 1
      OBVIOUS
    <3> HIDE DEF g
    <3>2. \A i \in 1 .. 7 : g[i] \in Nat
      <4>1. /\ g[1] \in Nat /\ g[2] \in Nat /\ g[3] \in Nat /\ g[4] \in Nat
            /\ g[5] \in Nat /\ g[6] \in Nat /\ g[7] \in Nat
        BY <1>2, <1>3, <1>4, <3>1
      <4>2. \A i \in 1 .. 7 : i = 1 \/ i = 2 \/ i = 3 \/ i = 4 \/ i = 5 \/ i = 6 \/ i = 7
        OBVIOUS
      <4> QED
        BY <4>1, <4>2, Zenon
    <3>3. \A i \in 1 .. 6 : Len(vals) <= g[i]
      <4>1. /\ Len(vals) <= g[1] /\ Len(vals) <= g[2] /\ Len(vals) <= g[3]
            /\ Len(vals) <= g[4] /\ Len(vals) <= g[5] /\ Len(vals) <= g[6]
        BY <1>2, <1>3, <1>4, <3>1
      <4>2. \A i \in 1 .. 6 : i = 1 \/ i = 2 \/ i = 3 \/ i = 4 \/ i = 5 \/ i = 6
        OBVIOUS
      <4> QED
        BY <4>1, <4>2, Zenon
    <3>4. \A i \in 1 .. 6 : Job(ts[i], p, g[i], g[i + 1])
      <4>1. /\ Job(ts[1], p, g[1], g[1 + 1]) /\ Job(ts[2], p, g[2], g[2 + 1])
            /\ Job(ts[3], p, g[3], g[3 + 1])
        BY <3>1, <2>20, <2>21, <2>22
      <4>2. /\ Job(ts[4], p, g[4], g[4 + 1]) /\ Job(ts[5], p, g[5], g[5 + 1])
            /\ Job(ts[6], p, g[6], g[6 + 1])
        BY <3>1, <2>23, <2>24, <2>25
      <4>3. \A i \in 1 .. 6 : i = 1 \/ i = 2 \/ i = 3 \/ i = 4 \/ i = 5 \/ i = 6
        OBVIOUS
      <4> QED
        BY <4>1, <4>2, <4>3, Zenon
    <3>5. Len(ts) = 6 /\ Len(ts) + 1 = 7
      BY <2>10
    <3>6. g[1] <= Len(vals) /\ \A m \in Nat : Yields(todo[1], Len(vals), m) => m <= g[7]
      BY <1>2, <1>3, <1>4, <3>1
    <3>7. \A i \in 1 .. 6 : Reaches(todo[1], g[i])
      BY <3>3 DEF Reaches
    <3> QED
      BY <3>2, <3>4, <3>5, <3>6, <3>7, Zenon DEF Jobs
  <2>27. Nests(todo[1], ts, vals, p)
    <3>1. /\ ~Joins(ts[1]) /\ ts[1].do \notin Operand
            /\ ~Joins(ts[2]) /\ ts[2].do \notin Operand
            /\ ~Joins(ts[3]) /\ ts[3].do \notin Operand
            /\ ~Joins(ts[4]) /\ ts[4].do \notin Operand
            /\ ~Joins(ts[5]) /\ ts[5].do \notin Operand
            /\ ~Joins(ts[6]) /\ ts[6].do \notin Operand
      BY <2>11, <2>12, <2>13, <2>14, <2>15, <2>16 DEF Joins, Operand
    <3>2. \A i \in 1 .. 6 : ~Joins(ts[i]) /\ ts[i].do \notin Operand
      <4>1. \A i \in 1 .. 6 : i = 1 \/ i = 2 \/ i = 3 \/ i = 4 \/ i = 5 \/ i = 6
        OBVIOUS
      <4> QED
        BY <3>1, <4>1, Zenon
    <3> QED
      BY <1>5, <2>10, <3>2, CalmNests
  <2> QED
    BY <1>1, <1>3, <2>3, <2>4, <2>11, <2>17, <2>18, <2>26, <2>27,
       NothingReported, ListedKeeps DEF Consuming
<1> QED
  BY <1>7, <1>8, Zenon

LEMMA ParseCastKeeps ==
  ASSUME InOrder, Shaped, Nested, ParseCast
  PROVE  InOrder' /\ Shaped' /\ Nested'
<1>1. At("primary")
  BY Zenon DEF ParseCast
<1>2. tokens \in Texts /\ pos \in Places /\ pos \in Nat /\ Ahead(pos, pos)
  BY <1>1, HeadIs, Zenon
<1>3. /\ Task = todo[1] /\ todo[1].do = "primary" /\ Len(vals) \in Nat
      /\ AreNodes(vals)
  BY <1>1, HeadIs, HeadShaped, Zenon
<1>4. \A m \in Nat : Yields(todo[1], Len(vals), m) => m <= Len(vals) + 1
  BY <1>3 DEF Yields, Giving, Closing, Handlers
<1>5. Kind(pos) # "none" /\ Kind(pos) # "eof"
  BY Zenon DEF ParseCast
<1>6. Ahead(pos, pos + 1) /\ pos + 1 \in Places /\ pos < pos + 1
  BY <1>2, <1>5, NextPlace
<1>7. CASE TypeSpecifier(pos + 1).ty = <<>>
  <2> DEFINE spec == TypeSpecifier(pos + 1)
  <2>1. Ahead(pos + 1, spec.end) /\ Ahead(pos, spec.end)
    BY <1>2, <1>6, TypeSpecifierIs, AheadIs
  <2>2. AreReports(TypeSpecifier(pos + 1).errors)
    BY <1>7, <1>2, <1>6, TypeErrorsAre
  <2> DEFINE p == TypeSpecifier(pos + 1).end
  <2>3. PICK es : Fail(p, es) /\ AreReports(es)
    BY <1>7, <2>2, Zenon DEF ParseCast, Go, Push
  <2>4. Ahead(pos, p)
    BY <1>7, <2>1
  <2> HIDE DEF p
  <2> QED
    BY <1>1, <2>3, <2>4, NothingReported, FailKeeps DEF Rounds
<1>8. CASE TypeSpecifier(pos + 1).ty # <<>>
  <2> DEFINE spec == TypeSpecifier(pos + 1)
  <2>1. Ahead(pos + 1, spec.end) /\ Ahead(pos, spec.end)
    BY <1>2, <1>6, TypeSpecifierIs, AheadIs
  <2> DEFINE d == Pointers(spec.end, spec.ty[1], FALSE)
  <2>2. Ahead(spec.end, d.end)
    BY <1>2, <1>6, <2>1, PointersIs, AheadIs
  <2>3. AreReports(TypeSpecifier(pos + 1).errors)
    BY <1>8, <1>2, <1>6, TypeErrorsAre
  <2> DEFINE ts == <<Expect(")"), Call("unary"), [MakeFromToken("cast", "", pos,
                     "value") EXCEPT !.ty = d.ty]>>
  <2> DEFINE p == d.end
  <2>4. PICK es : Step(p, ts, vals, es) /\ AreReports(es)
    BY <1>8, <2>3, Zenon DEF ParseCast, Go, Push, CastTo
  <2>5. Ahead(pos, p) /\ p # pos
    BY <1>8, <1>2, <1>6, <2>1, <2>2, AheadOver
  <2>6. Through(pos, p)
    <3> DEFINE e == spec.end
    <3>1. Kind(pos) \notin Ends
      BY Zenon DEF ParseCast, Ends, StmtKeywords
    <3>2. Through(pos, pos + 1)
      BY <1>2, <3>1, ThroughOne
    <3>3. Through(pos + 1, e)
      BY <1>2, <1>6, ThroughTypeSpecifier
    <3>4. e \in Places /\ pos + 1 <= e
      BY <2>1 DEF Ahead
    <3>5. Through(e, p)
      BY <1>2, <3>4, ThroughPointers
    <3>6. e <= p /\ p \in Places
      BY <2>2 DEF Ahead
    <3> HIDE DEF e, p
    <3>7. e \in Nat /\ p \in Nat /\ pos + 1 \in Nat
      BY <1>2, <3>4, <3>6, TokensAre
    <3>8. Through(pos, e)
      BY <1>2, <3>2, <3>3, <3>4, <3>7, ThroughOn
    <3> QED
      BY <1>2, <3>4, <3>5, <3>6, <3>7, <3>8, ThroughOn
  <2>7. pos < p
    <3> DEFINE e == spec.end
    <3>1. e \in Places /\ pos + 1 <= e
      BY <2>1 DEF Ahead
    <3>2. e <= p /\ p \in Places
      BY <2>2 DEF Ahead
    <3> HIDE DEF e, p
    <3>3. e \in Nat /\ p \in Nat /\ pos + 1 \in Nat
      BY <1>2, <3>1, <3>2, TokensAre
    <3> QED
      BY <1>2, <3>1, <3>2, <3>3
  <2> HIDE DEF p
  <2>8. /\ IsSequence(ts) /\ Len(ts) = 3 /\ ts[1] = Expect(")")
          /\ ts[2] = Call("unary")
          /\ ts[3] = [MakeFromToken("cast", "", pos, "value") EXCEPT !.ty = d.ty]
    BY SequenceThree
  <2> HIDE DEF ts
  <2>9. IsSequence(ts) /\ Len(ts) = 3
    BY <2>8
  <2>10. ts[1].do = "expect" /\ Fine(ts[1])
    BY <2>8, ExpectIs, Zenon
  <2>11. ts[2].do = "unary"
    BY <2>8, CallIs, Zenon
  <2>12. /\ ts[3].do = "make" /\ ts[3].first = TokenSpan(pos)
          /\ ts[3].from = Len(vals) /\ ts[3].ends = "value"
    <3>1. /\ [MakeFromToken("cast", "", pos, "value") EXCEPT !.ty = d.ty].do = "make"
            /\ [MakeFromToken("cast", "", pos, "value") EXCEPT !.ty = d.ty].first = TokenSpan(pos)
            /\ [MakeFromToken("cast", "", pos, "value") EXCEPT !.ty = d.ty].from = Len(vals)
            /\ [MakeFromToken("cast", "", pos, "value") EXCEPT !.ty = d.ty].ends = "value"
      BY DEF Make, MakeFromToken
    <3> QED
      BY <2>8, <3>1, Zenon
  <2>13. Listed(ts)
    <3>1. \A i \in 1 .. 3 : Fine(ts[i])
      BY <2>10, <2>11, <2>12 DEF Fine, TaskIs, Tasks, Handlers
    <3>2. \A i \in 2 .. 3 : (ts[i].do \in AtToken => ts[i - 1].do = "expect") /\ ts[i].do # "block"
      BY <2>10, <2>11, <2>12 DEF AtToken
    <3> QED
      BY <2>9, <3>1, <3>2, SequenceElim DEF Listed
  <2>14. Begins(ts[1], p)
    BY <2>10, BeginsAnywhere DEF AtToken
  <2>15. IsSpan(TokenSpan(pos))
    BY <1>2, <1>3, <1>4, <1>5, TokenHere
  <2>16. Job(ts[1], p, Len(vals), Len(vals))
    BY <1>2, <1>3, <1>4, <2>10, PlainJob DEF Plain
  <2>17. Job(ts[2], p, Len(vals), Len(vals) + 1)
    BY <1>2, <1>3, <1>4, <2>11, GivingJob DEF Giving
  <2>18. Job(ts[3], p, Len(vals) + 1, Len(vals) + 1)
    BY <1>2, <1>3, <1>4, <2>12, <2>15 DEF Job, Carries, Enough, Yields, Giving, Closing, Handlers
  <2>19. \E g : Jobs(ts, g, Len(vals), p)
    <3> DEFINE g == [i \in 1 .. 4 |-> IF i <= 2 THEN Len(vals) ELSE Len(vals) + 1]
    <3>1. /\ g[1] = Len(vals) /\ g[2] = Len(vals) /\ g[3] = Len(vals) + 1
            /\ g[4] = Len(vals) + 1
      OBVIOUS
    <3> HIDE DEF g
    <3>2. \A i \in 1 .. 4 : g[i] \in Nat
      BY <1>2, <1>3, <1>4, <3>1
    <3>3. \A i \in 1 .. 3 : Reaches(todo[1], g[i])
      BY <1>2, <1>3, <1>4, <3>1 DEF Reaches
    <3>4. \A i \in 1 .. 3 : Job(ts[i], p, g[i], g[i + 1])
      BY <3>1, <2>16, <2>17, <2>18
    <3>5. Len(ts) = 3 /\ Len(ts) + 1 = 4
      BY <2>9
    <3>6. g[1] <= Len(vals) /\ \A m \in Nat : Yields(todo[1], Len(vals), m) => m <= g[4]
      BY <1>2, <1>3, <1>4, <3>1
    <3> QED
      BY <3>2, <3>4, <3>5, <3>6, <3>3, Zenon DEF Jobs
  <2>20. Expecting(todo[1], p)
    BY <1>1, <2>5, <2>6, ExpectingIs
  <2>21. ts[1].k = ")"
    <3>1. ts[1] = Expect(")")
      BY <2>8, Zenon
    <3> QED
      BY <3>1, ExpectIs, Zenon
  <2>22. Held(ts[1], todo[1], p)
    BY <2>10, <2>21 DEF Held, InExpr
  <2>23. Held(ts[2], todo[1], p)
    BY <2>11 DEF Held, InExpr
  <2>24. Held(ts[3], todo[1], p)
    BY <1>2, <1>3, <2>7, <2>12 DEF Held, InExpr, TokenSpan
  <2>25. Nests(todo[1], ts, vals, p)
    <3>1. \A i \in 1 .. 3 : Held(ts[i], todo[1], p)
      BY <2>22, <2>23, <2>24
    <3>2. \A j \in 1 .. 3 : Joins(ts[j]) => \A i \in 1 .. j - 1 : ts[i].do \notin {"make", "comma"}
      BY <2>10, <2>11, <2>12 DEF Joins
    <3>3. \A i \in 2 .. 3 : ts[i].do \in Operand => LeavesOperand(ts[i - 1])
      BY <2>10, <2>11, <2>12 DEF Operand, LeavesOperand, Joins
    <3>4. ts[1].do \notin Operand /\ (LeavesOperand(todo[1]) => LeavesOperand(ts[3]))
      BY <1>3, <2>10, <2>11, <2>12 DEF Operand, LeavesOperand, Joins
    <3>5. Parts(todo[1], ts, p) /\ ts # <<>>
      BY <2>9, <3>1, <3>2, <3>3, <3>4, SequenceElim DEF Parts
    <3> QED
      BY <2>9, <2>20, <3>5, PartsNest
  <2> QED
    BY <1>1, <1>3, <2>4, <2>5, <2>10, <2>13, <2>14, <2>19, <2>25,
       NothingReported, ListedKeeps DEF Consuming
<1> QED
  BY <1>7, <1>8, Zenon

LEMMA ParseParamKeeps ==
  ASSUME InOrder, Shaped, Nested, ParseParam
  PROVE  InOrder' /\ Shaped' /\ Nested'
<1>1. At("param")
  BY Zenon DEF ParseParam
<1>2. tokens \in Texts /\ pos \in Places /\ pos \in Nat /\ Ahead(pos, pos)
  BY <1>1, HeadIs, Zenon
<1>3. /\ Task = todo[1] /\ todo[1].do = "param" /\ Len(vals) \in Nat
      /\ AreNodes(vals) /\ Task.from \in Nat /\ Task.from <= Len(vals)
  <2>1. Task = todo[1] /\ todo[1].do = "param"
    BY <1>1, HeadIs, Zenon
  <2>2. Carries(todo[1], pos) /\ Enough(todo[1], Len(vals)) /\ Len(vals) \in Nat /\ AreNodes(vals)
    BY <1>1, HeadShaped, Zenon
  <2> QED
    BY <2>1, <2>2 DEF Carries, Enough, Handlers
<1>4. \A m \in Nat : Yields(todo[1], Len(vals), m) => m <= Task.from + 1
  BY <1>3 DEF Yields, Giving, Closing, Handlers
<1>5. ~InExpr(todo[1])
  BY <1>3 DEF InExpr
<1>6. CASE Kind(pos) = "..."
  <2> DEFINE ts == <<EndParams("variadic", Task.from)>>
  <2>1. Step(pos + 1, ts, vals, <<>>)
    BY <1>6, Zenon DEF ParseParam, Go, Push
  <2>2. Ahead(pos, pos + 1)
    BY <1>6, <1>2, NextPlace, Zenon
  <2>3. /\ IsSequence(ts) /\ Len(ts) = 1
          /\ ts[1] = EndParams("variadic", Task.from)
    BY SequenceOne, Zenon
  <2> HIDE DEF ts
  <2>4. IsSequence(ts) /\ Len(ts) = 1
    BY <2>3
  <2>5. /\ ts[1].do = "make" /\ ts[1].first = TokenSpan(1)
          /\ ts[1].from = Task.from /\ ts[1].ends = "written"
    <3>1. Made(ts[1], TokenSpan(1), Task.from, "written")
      BY <2>3, EndParamsIs, Zenon
    <3> QED
      BY <3>1 DEF Made
  <2>6. Listed(ts)
    <3>1. Fine(ts[1])
      BY <2>5 DEF Fine, TaskIs, Tasks, Handlers
    <3> QED
      BY <2>4, <3>1, SequenceElim DEF Listed
  <2>7. Begins(ts[1], pos + 1)
    BY <2>5, BeginsAnywhere DEF AtToken
  <2>8. IsSpan(TokenSpan(1))
    BY <1>2, <1>3, <1>4, FirstSpanOK
  <2>9. Job(ts[1], pos + 1, Len(vals), Task.from + 1)
    BY <1>2, <1>3, <1>4, <2>5, <2>8 DEF Job, Carries, Enough, Yields, Giving, Closing, Handlers
  <2>10. \E g : Jobs(ts, g, Len(vals), pos + 1)
    <3> DEFINE g == [i \in 1 .. 2 |-> IF i <= 1 THEN Len(vals) ELSE Task.from + 1]
    <3>1. g[1] = Len(vals) /\ g[2] = Task.from + 1
      OBVIOUS
    <3> HIDE DEF g
    <3>2. \A i \in 1 .. 2 : g[i] \in Nat
      BY <1>2, <1>3, <1>4, <3>1
    <3>3. \A i \in 1 .. 1 : Reaches(todo[1], g[i])
      BY <1>2, <1>3, <1>4, <3>1 DEF Reaches
    <3>4. \A i \in 1 .. 1 : Job(ts[i], pos + 1, g[i], g[i + 1])
      BY <3>1, <2>9
    <3>5. Len(ts) = 1 /\ Len(ts) + 1 = 2
      BY <2>4
    <3>6. g[1] <= Len(vals) /\ \A m \in Nat : Yields(todo[1], Len(vals), m) => m <= g[2]
      BY <1>2, <1>3, <1>4, <3>1
    <3> QED
      BY <3>2, <3>4, <3>5, <3>6, <3>3, Zenon DEF Jobs
  <2>11. Nests(todo[1], ts, vals, pos + 1)
    <3>1. \A i \in 1 .. 1 : ~Joins(ts[i]) /\ ts[i].do \notin Operand
      BY <2>5 DEF Joins, Operand
    <3> QED
      BY <1>5, <2>4, <3>1, CalmNests
  <2> QED
    BY <1>1, <1>3, <2>1, <2>2, <2>5, <2>6, <2>7, <2>10, <2>11,
       NothingReported, ListedKeeps DEF Consuming
<1>7. CASE Kind(pos) # "..." /\ Kind(pos) = "none"
  <2> DEFINE ts == <<EndParams("fixed", Task.from)>>
  <2>1. Step(pos, ts, vals, <<>>)
    BY <1>7, Zenon DEF ParseParam, Go, Push
  <2>2. Ahead(pos, pos)
    BY <1>7, <1>2
  <2>3. IsSequence(ts) /\ Len(ts) = 1 /\ ts[1] = EndParams("fixed", Task.from)
    BY SequenceOne, Zenon
  <2> HIDE DEF ts
  <2>4. IsSequence(ts) /\ Len(ts) = 1
    BY <2>3
  <2>5. /\ ts[1].do = "make" /\ ts[1].first = TokenSpan(1)
          /\ ts[1].from = Task.from /\ ts[1].ends = "written"
    <3>1. Made(ts[1], TokenSpan(1), Task.from, "written")
      BY <2>3, EndParamsIs, Zenon
    <3> QED
      BY <3>1 DEF Made
  <2>6. Listed(ts)
    <3>1. Fine(ts[1])
      BY <2>5 DEF Fine, TaskIs, Tasks, Handlers
    <3> QED
      BY <2>4, <3>1, SequenceElim DEF Listed
  <2>7. Begins(ts[1], pos)
    BY <2>5, BeginsAnywhere DEF AtToken
  <2>8. IsSpan(TokenSpan(1))
    BY <1>2, <1>3, <1>4, FirstSpanOK
  <2>9. Job(ts[1], pos, Len(vals), Task.from + 1)
    BY <1>2, <1>3, <1>4, <2>5, <2>8 DEF Job, Carries, Enough, Yields, Giving, Closing, Handlers
  <2>10. \E g : Jobs(ts, g, Len(vals), pos)
    <3> DEFINE g == [i \in 1 .. 2 |-> IF i <= 1 THEN Len(vals) ELSE Task.from + 1]
    <3>1. g[1] = Len(vals) /\ g[2] = Task.from + 1
      OBVIOUS
    <3> HIDE DEF g
    <3>2. \A i \in 1 .. 2 : g[i] \in Nat
      BY <1>2, <1>3, <1>4, <3>1
    <3>3. \A i \in 1 .. 1 : Reaches(todo[1], g[i])
      BY <1>2, <1>3, <1>4, <3>1 DEF Reaches
    <3>4. \A i \in 1 .. 1 : Job(ts[i], pos, g[i], g[i + 1])
      BY <3>1, <2>9
    <3>5. Len(ts) = 1 /\ Len(ts) + 1 = 2
      BY <2>4
    <3>6. g[1] <= Len(vals) /\ \A m \in Nat : Yields(todo[1], Len(vals), m) => m <= g[2]
      BY <1>2, <1>3, <1>4, <3>1
    <3> QED
      BY <3>2, <3>4, <3>5, <3>6, <3>3, Zenon DEF Jobs
  <2>11. Nests(todo[1], ts, vals, pos)
    <3>1. \A i \in 1 .. 1 : ~Joins(ts[i]) /\ ts[i].do \notin Operand
      BY <2>5 DEF Joins, Operand
    <3> QED
      BY <1>5, <2>4, <3>1, CalmNests
  <2> QED
    BY <1>1, <1>3, <2>1, <2>2, <2>5, <2>6, <2>7, <2>10, <2>11,
       NothingReported, ListedKeeps DEF Consuming
<1>8. CASE Kind(pos) # "..." /\ Kind(pos) # "none" /\ TypeSpecifier(Attributes(pos).end).ty = <<>>
  <2> DEFINE attrs == Attributes(pos)
             spec == TypeSpecifier(attrs.end)
  <2>1. Ahead(pos, attrs.end)
    BY <1>2, AttributesIs
  <2>2. Ahead(attrs.end, spec.end)
    BY <1>2, <2>1, TypeSpecifierIs, AheadIs
  <2>3. Ahead(pos, spec.end)
    BY <1>2, <2>1, <2>2, AheadIs
  <2>4. AreReports(TypeSpecifier(Attributes(pos).end).errors)
    BY <1>8, <1>2, <2>1, AheadIs, TypeErrorsAre
  <2> DEFINE ts == <<EndParams("fixed", Task.from)>>
  <2> DEFINE p == spec.end
  <2>5. PICK es : Step(p, ts, vals, es) /\ AreReports(es)
    BY <1>8, <2>4, Zenon DEF ParseParam, Go, Push, DeclareTyped
  <2>6. Ahead(pos, p)
    BY <1>8, <2>3
  <2> HIDE DEF p
  <2>7. IsSequence(ts) /\ Len(ts) = 1 /\ ts[1] = EndParams("fixed", Task.from)
    BY SequenceOne, Zenon
  <2> HIDE DEF ts
  <2>8. IsSequence(ts) /\ Len(ts) = 1
    BY <2>7
  <2>9. /\ ts[1].do = "make" /\ ts[1].first = TokenSpan(1)
          /\ ts[1].from = Task.from /\ ts[1].ends = "written"
    <3>1. Made(ts[1], TokenSpan(1), Task.from, "written")
      BY <2>7, EndParamsIs, Zenon
    <3> QED
      BY <3>1 DEF Made
  <2>10. Listed(ts)
    <3>1. Fine(ts[1])
      BY <2>9 DEF Fine, TaskIs, Tasks, Handlers
    <3> QED
      BY <2>8, <3>1, SequenceElim DEF Listed
  <2>11. Begins(ts[1], p)
    BY <2>9, BeginsAnywhere DEF AtToken
  <2>12. IsSpan(TokenSpan(1))
    BY <1>2, <1>3, <1>4, FirstSpanOK
  <2>13. Job(ts[1], p, Len(vals), Task.from + 1)
    BY <1>2, <1>3, <1>4, <2>9, <2>12 DEF Job, Carries, Enough, Yields, Giving, Closing, Handlers
  <2>14. \E g : Jobs(ts, g, Len(vals), p)
    <3> DEFINE g == [i \in 1 .. 2 |-> IF i <= 1 THEN Len(vals) ELSE Task.from + 1]
    <3>1. g[1] = Len(vals) /\ g[2] = Task.from + 1
      OBVIOUS
    <3> HIDE DEF g
    <3>2. \A i \in 1 .. 2 : g[i] \in Nat
      BY <1>2, <1>3, <1>4, <3>1
    <3>3. \A i \in 1 .. 1 : Reaches(todo[1], g[i])
      BY <1>2, <1>3, <1>4, <3>1 DEF Reaches
    <3>4. \A i \in 1 .. 1 : Job(ts[i], p, g[i], g[i + 1])
      BY <3>1, <2>13
    <3>5. Len(ts) = 1 /\ Len(ts) + 1 = 2
      BY <2>8
    <3>6. g[1] <= Len(vals) /\ \A m \in Nat : Yields(todo[1], Len(vals), m) => m <= g[2]
      BY <1>2, <1>3, <1>4, <3>1
    <3> QED
      BY <3>2, <3>4, <3>5, <3>6, <3>3, Zenon DEF Jobs
  <2>15. Nests(todo[1], ts, vals, p)
    <3>1. \A i \in 1 .. 1 : ~Joins(ts[i]) /\ ts[i].do \notin Operand
      BY <2>9 DEF Joins, Operand
    <3> QED
      BY <1>5, <2>8, <3>1, CalmNests
  <2> QED
    BY <1>1, <1>3, <2>5, <2>6, <2>9, <2>10, <2>11, <2>14, <2>15,
       NothingReported, ListedKeeps DEF Consuming
<1>9. CASE Kind(pos) # "..." /\ Kind(pos) # "none" /\ TypeSpecifier(Attributes(pos).end).ty # <<>>
              /\ Kind(Pointers(TypeSpecifier(Attributes(pos).end).end, TypeSpecifier(Attributes(pos).end).ty[1], TRUE).end) # "ident"
  <2> DEFINE attrs == Attributes(pos)
             spec == TypeSpecifier(attrs.end)
  <2>1. Ahead(pos, attrs.end)
    BY <1>2, AttributesIs
  <2>2. Ahead(attrs.end, spec.end)
    BY <1>2, <2>1, TypeSpecifierIs, AheadIs
  <2>3. Ahead(pos, spec.end)
    BY <1>2, <2>1, <2>2, AheadIs
  <2> DEFINE d == Pointers(spec.end, spec.ty[1], TRUE)
             ty == ApplyOutermostOwnership(d.ty, attrs.own)
  <2>4. Ahead(spec.end, d.end)
    BY <1>2, <2>3, PointersIs, AheadIs
  <2>5. Ahead(pos, d.end)
    <3> HIDE DEF d, spec
    <3> QED
      BY <1>2, <2>3, <2>4, AheadThen
  <2>6. IsSpan(TokenSpan(pos))
    BY <1>9, <1>2, TokenHere
  <2>7. AreReports(TypeSpecifier(Attributes(pos).end).errors)
    BY <1>9, <1>2, <2>1, AheadIs, TypeErrorsAre
  <2>8. IsNode(N("var", "", <<>>, ty, TokenSpan(pos)))
    BY <1>9, <1>2, <1>3, <1>4, <2>6, NodeIs
  <2> DEFINE ts == <<Call("array"), MoreParams(Task.from)>>
  <2> DEFINE p == d.end
  <2>9. PICK es, n : Step(p, ts, Append(vals, n), es) /\ AreReports(es) /\ IsNode(n)
    BY <1>9, <2>7, <2>8, Zenon DEF ParseParam, Go, Push, DeclareTyped, DeclareParam
  <2>10. Ahead(pos, p)
    BY <1>9, <2>5
  <2> HIDE DEF p
  <2>11. AreNodes(Append(vals, n)) /\ Len(Append(vals, n)) = Len(vals) + 1
    BY <1>3, <2>9, NodesGrow
  <2>12. /\ IsSequence(ts) /\ Len(ts) = 2 /\ ts[1] = Call("array")
          /\ ts[2] = MoreParams(Task.from)
    BY SequenceTwo, Zenon
  <2> HIDE DEF ts
  <2>13. IsSequence(ts) /\ Len(ts) = 2
    BY <2>12
  <2>14. ts[1].do = "array"
    BY <2>12, CallIs, Zenon
  <2>15. ts[2].do = "param_more" /\ ts[2].from = Task.from
    <3>1. ts[2] = MoreParams(Task.from)
      BY <2>12, Zenon
    <3>2. /\ MoreParams(Task.from).do = "param_more"
            /\ MoreParams(Task.from).from = Task.from
      BY ParamIs
    <3> QED
      BY <3>1, <3>2, Zenon
  <2>16. Listed(ts)
    <3>1. \A i \in 1 .. 2 : Fine(ts[i])
      BY <2>14, <2>15 DEF Fine, TaskIs, Tasks, Handlers
    <3>2. \A i \in 2 .. 2 : (ts[i].do \in AtToken => ts[i - 1].do = "expect") /\ ts[i].do # "block"
      BY <2>14, <2>15 DEF AtToken
    <3> QED
      BY <2>13, <3>1, <3>2, SequenceElim DEF Listed
  <2>17. Begins(ts[1], p)
    BY <2>14, BeginsAnywhere DEF AtToken
  <2>18. Job(ts[1], p, Len(vals) + 1, Len(vals) + 1)
    BY <1>2, <1>3, <1>4, <2>14, UsingJob DEF Using
  <2>19. Job(ts[2], p, Len(vals) + 1, Task.from + 1)
    BY <1>2, <1>3, <1>4, <2>15, ClosingJob
  <2>20. \E g : Jobs(ts, g, Len(Append(vals, n)), p)
    <3> DEFINE g == [i \in 1 .. 3 |-> IF i <= 2 THEN Len(vals) + 1 ELSE Task.from + 1]
    <3>1. g[1] = Len(vals) + 1 /\ g[2] = Len(vals) + 1 /\ g[3] = Task.from + 1
      OBVIOUS
    <3> HIDE DEF g
    <3>2. \A i \in 1 .. 3 : g[i] \in Nat
      BY <1>2, <1>3, <1>4, <3>1
    <3>3. \A i \in 1 .. 2 : Reaches(todo[1], g[i])
      BY <1>2, <1>3, <1>4, <3>1 DEF Reaches
    <3>4. \A i \in 1 .. 2 : Job(ts[i], p, g[i], g[i + 1])
      BY <3>1, <2>18, <2>19
    <3>5. Len(ts) = 2 /\ Len(ts) + 1 = 3
      BY <2>13
    <3>6. g[1] <= Len(Append(vals, n)) /\ \A m \in Nat : Yields(todo[1], Len(vals), m) => m <= g[3]
      BY <1>2, <1>3, <1>4, <2>11, <3>1
    <3> QED
      BY <3>2, <3>4, <3>5, <3>6, <3>3, Zenon DEF Jobs
  <2>21. Nests(todo[1], ts, Append(vals, n), p)
    <3>1. \A i \in 1 .. 2 : ~Joins(ts[i]) /\ ts[i].do \notin Operand
      BY <2>14, <2>15 DEF Joins, Operand
    <3> QED
      BY <1>5, <2>13, <3>1, CalmNests
  <2> QED
    BY <1>1, <1>3, <2>11, <2>9, <2>10, <2>14, <2>16, <2>17, <2>20, <2>21,
       NothingReported, ListedKeeps DEF Consuming
<1>10. CASE Kind(pos) # "..." /\ Kind(pos) # "none" /\ TypeSpecifier(Attributes(pos).end).ty # <<>>
              /\ Kind(Pointers(TypeSpecifier(Attributes(pos).end).end, TypeSpecifier(Attributes(pos).end).ty[1], TRUE).end) = "ident"
  <2> DEFINE attrs == Attributes(pos)
             spec == TypeSpecifier(attrs.end)
  <2>1. Ahead(pos, attrs.end)
    BY <1>2, AttributesIs
  <2>2. Ahead(attrs.end, spec.end)
    BY <1>2, <2>1, TypeSpecifierIs, AheadIs
  <2>3. Ahead(pos, spec.end)
    BY <1>2, <2>1, <2>2, AheadIs
  <2> DEFINE d == Pointers(spec.end, spec.ty[1], TRUE)
             ty == ApplyOutermostOwnership(d.ty, attrs.own)
  <2>4. Ahead(spec.end, d.end)
    BY <1>2, <2>3, PointersIs, AheadIs
  <2>5. Ahead(pos, d.end)
    <3> HIDE DEF d, spec
    <3> QED
      BY <1>2, <2>3, <2>4, AheadThen
  <2>6. IsSpan(TokenSpan(pos))
    BY <1>10, <1>2, TokenHere
  <2>7. Ahead(d.end, d.end + 1) /\ d.end < d.end + 1
    BY <1>2, <1>10, NextPlace, Zenon
  <2>8. AreReports(TypeSpecifier(Attributes(pos).end).errors)
    BY <1>10, <1>2, <2>1, AheadIs, TypeErrorsAre
  <2>9. IsNode(N("var", Text(d.end), <<>>, ty, TokenSpan(pos)))
    BY <1>10, <1>2, <1>3, <1>4, <2>6, NodeIs
  <2> DEFINE ts == <<Call("array"), MoreParams(Task.from)>>
  <2> DEFINE p == d.end + 1
  <2>10. PICK es, n : Step(p, ts, Append(vals, n), es) /\ AreReports(es) /\ IsNode(n)
    BY <1>10, <2>8, <2>9, Zenon DEF ParseParam, Go, Push, DeclareTyped, DeclareParam
  <2>11. Ahead(pos, p)
    BY <1>10, <1>2, <2>5, <2>7, AheadOn
  <2> HIDE DEF p
  <2>12. AreNodes(Append(vals, n)) /\ Len(Append(vals, n)) = Len(vals) + 1
    BY <1>3, <2>10, NodesGrow
  <2>13. /\ IsSequence(ts) /\ Len(ts) = 2 /\ ts[1] = Call("array")
          /\ ts[2] = MoreParams(Task.from)
    BY SequenceTwo, Zenon
  <2> HIDE DEF ts
  <2>14. IsSequence(ts) /\ Len(ts) = 2
    BY <2>13
  <2>15. ts[1].do = "array"
    BY <2>13, CallIs, Zenon
  <2>16. ts[2].do = "param_more" /\ ts[2].from = Task.from
    <3>1. ts[2] = MoreParams(Task.from)
      BY <2>13, Zenon
    <3>2. /\ MoreParams(Task.from).do = "param_more"
            /\ MoreParams(Task.from).from = Task.from
      BY ParamIs
    <3> QED
      BY <3>1, <3>2, Zenon
  <2>17. Listed(ts)
    <3>1. \A i \in 1 .. 2 : Fine(ts[i])
      BY <2>15, <2>16 DEF Fine, TaskIs, Tasks, Handlers
    <3>2. \A i \in 2 .. 2 : (ts[i].do \in AtToken => ts[i - 1].do = "expect") /\ ts[i].do # "block"
      BY <2>15, <2>16 DEF AtToken
    <3> QED
      BY <2>14, <3>1, <3>2, SequenceElim DEF Listed
  <2>18. Begins(ts[1], p)
    BY <2>15, BeginsAnywhere DEF AtToken
  <2>19. Job(ts[1], p, Len(vals) + 1, Len(vals) + 1)
    BY <1>2, <1>3, <1>4, <2>15, UsingJob DEF Using
  <2>20. Job(ts[2], p, Len(vals) + 1, Task.from + 1)
    BY <1>2, <1>3, <1>4, <2>16, ClosingJob
  <2>21. \E g : Jobs(ts, g, Len(Append(vals, n)), p)
    <3> DEFINE g == [i \in 1 .. 3 |-> IF i <= 2 THEN Len(vals) + 1 ELSE Task.from + 1]
    <3>1. g[1] = Len(vals) + 1 /\ g[2] = Len(vals) + 1 /\ g[3] = Task.from + 1
      OBVIOUS
    <3> HIDE DEF g
    <3>2. \A i \in 1 .. 3 : g[i] \in Nat
      BY <1>2, <1>3, <1>4, <3>1
    <3>3. \A i \in 1 .. 2 : Reaches(todo[1], g[i])
      BY <1>2, <1>3, <1>4, <3>1 DEF Reaches
    <3>4. \A i \in 1 .. 2 : Job(ts[i], p, g[i], g[i + 1])
      BY <3>1, <2>19, <2>20
    <3>5. Len(ts) = 2 /\ Len(ts) + 1 = 3
      BY <2>14
    <3>6. g[1] <= Len(Append(vals, n)) /\ \A m \in Nat : Yields(todo[1], Len(vals), m) => m <= g[3]
      BY <1>2, <1>3, <1>4, <2>12, <3>1
    <3> QED
      BY <3>2, <3>4, <3>5, <3>6, <3>3, Zenon DEF Jobs
  <2>22. Nests(todo[1], ts, Append(vals, n), p)
    <3>1. \A i \in 1 .. 2 : ~Joins(ts[i]) /\ ts[i].do \notin Operand
      BY <2>15, <2>16 DEF Joins, Operand
    <3> QED
      BY <1>5, <2>14, <3>1, CalmNests
  <2> QED
    BY <1>1, <1>3, <2>12, <2>10, <2>11, <2>15, <2>17, <2>18, <2>21, <2>22,
       NothingReported, ListedKeeps DEF Consuming
<1> QED
  BY <1>6, <1>7, <1>8, <1>9, <1>10, Zenon
LEMMA GoneOn ==
  ASSUME NEW t, IsLoop(t)
  PROVE  /\ IsLoop([t EXCEPT !.ok = TRUE]) /\ [t EXCEPT !.ok = TRUE].do = t.do
         /\ [t EXCEPT !.ok = TRUE].at = t.at /\ [t EXCEPT !.ok = TRUE].height = t.height
<1> DEFINE a == t.do
           b == t.ok
           c == t.at
           d == t.height
           r == [t EXCEPT !.ok = TRUE]
<1>1. t = [do |-> a, ok |-> b, at |-> c, height |-> d] /\ c \in 0 .. Len(tokens)
  BY DEF IsLoop
<1>2. r = [t EXCEPT !.ok = TRUE]
  OBVIOUS
<1> HIDE DEF a, b, c, d, r
<1>3. r = [[do |-> a, ok |-> b, at |-> c, height |-> d] EXCEPT !.ok = TRUE]
  BY <1>1, <1>2, Zenon
<1>4. r = [do |-> a, ok |-> TRUE, at |-> c, height |-> d]
  BY <1>3
<1>5. r.do = a /\ r.ok = TRUE /\ r.at = c /\ r.height = d
  BY <1>4
<1>6. IsLoop(r)
  BY <1>1, <1>4, <1>5 DEF IsLoop
<1> QED
  BY <1>5, <1>6 DEF a, c, d, r

\* What begins at a token comes back to the loop that it is begun in.
LEMMA RoundFits ==
  ASSUME tokens \in Texts, NEW h, NEW t, NEW loop, NEW p, Kind(p) # "none", p = pos,
         Fine(t), t.do \in Consuming, t.do # "block",
         IsLoop(loop), loop.do \in Handlers, loop.at = p, h.do \notin Consuming,
         h.do # "expect", h.do = "items" => loop.do = "items"
  PROVE  FitsOrder(h, <<t, loop>>, p)
<1> DEFINE ts == <<t, loop>>
<1>1. IsSequence(ts) /\ Len(ts) = 2 /\ ts[1] = t /\ ts[2] = loop
  BY SequenceTwo, Zenon
<1> HIDE DEF ts
<1>2. \A i \in 1 .. Len(ts) : i = 1 \/ i = 2
  BY <1>1
<1>3. loop.do \notin AtToken /\ loop.do # "block" /\ loop.do # "expect" /\ loop.do \in Tasks
  BY DEF Handlers, AtToken, Tasks
<1>4. TaskIs(t) /\ TaskIs(loop)
  BY <1>3 DEF TaskIs, Fine
<1>5. BeginAtTokens(ts, p)
  BY <1>1, <1>2, <1>3, Zenon DEF BeginAtTokens
<1>6. RoundsConsume(ts, p)
  <2>1. ts[1].do \notin Rounds /\ p <= p
    <3>1. p \in Nat
      BY Behind
    <3> QED
      BY <1>1, <3>1 DEF Fine, Rounds, Handlers
  <2>2. \A i \in 2 .. 2 - 1 : FALSE
    OBVIOUS
  <2> QED
    BY <1>1, <1>2, <2>1, <2>2, Zenon DEF RoundsConsume
<1>7. h.do = "items" => LastCatches(ts)
  BY <1>1 DEF LastCatches
<1>8. ts # <<>>
  BY <1>1, SequenceElim
<1> QED
  BY <1>1, <1>2, <1>4, <1>5, <1>6, <1>7, <1>8, Zenon DEF FitsOrder, ts

\* A loop at hand finds the values it began with when what it has begun is done.
LEMMA RoundProvides ==
  ASSUME NEW t, t.do \in {"item", "stmt", "assignment"}, NEW loop, loop.do \in Handlers,
         loop.height = Len(vals), Len(vals) \in Nat, loop.do = "array_end" => loop.height # 0,
         \A m \in Nat : Yields(todo[1], Len(vals), m) => m <= Len(vals), NEW p
  PROVE  Provides(todo[1], <<t, loop>>, Len(vals), p)
<1> DEFINE L == Len(vals)
           ts == <<t, loop>>
           c == [i \in 1 .. 3 |-> L]
<1>1. IsSequence(ts) /\ Len(ts) = 2 /\ ts[1] = t /\ ts[2] = loop
  BY SequenceTwo, Zenon
<1>2. c[1] = L /\ c[2] = L /\ c[3] = L
  OBVIOUS
<1> HIDE DEF ts, c
<1>3. Job(t, p, L, L)
  BY DEF Job, Carries, Enough, Yields, Giving, Closing, Handlers
<1>4. Job(loop, p, L, L)
  BY DEF Job, Carries, Enough, Yields, Giving, Closing, Handlers
<1>5. t.do \notin Handlers
  BY DEF Handlers
<1>6. /\ \A i \in 1 .. Len(ts) + 1 : c[i] \in Nat
      /\ \A i \in 1 .. Len(ts) : Job(ts[i], p, c[i], c[i + 1]) /\ L <= c[i]
  <2>1. \A i \in 1 .. Len(ts) + 1 : i = 1 \/ i = 2 \/ i = 3
    BY <1>1
  <2>2. \A i \in 1 .. Len(ts) : (i = 1 /\ i + 1 = 2) \/ (i = 2 /\ i + 1 = 3)
    BY <1>1
  <2>3. L <= L
    OBVIOUS
  <2> HIDE DEF L
  <2> QED
    BY <1>1, <1>2, <1>3, <1>4, <2>1, <2>2, <2>3, Zenon DEF L
<1>7. \A i \in 1 .. Len(ts) : ts[i].do \in Handlers => \A j \in 1 .. i : ts[i].height <= c[j]
  <2>1. \A i \in 1 .. Len(ts) : i = 1 \/ i = 2
    BY <1>1
  <2>2. \A j \in 1 .. 2 : j = 1 \/ j = 2
    OBVIOUS
  <2>3. loop.height <= c[1] /\ loop.height <= c[2]
    BY <1>2
  <2> QED
    BY <1>1, <1>5, <2>1, <2>2, <2>3, Zenon
<1>8. Heights(ts, c) /\ \A i \in 1 .. Len(ts) : Carries(ts[i], p) /\ Reaches(todo[1], c[i])
  BY <1>6, <1>7, Zenon DEF Heights, Job, Reaches
<1>9. c[1] <= L /\ \A m \in Nat : Yields(todo[1], Len(vals), m) => m <= c[Len(ts) + 1]
  BY <1>1, <1>2
<1> QED
  BY <1>8, <1>9, Zenon DEF Provides, ts

\* A loop that goes on with the values it began with.
LEMMA LoopProvides ==
  ASSUME NEW loop, loop.do \in Handlers, loop.height \in Nat, loop.do = "array_end" => loop.height # 0,
         NEW n \in Nat, loop.height <= n,
         \A m \in Nat : Yields(todo[1], Len(vals), m) => m <= loop.height, NEW p
  PROVE  Provides(todo[1], <<loop>>, n, p)
<1> DEFINE h == loop.height
           ts == <<loop>>
           c == [i \in 1 .. 2 |-> h]
<1>1. IsSequence(ts) /\ Len(ts) = 1 /\ ts[1] = loop
  BY SequenceOne
<1>2. c[1] = h /\ c[2] = h
  OBVIOUS
<1> HIDE DEF ts, c
<1>3. Job(loop, p, h, h)
  BY DEF Job, Carries, Enough, Yields, Giving, Closing, Handlers
<1>4. Heights(ts, c)
  <2>1. \A i \in 1 .. Len(ts) + 1 : i = 1 \/ i = 2
    BY <1>1
  <2>2. \A i \in 1 .. Len(ts) : i = 1 /\ i + 1 = 2
    BY <1>1
  <2>3. \A j \in 1 .. 1 : j = 1
    OBVIOUS
  <2>4. h <= c[1]
    BY <1>2
  <2> QED
    BY <1>1, <1>2, <1>3, <2>1, <2>2, <2>3, <2>4, Zenon DEF Heights, Job
<1>5. \A i \in 1 .. Len(ts) : Carries(ts[i], p) /\ Reaches(todo[1], c[i])
  <2>1. \A i \in 1 .. Len(ts) : i = 1
    BY <1>1
  <2>2. Reaches(todo[1], c[1])
    BY <1>2 DEF Reaches
  <2> QED
    BY <1>1, <1>3, <2>1, <2>2, Zenon DEF Job
<1>6. c[1] <= n /\ \A m \in Nat : Yields(todo[1], Len(vals), m) => m <= c[Len(ts) + 1]
  BY <1>1, <1>2
<1> QED
  BY <1>4, <1>5, <1>6, Zenon DEF Provides, ts

LEMMA LoopNests ==
  ASSUME ~InExpr(todo[1]), NEW loop, loop.do \in Handlers, NEW vs, NEW p
  PROVE  Nests(todo[1], <<loop>>, vs, p)
<1> DEFINE ts == <<loop>>
<1>1. IsSequence(ts) /\ Len(ts) = 1 /\ ts[1] = loop
  BY SequenceOne
<1> HIDE DEF ts
<1>2. ~Joins(loop) /\ loop.do \notin Operand
  BY DEF Handlers, Joins, Operand
<1>3. \A i \in 1 .. Len(ts) : ~Joins(ts[i]) /\ ts[i].do \notin Operand
  BY <1>1, <1>2
<1>4. Nests(todo[1], ts, vs, p)
  BY <1>1, <1>3, CalmNests
<1> QED
  BY <1>4 DEF ts

LEMMA PairNests ==
  ASSUME ~InExpr(todo[1]), NEW t, NEW u, ~Joins(t), t.do \notin Operand, ~Joins(u), u.do \notin Operand,
         NEW vs, NEW p
  PROVE  Nests(todo[1], <<t, u>>, vs, p)
<1> DEFINE ts == <<t, u>>
<1>1. IsSequence(ts) /\ Len(ts) = 2 /\ ts[1] = t /\ ts[2] = u
  BY SequenceTwo, Zenon
<1> HIDE DEF ts
<1>2. \A i \in 1 .. Len(ts) : ~Joins(ts[i]) /\ ts[i].do \notin Operand
  BY <1>1
<1>3. Nests(todo[1], ts, vs, p)
  BY <1>1, <1>2, CalmNests
<1> QED
  BY <1>3 DEF ts

LEMMA ExpectTokenKeeps ==
  ASSUME InOrder, Shaped, Nested, ExpectToken
  PROVE  InOrder' /\ Shaped' /\ Nested'
<1>1. At("expect")
  BY DEF ExpectToken
<1>2. /\ tokens \in Texts /\ pos \in Places /\ Ahead(pos, pos)
      /\ Task = todo[1] /\ todo[1].do = "expect" /\ TaskIs(todo[1])
  BY <1>1, HeadIs
<1>3. Len(vals) \in Nat /\ AreNodes(vals)
  BY <1>1, HeadShaped
<1>4. \A m \in Nat : Yields(todo[1], Len(vals), m) => m <= Len(vals)
  BY <1>2, <1>3 DEF Yields, Giving, Closing, Handlers
<1>5. CASE Kind(pos) = Task.k
  <2>1. Kind(pos) # "none" /\ Kind(pos) # "eof"
    BY <1>2, <1>5 DEF TaskIs
  <2>2. Ahead(pos, pos + 1)
    BY <1>2, <2>1, NextPlace
  <2>3. Kind(pos + 1) # "none"
    BY <1>2, <2>1, Behind
  <2>4. Step(pos + 1, <<>>, vals, <<>>)
    BY <1>5, Zenon DEF ExpectToken, Go
  <2>5. Nests(todo[1], <<>>, vals, pos + 1)
    <3>1. CASE Task.k \in {")", "]", ":"}
      <4>1. Kind(pos) \notin Ends
        BY <1>5, <3>1, Zenon DEF Ends, StmtKeywords
      <4>2. Through(pos, pos + 1)
        BY <1>2, <4>1, TokensAre, ThroughOne
      <4>3. Expecting(todo[1], pos + 1)
        BY <1>1, <2>2, <4>2, ExpectingIs
      <4> QED
        BY <1>2, <4>3, NothingNests DEF LeavesOperand, Joins
    <3>2. CASE Task.k \notin {")", "]", ":"}
      <4>1. ~InExpr(todo[1])
        BY <1>2, <3>2 DEF InExpr
      <4> QED
        BY <4>1, CalmNothing
    <3> QED
      BY <3>1, <3>2
  <2> QED
    BY <1>1, <1>3, <1>4, <2>2, <2>3, <2>4, <2>5, NothingReported, NothingKeeps DEF Consuming
<1>6. CASE Kind(pos) # Task.k
  <2>1. Fail(pos, Error("E0302", pos))
    BY <1>6, Zenon DEF ExpectToken
  <2>2. AreReports(Error("E0302", pos))
    BY <1>2, ErrorIs
  <2> QED
    BY <1>1, <1>2, <2>1, <2>2, FailKeeps DEF Rounds
<1> QED
  BY <1>5, <1>6

LEMMA LastAbove ==
  ASSUME NEW vs, AreNodes(vs), NEW m \in Nat, m + 1 <= Len(vs)
  PROVE  Last(SubSeq(vs, m + 1, Len(vs))) = vs[Len(vs)] /\ IsSpan(vs[Len(vs)].span)
<1> DEFINE new == SubSeq(vs, m + 1, Len(vs))
<1>1. IsSequence(vs) /\ (\A i \in 1 .. Len(vs) : IsNode(vs[i])) /\ Len(vs) \in Nat
  BY SequenceElim DEF AreNodes
<1>2. m + 1 \in 1 .. Len(vs) + 1 /\ Len(vs) \in (m + 1) - 1 .. Len(vs)
  BY <1>1
<1>3. /\ IsSequence(new) /\ Len(new) = Len(vs) - (m + 1) + 1
      /\ \A i \in 1 .. Len(vs) - (m + 1) + 1 : new[i] = vs[m + 1 + i - 1]
  BY <1>1, <1>2, SequenceSub
<1> HIDE DEF new
<1>4. /\ Len(new) = Len(vs) - m /\ Len(new) # 0 /\ Len(new) \in 1 .. Len(vs) - (m + 1) + 1
      /\ m + 1 + Len(new) - 1 = Len(vs)
  BY <1>1, <1>3
<1>5. new[Len(new)] = vs[Len(vs)]
  BY <1>3, <1>4
<1>6. Last(new) = new[Len(new)]
  <2>1. new # <<>>
    BY <1>3, <1>4, SequenceElim
  <2> QED
    BY <1>3, <2>1, SequenceFront
<1>7. Len(vs) \in 1 .. Len(vs)
  BY <1>1
<1> QED
  BY <1>1, <1>5, <1>6, <1>7 DEF new, IsNode

LEMMA MakeNodeKeeps ==
  ASSUME InOrder, Shaped, Nested, MakeNode
  PROVE  InOrder' /\ Shaped' /\ Nested'
<1>1. At("make")
  BY DEF MakeNode
<1>2. tokens \in Texts /\ pos \in Places /\ pos \in Nat /\ Ahead(pos, pos) /\ Task = todo[1] /\ todo[1].do = "make"
  BY <1>1, HeadIs
<1>3. /\ Len(vals) \in Nat /\ AreNodes(vals) /\ IsSpan(Task.first)
      /\ Task.from \in Nat /\ Task.from <= Len(vals)
      /\ Task.ends \notin {"value", "written"} => pos > 1
      /\ Task.ends = "value" => Task.from + 1 <= Len(vals)
  BY <1>1, <1>2, HeadShaped DEF Carries, Enough
<1> DEFINE args == SubSeq(vals, Task.from + 1, Len(vals))
           below == SubSeq(vals, 1, Task.from)
           last == IF Task.ends = "value" THEN Last(args).span ELSE TokenSpan(pos - 1)
           span == IF Task.ends = "written" THEN SpanFrom(Task.first) ELSE Join(Task.first, last)
           n == N(Task.k, Task.what, args, Task.ty, span)
<1>4. (Task.ends # "written" => Task.first.file = last.file) /\ Step(pos, <<>>, Append(below, n), <<>>)
  BY Zenon DEF MakeNode
<1>5. Task.ends = "value" => IsSpan(Last(args).span) /\ Last(args) = vals[Len(vals)]
  BY <1>3, LastAbove
<1>6. Joins(todo[1]) => Framed(todo[1], vals, pos)
  <2>1. Len(todo) \in Nat \ {0}
    BY <1>1, HeadIs
  <2>2. 1 \in 1 .. Len(todo)
    BY <2>1
  <2> QED
    BY <2>2 DEF Nested, NestedBy
<1> HIDE DEF args
<1>7. IsSpan(span) /\ (Task.first.lo < pos => span.lo = Task.first.lo)
  <2>1. CASE Task.ends = "written"
    BY <1>2, <1>3, <2>1, SpanFromOK
  <2>2. CASE Task.ends # "written"
    <3>1. Framed(todo[1], vals, pos)
      BY <1>2, <1>6, <2>2 DEF Joins
    <3>2. IsSpan(last) /\ Task.first.lo <= last.lo
      <4>1. CASE Task.ends = "value"
        <5>1. Len(vals) \in Task.from + 1 .. Len(vals)
          BY <1>3, <4>1
        <5>2. Task.first.lo <= vals[Len(vals)].span.lo
          BY <1>2, <3>1, <5>1 DEF Framed
        <5> QED
          BY <1>5, <4>1, <5>2
      <4>2. CASE Task.ends # "value"
        <5>1. pos - 1 \in DOMAIN tokens
          BY <1>2, <1>3, <2>2, <4>2, TokensAre DEF Places
        <5>2. IsSpan(TokenSpan(pos - 1)) /\ TokenSpan(pos - 1).lo = pos - 1
          BY <1>2, <5>1, TokenSpanOK
        <5>3. Task.first.lo <= pos - 1
          BY <1>2, <1>3, <3>1, StartsAt DEF Framed
        <5> QED
          BY <4>2, <5>2, <5>3
      <4> QED
        BY <4>1, <4>2
    <3> HIDE DEF last
    <3> QED
      BY <1>2, <1>3, <1>4, <2>2, <3>2, JoinOK
  <2> QED
    BY <2>1, <2>2
<1> HIDE DEF span
<1>8. IsNode(n) /\ n.span = span
  BY <1>7, NodeIs
<1>9. /\ AreNodes(below) /\ Len(below) = Task.from
      /\ \A v \in 1 .. Task.from : below[v] = vals[v]
  BY <1>3, NodesBelow
<1> DEFINE vs == Append(below, n)
<1> HIDE DEF n, below
<1>10. /\ AreNodes(vs) /\ Len(vs) = Task.from + 1 /\ vs[Task.from + 1] = n
      /\ \A v \in 1 .. Task.from : vs[v] = below[v]
  BY <1>8, <1>9, NodesGrow
<1>11. \A m \in Nat : Yields(todo[1], Len(vals), m) => m <= Len(vs)
  BY <1>2, <1>10 DEF Yields, Closing
<1> HIDE DEF vs
<1>12. Nests(todo[1], <<>>, vs, pos)
  <2> DEFINE f == Task.from
  <2>1. \A v \in 1 .. Len(vals) : vals[v].span.lo \in Nat
    BY <1>2, <1>3, NodeAt, StartsAt
  <2>2. vs[f + 1].span.lo \in Nat /\ Task.first.lo \in Nat
    BY <1>2, <1>3, <1>7, <1>8, <1>10, StartsAt
  <2>3. Task.first.lo < pos => vs[f + 1].span.lo = Task.first.lo
    BY <1>7, <1>8, <1>10
  <2>4. \A v \in 1 .. f : vs[v] = vals[v]
    BY <1>9, <1>10
  <2>5. ASSUME NEW m, Encloses(m, todo[1])
        PROVE  m.from <= f /\ m.first.lo <= vs[f + 1].span.lo /\ vs[f + 1].span.lo < pos
    <3>1. m.from <= f /\ m.first.lo <= Task.first.lo /\ Task.first.lo < pos
      BY <1>2, <2>5 DEF Encloses, Within
    <3> QED
      BY <2>3, <3>1
  <2>6. ASSUME LeavesOperand(todo[1])
        PROVE  vs[f + 1].span.lo < pos /\ Through(vs[f + 1].span.lo, pos)
    <3>1. Joins(todo[1])
      BY <1>2, <2>6 DEF LeavesOperand
    <3>2. Task.first.lo < pos /\ Through(Task.first.lo, pos)
      BY <1>2, <1>6, <3>1 DEF Framed
    <3> QED
      BY <2>3, <3>2
  <2>7. f \in Nat /\ f <= Len(vals) /\ Len(vs) = f + 1
    BY <1>3, <1>10
  <2>8. pos <= pos /\ Through(pos, pos)
    BY <1>2, ThroughNothing
  <2> HIDE DEF f
  <2> QED
    BY <1>2, <1>3, <2>1, <2>2, <2>4, <2>5, <2>6, <2>7, <2>8, NodeNests
<1>13. Step(pos, <<>>, vs, <<>>)
  BY <1>4 DEF vs
<1> QED
  BY <1>1, <1>2, <1>10, <1>11, <1>12, <1>13, NothingReported, NothingKeeps DEF Consuming

\* Between tokens of two files there are neighbours of two files.
LEMMA FilesChange ==
  ASSUME NEW a \in Nat, NEW b \in Nat, a <= b, tokens[a].file # tokens[b].file
  PROVE  \E p \in a .. b - 1 : tokens[p].file # tokens[p + 1].file
<1> SUFFICES ASSUME \A p \in a .. b - 1 : tokens[p].file = tokens[p + 1].file
             PROVE  FALSE
  BY Zenon
<1> DEFINE S == {k \in Nat : a + k <= b => tokens[a + k].file = tokens[a].file}
<1>1. 0 \in S
  <2>1. a + 0 = a
    OBVIOUS
  <2> QED
    BY <2>1
<1>2. ASSUME NEW k \in S PROVE k + 1 \in S
  <2>1. k \in Nat /\ k + 1 \in Nat /\ a + (k + 1) = (a + k) + 1
    OBVIOUS
  <2>2. SUFFICES ASSUME (a + k) + 1 <= b PROVE tokens[(a + k) + 1].file = tokens[a].file
    BY <2>1
  <2>3. a + k \in a .. b - 1 /\ a + k <= b
    BY <2>1, <2>2
  <2>4. tokens[a + k].file = tokens[a].file
    BY <2>3
  <2>5. tokens[a + k].file = tokens[(a + k) + 1].file
    BY <2>3
  <2> QED
    BY <2>4, <2>5
<1>3. b - a \in Nat /\ a + (b - a) = b /\ b <= b
  OBVIOUS
<1>4. b - a \in S
  <2>1. S \in SUBSET Nat
    OBVIOUS
  <2> HIDE DEF S
  <2> QED
    BY <1>1, <1>2, <1>3, <2>1, SetInduction
<1>5. a + (b - a) <= b => tokens[a + (b - a)].file = tokens[a].file
  BY <1>4
<1> HIDE DEF S
<1> QED
  BY <1>3, <1>5

LEMMA JoinAcrossFilesKeeps ==
  ASSUME InOrder, Shaped, Nested, JoinAcrossFiles
  PROVE  InOrder' /\ Shaped' /\ Nested'
<1>1. /\ tokens' = tokens /\ tokens \in Texts /\ todo' = <<>> /\ pos' = pos /\ pos \in Places
      /\ vals' = vals /\ diagnostics' = diagnostics /\ panicked' = TRUE
  BY DEF JoinAcrossFiles, InOrder, Ordered
<1> DEFINE ts == <<>>
<1>2. IsSequence(ts) /\ Len(ts) = 0
  BY SequenceEmpty
<1>3. ts = <<>>
  OBVIOUS
<1> HIDE DEF ts
<1>4. \A i \in 1 .. Len(ts) : FALSE
  BY <1>2
<1>5. Ordered(ts, pos)
  BY <1>1, <1>2, <1>3, <1>4, Zenon DEF Ordered, LastCatches, BeginAtTokens, RoundsConsume
<1>6. InOrder'
  BY <1>1, <1>3, <1>5, OrderedPrimed
<1>7. AreNodes(vals) /\ AreReports(diagnostics) /\ Len(vals) \in Nat
  BY SequenceElim DEF Shaped, ShapedBy, AreNodes
<1>8. Supplied(ts, Len(vals))
  <2> DEFINE b == [i \in 1 .. 1 |-> Len(vals)]
  <2>1. b[1] = Len(vals)
    OBVIOUS
  <2> HIDE DEF b
  <2>2. \A i \in 1 .. Len(ts) + 1 : i = 1
    BY <1>2
  <2>3. Heights(ts, b)
    BY <1>4, <1>7, <2>1, <2>2, Zenon DEF Heights
  <2> QED
    BY <1>7, <2>1, <2>3 DEF Supplied
<1>9. ShapedBy(ts, vals, diagnostics, pos)
  BY <1>4, <1>7, <1>8, Zenon DEF ShapedBy
<1>10. Shaped'
  BY <1>1, <1>3, <1>9, ShapedPrimed
<1>11. \E p \in 1 .. Len(tokens) - 1 : ExprBoundary(p)
  <2> DEFINE last == IF Task.ends = "value" THEN Last(vals).span ELSE TokenSpan(pos - 1)
             a == Task.first.lo
             b == last.lo
  <2>1. At("make") /\ Task.ends # "written" /\ Task.first.file # last.file
    BY Zenon DEF JoinAcrossFiles
  <2>2. /\ Task = todo[1] /\ todo[1].do = "make" /\ 1 \in 1 .. Len(todo) /\ pos \in Nat
        /\ Carries(todo[1], pos) /\ Enough(todo[1], Len(vals)) /\ Len(vals) \in Nat /\ AreNodes(vals)
    <3>1. Task = todo[1] /\ todo[1].do = "make" /\ Len(todo) \in Nat \ {0} /\ pos \in Nat
      BY <2>1, HeadIs
    <3>2. Carries(todo[1], pos) /\ Enough(todo[1], Len(vals)) /\ Len(vals) \in Nat /\ AreNodes(vals)
      BY <2>1, HeadShaped
    <3>3. 1 \in 1 .. Len(todo)
      BY <3>1
    <3> QED
      BY <3>1, <3>2, <3>3
  <2>3. /\ IsSpan(Task.first) /\ Task.from \in Nat /\ Task.from <= Len(vals)
        /\ Task.ends # "value" => pos > 1
        /\ Task.ends = "value" => Task.from + 1 <= Len(vals)
    BY <2>1, <2>2 DEF Carries, Enough
  <2>4. Framed(Task, vals, pos)
    BY <2>1, <2>2 DEF Nested, NestedBy, Joins
  <2>5. a \in Nat /\ a \in DOMAIN tokens /\ Task.first.file = tokens[a].file /\ a < pos /\ Through(a, pos)
    BY <1>1, <2>3, <2>4, StartsAt DEF Framed
  <2>6. IsSpan(last) /\ a <= b /\ b < pos
    <3>1. CASE Task.ends = "value"
      <4>1. Len(vals) \in Task.from + 1 .. Len(vals) /\ 1 <= Len(vals)
        BY <2>2, <2>3, <3>1
      <4>2. a <= vals[Len(vals)].span.lo /\ vals[Len(vals)].span.lo < pos
        BY <2>4, <4>1 DEF Framed
      <4>3. Last(vals) = vals[Len(vals)] /\ IsSpan(Last(vals).span)
        BY <2>2, <4>1, TopNode
      <4> QED
        BY <3>1, <4>2, <4>3
    <3>2. CASE Task.ends # "value"
      <4>1. pos - 1 \in DOMAIN tokens
        BY <1>1, <2>2, <2>3, <3>2, TokensAre DEF Places
      <4>2. IsSpan(TokenSpan(pos - 1)) /\ TokenSpan(pos - 1).lo = pos - 1
        BY <1>1, <4>1, TokenSpanOK
      <4>3. a <= pos - 1 /\ pos - 1 < pos
        BY <2>2, <2>5
      <4> QED
        BY <3>2, <4>2, <4>3
    <3> QED
      BY <3>1, <3>2
  <2> HIDE DEF last
  <2>7. b \in Nat /\ b \in DOMAIN tokens /\ last.file = tokens[b].file
    BY <1>1, <2>6, StartsAt
  <2> HIDE DEF a, b
  <2>8. PICK p \in a .. b - 1 : tokens[p].file # tokens[p + 1].file
    <3>1. tokens[a].file # tokens[b].file
      BY <2>1, <2>5, <2>7
    <3> QED
      BY <2>5, <2>6, <2>7, <3>1, FilesChange
  <2>9. p \in a .. pos - 1 /\ p + 1 \in a .. pos - 1
    BY <2>2, <2>5, <2>6, <2>7
  <2>10. Kind(p) \notin Ends /\ Kind(p + 1) \notin Ends
    BY <2>5, <2>9, Zenon DEF Through
  <2>11. p \in 1 .. Len(tokens) - 1
    BY <1>1, <2>5, <2>7, TokensAre
  <2>12. ExprBoundary(p)
    <3>1. {Kind(p), Kind(p + 1)} \cap Ends = {}
      BY <2>10, Zenon
    <3> QED
      BY <2>8, <3>1, Zenon DEF ExprBoundary, Ends
  <2> QED
    BY <2>11, <2>12
<1>12. NestedBy(ts, vals, pos)
  <2>1. \A i \in 2 .. Len(ts) : FALSE
    BY <1>2
  <2> QED
    BY <1>3, <1>4, <2>1, Zenon DEF NestedBy
<1>13. NestedBy(todo', vals', pos')
  BY <1>1, <1>3, <1>12
<1>14. Nested'
  BY <1>1, <1>11, <1>13, NestedPrimed
<1> QED
  BY <1>6, <1>10, <1>14

LEMMA NextItemKeeps ==
  ASSUME InOrder, Shaped, Nested, NextItem
  PROVE  InOrder' /\ Shaped' /\ Nested'
<1>1. At("items") /\ Kind(pos) # "none"
  BY Zenon DEF NextItem, IsEof
<1>2. tokens \in Texts /\ Ahead(pos, pos) /\ todo[1].do = "items"
  BY <1>1, HeadIs
<1>3. Len(vals) \in Nat /\ AreNodes(vals) /\ todo[1].height \in Nat /\ todo[1].height <= Len(vals)
  BY <1>1, <1>2, HeadShaped DEF Carries, Enough, Handlers
<1>4. \A m \in Nat : Yields(todo[1], Len(vals), m) => m <= Len(vals)
  BY <1>2, <1>3 DEF Yields, Handlers
<1> DEFINE t == Call("item")
           loop == Loop("items", pos, Len(vals))
<1>5. ~InExpr(todo[1])
  BY <1>2 DEF InExpr
<1>6. Step(pos, <<t, loop>>, vals, <<>>)
  BY Zenon DEF NextItem, Go
<1>7. t.do = "item"
  BY CallIs
<1>8. pos \in 0 .. Len(tokens)
  BY <1>1, <1>2, TokensAre
<1>9. loop.do = "items" /\ loop.at = pos /\ loop.height = Len(vals) /\ IsLoop(loop)
  BY <1>8 DEF Loop, IsLoop
<1> HIDE DEF t, loop
<1>10. Fine(t) /\ t.do \in Consuming /\ t.do # "block"
  BY <1>7, FineIs DEF Consuming, Tasks, Handlers
<1>11. FitsOrder(todo[1], <<t, loop>>, pos)
  BY <1>1, <1>2, <1>9, <1>10, RoundFits DEF Handlers, Consuming
<1>12. Provides(todo[1], <<t, loop>>, Len(vals), pos)
  BY <1>3, <1>4, <1>7, <1>9, RoundProvides DEF Handlers
<1>13. Nests(todo[1], <<t, loop>>, vals, pos)
  <2>1. ~Joins(t) /\ t.do \notin Operand /\ ~Joins(loop) /\ loop.do \notin Operand
    BY <1>7, <1>9 DEF Joins, Operand
  <2> QED
    BY <1>5, <2>1, PairNests
<1> QED
  BY <1>1, <1>2, <1>3, <1>6, <1>11, <1>12, <1>13, NothingReported, StepKeeps

LEMMA NextStmtKeeps ==
  ASSUME InOrder, Shaped, Nested, NextStmt
  PROVE  InOrder' /\ Shaped' /\ Nested'
<1>1. At("stmts") /\ Kind(pos) # "none"
  BY Zenon DEF NextStmt, IsEof
<1>2. tokens \in Texts /\ Ahead(pos, pos) /\ todo[1].do = "stmts"
  BY <1>1, HeadIs
<1>3. Len(vals) \in Nat /\ AreNodes(vals) /\ todo[1].height \in Nat /\ todo[1].height <= Len(vals)
  BY <1>1, <1>2, HeadShaped DEF Carries, Enough, Handlers
<1>4. \A m \in Nat : Yields(todo[1], Len(vals), m) => m <= Len(vals)
  BY <1>2, <1>3 DEF Yields, Handlers
<1> DEFINE t == Call("stmt")
           loop == Loop("stmts", pos, Len(vals))
<1>5. ~InExpr(todo[1])
  BY <1>2 DEF InExpr
<1>6. Step(pos, <<t, loop>>, vals, <<>>)
  BY Zenon DEF NextStmt, Go
<1>7. t.do = "stmt"
  BY CallIs
<1>8. pos \in 0 .. Len(tokens)
  BY <1>1, <1>2, TokensAre
<1>9. loop.do = "stmts" /\ loop.at = pos /\ loop.height = Len(vals) /\ IsLoop(loop)
  BY <1>8 DEF Loop, IsLoop
<1> HIDE DEF t, loop
<1>10. Fine(t) /\ t.do \in Consuming /\ t.do # "block"
  BY <1>7, FineIs DEF Consuming, Tasks, Handlers
<1>11. FitsOrder(todo[1], <<t, loop>>, pos)
  BY <1>1, <1>2, <1>9, <1>10, RoundFits DEF Handlers, Consuming
<1>12. Provides(todo[1], <<t, loop>>, Len(vals), pos)
  BY <1>3, <1>4, <1>7, <1>9, RoundProvides DEF Handlers
<1>13. Nests(todo[1], <<t, loop>>, vals, pos)
  <2>1. ~Joins(t) /\ t.do \notin Operand /\ ~Joins(loop) /\ loop.do \notin Operand
    BY <1>7, <1>9 DEF Joins, Operand
  <2> QED
    BY <1>5, <2>1, PairNests
<1> QED
  BY <1>1, <1>2, <1>3, <1>6, <1>11, <1>12, <1>13, NothingReported, StepKeeps

\* A loop that goes on behind the token it began its last round at has consumed.
LEMMA LoopFits ==
  ASSUME NEW h, NEW loop, NEW p, IsLoop(loop), loop.do \in Handlers,
         loop.do \in Rounds => loop.at <= p /\ loop.at # p,
         h.do # "expect", h.do = "items" => loop.do = "items", p = pos => h.do \notin Consuming
  PROVE  FitsOrder(h, <<loop>>, p)
<1> DEFINE ts == <<loop>>
<1>1. IsSequence(ts) /\ Len(ts) = 1 /\ ts[1] = loop
  BY SequenceOne
<1> HIDE DEF ts
<1>2. \A i \in 1 .. Len(ts) : i = 1
  BY <1>1
<1>3. loop.do \notin AtToken /\ loop.do # "block" /\ loop.do # "expect" /\ loop.do \in Tasks
  BY DEF Handlers, AtToken, Tasks
<1>4. TaskIs(loop)
  BY <1>3 DEF TaskIs
<1>5. BeginAtTokens(ts, p)
  BY <1>1, <1>2, <1>3, Zenon DEF BeginAtTokens
<1>6. RoundsConsume(ts, p)
  BY <1>1, <1>2, Zenon DEF RoundsConsume
<1>7. h.do = "items" => LastCatches(ts)
  BY <1>1 DEF LastCatches
<1>8. ts # <<>>
  BY <1>1, SequenceElim
<1> QED
  BY <1>1, <1>2, <1>4, <1>5, <1>6, <1>7, <1>8, Zenon DEF FitsOrder, ts

LEMMA RecoverKeeps ==
  ASSUME InOrder, Shaped, Nested, Recover
  PROVE  InOrder' /\ Shaped' /\ Nested'
<1>1. PICK name \in Rounds : At(name)
  BY DEF Recover, Rounds
<1>2. /\ tokens \in Texts /\ pos \in Places /\ pos \in Nat
      /\ Task = todo[1] /\ todo[1].do = name /\ TaskIs(todo[1]) /\ todo[1].at <= pos
  BY <1>1, HeadIs
<1> DEFINE start == IF pos = Task.at /\ Kind(pos) # "none" THEN pos + 1 ELSE pos
           loop == [Task EXCEPT !.ok = TRUE]
           p == SyncAfterStatement(start)
           vs == SubSeq(vals, 1, Task.height)
<1>3. Step(p, <<loop>>, vs, <<>>)
  BY Zenon DEF Recover
<1>4. IsLoop(todo[1]) /\ todo[1].at \in 0 .. Len(tokens) /\ Len(tokens) \in Nat
  BY <1>1, <1>2, TokensAre DEF TaskIs, IsLoop, Rounds, Handlers
<1>5. start \in Places /\ start \in Nat /\ pos <= start /\ Task.at # start
  <2>1. CASE pos = Task.at
    <3>1. pos \in DOMAIN tokens
      BY <1>2, <1>4, <2>1, TokensAre
    <3>2. Kind(pos) # "none"
      BY <1>2, <3>1, TokensAre
    <3>3. start = pos + 1 /\ pos + 1 \in Places
      BY <1>2, <2>1, <3>2, NextPlace
    <3> QED
      BY <1>2, <2>1, <3>3
  <2>2. CASE pos # Task.at
    BY <1>2, <2>2
  <2> QED
    BY <2>1, <2>2
<1>6. Ahead(pos, start)
  BY <1>5 DEF Ahead
<1>7. loop.do = name /\ loop.at = Task.at /\ IsLoop(loop) /\ loop.height = Task.height
  BY <1>2, <1>4, GoneOn
<1> HIDE DEF start
<1>8. p \in Places /\ start <= p
  BY <1>2, <1>5, SyncIs
<1> HIDE DEF p, loop
<1>9. Ahead(start, p)
  BY <1>8 DEF Ahead
<1>10. Ahead(pos, p)
  BY <1>2, <1>6, <1>9, AheadThen
<1>11. loop.at <= p /\ loop.at # p
  <2>1. p \in Nat
    BY <1>2, <1>8, TokensAre
  <2> QED
    BY <1>2, <1>4, <1>5, <1>7, <1>8, <2>1
<1>12. FitsOrder(todo[1], <<loop>>, p)
  BY <1>1, <1>2, <1>7, <1>11, LoopFits DEF Rounds, Handlers, Consuming
<1>13. /\ Len(vals) \in Nat /\ AreNodes(vals) /\ Task.height \in Nat /\ Task.height <= Len(vals)
       /\ \A m \in Nat : Yields(todo[1], Len(vals), m) => m <= Task.height
  <2>1. Carries(todo[1], pos) /\ Enough(todo[1], Len(vals)) /\ Len(vals) \in Nat /\ AreNodes(vals)
    BY <1>1, HeadShaped
  <2> QED
    BY <1>1, <1>2, <2>1 DEF Carries, Enough, Yields, Rounds, Handlers
<1>14. AreNodes(vs) /\ Len(vs) = Task.height
  BY <1>13, NodesBelow
<1> HIDE DEF vs
<1>15. Provides(todo[1], <<loop>>, Len(vs), p)
  BY <1>7, <1>13, <1>14, LoopProvides DEF Rounds, Handlers
<1>16. Nests(todo[1], <<loop>>, vs, p)
  <2>1. ~InExpr(todo[1]) /\ loop.do \in Handlers
    BY <1>1, <1>2, <1>7 DEF InExpr, Rounds, Handlers
  <2> QED
    BY <2>1, LoopNests
<1> QED
  BY <1>1, <1>3, <1>10, <1>12, <1>14, <1>15, <1>16, NothingReported, StepKeeps

LEMMA ParseBlockKeeps ==
  ASSUME InOrder, Shaped, Nested, ParseBlock
  PROVE  InOrder' /\ Shaped' /\ Nested'
<1>1. At("block")
  BY DEF ParseBlock
<1>2. /\ tokens \in Texts /\ pos \in Places /\ pos \in Nat /\ todo[1].do = "block"
      /\ Kind(pos) # "none"
  BY <1>1, HeadIs, Zenon DEF AtToken
<1> DEFINE loop == Loop("stmts", pos, Len(vals))
           last == [do |-> "block_end", k |-> Task.k, open |-> pos, from |-> Len(vals)]
           ts == <<loop, last>>
<1>3. Step(pos + 1, ts, vals, <<>>)
  BY DEF ParseBlock, Go
<1>4. Ahead(pos, pos + 1) /\ pos + 1 # pos /\ pos <= pos + 1
  BY <1>2, NextPlace
<1>5. pos \in 0 .. Len(tokens)
  BY <1>2, TokensAre
<1>6. loop.do = "stmts" /\ loop.at = pos /\ IsLoop(loop) /\ last.do = "block_end"
  <2>1. loop.do = "stmts" /\ loop.at = pos /\ IsLoop(loop)
    BY <1>5 DEF Loop, IsLoop
  <2> QED
    BY <2>1
<1>7. IsSequence(ts) /\ Len(ts) = 2 /\ ts[1] = loop /\ ts[2] = last
  BY SequenceTwo, Zenon
<1>8. Len(vals) \in Nat /\ AreNodes(vals)
  BY <1>1, HeadShaped
<1>9. /\ loop.height = Len(vals) /\ last.from = Len(vals) /\ last.open = pos /\ pos \in DOMAIN tokens
  <2>1. pos \in DOMAIN tokens
    BY <1>2, TokensAre
  <2>2. loop.height = Len(vals)
    BY DEF Loop
  <2>3. last.from = Len(vals) /\ last.open = pos
    OBVIOUS
  <2> QED
    BY <2>1, <2>2, <2>3
<1> HIDE DEF ts, loop, last
<1>10. \A i \in 1 .. Len(ts) : i = 1 \/ i = 2
  BY <1>7
<1>11. TaskIs(loop) /\ TaskIs(last)
  BY <1>6 DEF TaskIs, Tasks, Handlers
<1>12. /\ loop.do \notin AtToken /\ loop.do # "block" /\ last.do \notin AtToken /\ last.do # "block"
       /\ last.do \notin Rounds
  BY <1>6 DEF AtToken, Rounds
<1>13. BeginAtTokens(ts, pos + 1)
  BY <1>7, <1>10, <1>12, Zenon DEF BeginAtTokens
<1>14. RoundsConsume(ts, pos + 1)
  BY <1>4, <1>6, <1>7, <1>10, <1>12, Zenon DEF RoundsConsume
<1>15. ts # <<>>
  BY <1>7, SequenceElim
<1>16. todo[1].do # "items" /\ todo[1].do # "expect"
  BY <1>2
<1>17. \A i \in 1 .. Len(ts) : TaskIs(ts[i])
  BY <1>7, <1>10, <1>11
<1>18. FitsOrder(todo[1], ts, pos + 1)
  BY <1>4, <1>7, <1>13, <1>14, <1>15, <1>16, <1>17, Zenon DEF FitsOrder
<1>19. Provides(todo[1], ts, Len(vals), pos + 1)
  <2> DEFINE L == Len(vals)
             c == [i \in 1 .. 3 |-> IF i = 3 THEN L + 1 ELSE L]
  <2>1. c[1] = L /\ c[2] = L /\ c[3] = L + 1
    OBVIOUS
  <2> HIDE DEF c
  <2>2. Job(loop, pos + 1, L, L)
    BY <1>6, <1>8, <1>9 DEF Job, Carries, Enough, Yields, Giving, Closing, Handlers
  <2>3. Job(last, pos + 1, L, L + 1)
    BY <1>6, <1>8, <1>9 DEF Job, Carries, Enough, Yields, Giving, Closing, Handlers
  <2>4. last.do \notin Handlers
    BY <1>6 DEF Handlers
  <2>5. /\ L \in Nat /\ L + 1 \in Nat /\ L <= L
        /\ \A m \in Nat : Yields(todo[1], L, m) => m <= L + 1
    BY <1>2, <1>8 DEF Yields, Giving
  <2>6. /\ \A i \in 1 .. Len(ts) + 1 : i = 1 \/ i = 2 \/ i = 3
        /\ \A i \in 1 .. Len(ts) : (i = 1 /\ i + 1 = 2) \/ (i = 2 /\ i + 1 = 3)
        /\ \A j \in 1 .. 1 : j = 1
        /\ Len(ts) + 1 = 3
    BY <1>7
  <2>7. loop.height <= c[1]
    BY <1>9, <2>1, <2>5
  <2> DEFINE M == L + 1
  <2> HIDE DEF L, M
  <2>8. Heights(ts, c)
    BY <1>7, <2>1, <2>2, <2>3, <2>4, <2>5, <2>6, <2>7, Zenon DEF Heights, Job, M
  <2>9. \A i \in 1 .. Len(ts) : Carries(ts[i], pos + 1) /\ Reaches(todo[1], c[i])
    BY <1>7, <2>1, <2>2, <2>3, <2>5, <2>6, Zenon DEF Job, Reaches, L
  <2> QED
    BY <2>1, <2>5, <2>6, <2>8, <2>9, Zenon DEF Provides, L
<1>20. Nests(todo[1], ts, vals, pos + 1)
  <2>1. ~InExpr(todo[1]) /\ IsSequence(ts)
    BY <1>2, <1>7 DEF InExpr
  <2>2. ~Joins(loop) /\ loop.do \notin Operand /\ ~Joins(last) /\ last.do \notin Operand
    BY <1>6 DEF Joins, Operand
  <2>3. \A i \in 1 .. Len(ts) : ~Joins(ts[i]) /\ ts[i].do \notin Operand
    BY <1>7, <2>2
  <2> QED
    BY <2>1, <2>3, CalmNests
<1> QED
  BY <1>1, <1>3, <1>4, <1>18, <1>8, <1>19, <1>20, NothingReported, StepKeeps

LEMMA ParseArraySuffixKeeps ==
  ASSUME InOrder, Shaped, Nested, ParseArraySuffix
  PROVE  InOrder' /\ Shaped' /\ Nested'
<1>1. At("array")
  BY Zenon DEF ParseArraySuffix
<1>2. tokens \in Texts /\ pos \in Places /\ pos \in Nat /\ Ahead(pos, pos) /\ todo[1].do = "array"
  BY <1>1, HeadIs
<1> DEFINE loop == Loop("array_end", pos, Len(vals))
<1>3. /\ Len(vals) \in Nat /\ AreNodes(vals) /\ Len(vals) # 0
      /\ \A m \in Nat : Yields(todo[1], Len(vals), m) => m <= Len(vals)
  <2>1. Enough(todo[1], Len(vals)) /\ Len(vals) \in Nat /\ AreNodes(vals)
    BY <1>1, HeadShaped
  <2>2. 1 <= Len(vals)
    BY <1>2, <2>1 DEF Enough
  <2> QED
    BY <1>2, <2>1, <2>2 DEF Yields, Giving, Closing, Handlers
<1>4. ~InExpr(todo[1])
  BY <1>2 DEF InExpr
<1>5. CASE Kind(pos) # "["
  <2>1. Step(pos, <<>>, vals, <<>>)
    BY <1>5, Zenon DEF ParseArraySuffix, Go
  <2>2. \A m \in Nat : Yields(todo[1], Len(vals), m) => m <= Len(vals)
    BY <1>3
  <2>3. Nests(todo[1], <<>>, vals, pos)
    BY <1>4, CalmNothing
  <2> QED
    BY <1>1, <1>2, <1>3, <2>1, <2>2, <2>3, NothingReported, NothingKeeps DEF Consuming
<1>6. ASSUME Kind(pos) = "["
      PROVE  /\ Kind(pos) # "none" /\ Ahead(pos, pos + 1) /\ pos + 1 # pos
             /\ loop.do = "array_end" /\ IsLoop(loop) /\ loop.height = Len(vals)
  <2>1. Kind(pos) # "none" /\ Ahead(pos, pos + 1) /\ pos + 1 # pos
    BY <1>2, <1>6, NextPlace
  <2>2. pos \in 0 .. Len(tokens)
    BY <1>2, <2>1, TokensAre
  <2> QED
    BY <2>1, <2>2 DEF Loop, IsLoop
<1>7. CASE Kind(pos) = "[" /\ Kind(pos + 1) = "]"
  <2>1. Step(pos + 1, <<loop>>, vals, <<>>)
    BY <1>7, Zenon DEF ParseArraySuffix, Go
  <2> HIDE DEF loop
  <2>2. loop.do = "array_end" /\ loop.height = Len(vals)
    BY <1>6, <1>7
  <2>3. Provides(todo[1], <<loop>>, Len(vals), pos + 1)
    BY <1>3, <2>2, LoopProvides DEF Handlers
  <2>4. FitsOrder(todo[1], <<loop>>, pos + 1)
    BY <1>2, <1>6, <1>7, LoopFits DEF Handlers, Rounds, Consuming
  <2>5. Nests(todo[1], <<loop>>, vals, pos + 1)
    BY <1>4, <2>2, LoopNests DEF Handlers
  <2> QED
    BY <1>1, <1>6, <1>7, <1>3, <2>1, <2>4, <2>3, <2>5, NothingReported, StepKeeps
<1>8. CASE Kind(pos) = "[" /\ Kind(pos + 1) # "]"
  <2> DEFINE t == Call("assignment")
             ts == <<t, loop>>
  <2>1. Step(pos + 1, ts, vals, <<>>)
    BY <1>8, Zenon DEF ParseArraySuffix, Go
  <2>2. t.do = "assignment"
    BY CallIs
  <2>3. IsSequence(ts) /\ Len(ts) = 2 /\ ts[1] = t /\ ts[2] = loop
    BY SequenceTwo, Zenon
  <2> HIDE DEF loop, t
  <2>4. loop.do = "array_end" /\ loop.height = Len(vals)
    BY <1>6, <1>8
  <2>5. Provides(todo[1], ts, Len(vals), pos + 1)
    BY <1>3, <2>2, <2>4, RoundProvides DEF Handlers
  <2>6. Nests(todo[1], ts, vals, pos + 1)
    <3>1. ~Joins(t) /\ t.do \notin Operand /\ ~Joins(loop) /\ loop.do \notin Operand
      BY <2>2, <2>4 DEF Joins, Operand
    <3> QED
      BY <1>4, <3>1, PairNests
  <2> HIDE DEF ts
  <2>7. \A i \in 1 .. Len(ts) : i = 1 \/ i = 2
    BY <2>3
  <2>8. loop.do = "array_end" /\ IsLoop(loop)
    BY <1>6, <1>8
  <2>9. TaskIs(t) /\ TaskIs(loop)
    BY <2>2, <2>8 DEF TaskIs, Tasks, Handlers
  <2>10. /\ t.do \notin AtToken /\ t.do # "block" /\ loop.do \notin AtToken /\ loop.do # "block"
        /\ t.do \notin Rounds /\ loop.do \notin Rounds
    BY <2>2, <2>8 DEF AtToken, Rounds
  <2>11. BeginAtTokens(ts, pos + 1) /\ RoundsConsume(ts, pos + 1)
    BY <2>3, <2>7, <2>10, Zenon DEF BeginAtTokens, RoundsConsume
  <2>12. ts # <<>>
    BY <2>3, SequenceElim
  <2>13. todo[1].do # "items" /\ todo[1].do # "expect" /\ todo[1].do \notin Consuming
    BY <1>2 DEF Consuming
  <2>14. \A i \in 1 .. Len(ts) : TaskIs(ts[i])
    BY <2>3, <2>7, <2>9
  <2>15. FitsOrder(todo[1], ts, pos + 1)
    BY <2>3, <2>11, <2>12, <2>13, <2>14, Zenon DEF FitsOrder
  <2> QED
    BY <1>1, <1>6, <1>8, <1>3, <2>1, <2>15, <2>5, <2>6, NothingReported, StepKeeps
<1> QED
  BY <1>5, <1>7, <1>8

LEMMA FinishArraySuffixKeeps ==
  ASSUME InOrder, Shaped, Nested, FinishArraySuffix
  PROVE  InOrder' /\ Shaped' /\ Nested'
<1>1. At("array_end")
  BY DEF FinishArraySuffix
<1>2. tokens \in Texts /\ pos \in Places /\ Ahead(pos, pos) /\ todo[1].do = "array_end"
  BY <1>1, HeadIs
<1> DEFINE t == Call("array")
           ts == <<t>>
           p == IF Kind(pos) = "]" THEN pos + 1 ELSE pos
           h == Task.height
           size == IF Task.ok THEN SubSeq(vals, h + 1, Len(vals)) ELSE <<>>
           ty == Wrapped(vals[h].ty, ArrayLayer(size))
           var == [vals[h] EXCEPT !.ty = ty]
           below == SubSeq(vals, 1, h - 1)
           vs == Append(below, var)
           es == IF Kind(pos) = "]" THEN <<>> ELSE Error("E0302", pos)
<1>3. [vals[h] EXCEPT !.ty = Wrapped(@, ArrayLayer(size))] = var
  OBVIOUS
<1>4. Step(p, ts, vs, es)
  BY <1>3, Zenon DEF FinishArraySuffix
<1>5. /\ Len(vals) \in Nat /\ AreNodes(vals) /\ h \in Nat /\ h # 0 /\ h <= Len(vals)
       /\ \A m \in Nat : Yields(todo[1], Len(vals), m) => m <= h
  <2>1. /\ Carries(todo[1], pos) /\ Enough(todo[1], Len(vals)) /\ Len(vals) \in Nat /\ AreNodes(vals)
        /\ Task = todo[1]
    BY <1>1, HeadIs, HeadShaped
  <2> QED
    BY <1>2, <2>1 DEF Carries, Enough, Yields, Handlers
<1>6. AreReports(es)
  BY <1>2, ErrorIs, NothingReported
<1> HIDE DEF size, es, h
<1>7. IsNode(var)
  <2>1. h \in 1 .. Len(vals)
    BY <1>5
  <2>2. IsNode(vals[h])
    BY <1>5, <2>1, NodeAt
  <2> HIDE DEF ty
  <2> QED
    BY <2>2, NodeEdited
<1>8. AreNodes(below) /\ Len(below) = h - 1
  <2>1. h - 1 \in Nat /\ h - 1 <= Len(vals)
    BY <1>5
  <2> QED
    BY <1>5, <2>1, NodesBelow
<1> HIDE DEF var, below
<1>9. AreNodes(vs) /\ Len(vs) = h
  <2>1. AreNodes(vs) /\ Len(vs) = Len(below) + 1
    BY <1>7, <1>8, NodesGrow
  <2> QED
    BY <1>5, <1>8, <2>1
<1> HIDE DEF vs
<1>10. Ahead(pos, p)
  BY <1>2, NextPlace
<1>11. t.do = "array"
  BY CallIs
<1>12. IsSequence(ts) /\ Len(ts) = 1 /\ ts[1] = t
  BY SequenceOne
<1> HIDE DEF t, ts, p
<1>13. Listed(ts)
  BY <1>11, <1>12, SequenceElim DEF Listed, Fine, TaskIs, Tasks, Handlers, AtToken
<1>14. Begins(ts[1], p)
  BY <1>11, <1>12, BeginsAnywhere DEF AtToken
<1>15. \E g : Jobs(ts, g, Len(vs), p)
  <2> DEFINE g == [i \in 1 .. 2 |-> h]
  <2>1. g[1] = h /\ g[2] = h
    OBVIOUS
  <2> HIDE DEF g
  <2>2. Job(t, p, h, h)
    BY <1>11, <1>5, UsingJob DEF Using
  <2>3. Reaches(todo[1], h) /\ h <= h
    BY <1>5 DEF Reaches
  <2>4. /\ \A i \in 1 .. Len(ts) + 1 : i = 1 \/ i = 2
        /\ \A i \in 1 .. Len(ts) : i = 1 /\ i + 1 = 2
        /\ Len(ts) + 1 = 2
    BY <1>12
  <2> QED
    BY <1>12, <1>5, <1>9, <2>1, <2>2, <2>3, <2>4, Zenon DEF Jobs
<1>16. Nests(todo[1], ts, vs, p)
  <2>1. ~InExpr(todo[1]) /\ ~Joins(t) /\ t.do \notin Operand
    BY <1>2, <1>11 DEF InExpr, Joins, Operand
  <2>2. \A i \in 1 .. Len(ts) : ~Joins(ts[i]) /\ ts[i].do \notin Operand
    BY <1>12, <2>1
  <2> QED
    BY <1>12, <2>1, <2>2, CalmNests
<1> QED
  BY <1>1, <1>4, <1>10, <1>13, <1>14, <1>6, <1>9, <1>15, <1>16, ListedKeeps DEF Consuming

-----------------------------------------------------------------------------

LEMMA InitKeeps ==
  ASSUME Init
  PROVE  InOrder /\ Shaped /\ Nested
<1> DEFINE loop == Loop("items", 0, 0)
           ts == <<loop>>
<1>1. tokens \in Texts /\ pos = 1 /\ todo = ts
  BY DEF Init
<1>2. 1 \in Places /\ 0 \in 0 .. Len(tokens) /\ Len(tokens) \in Nat
  BY <1>1, TokensAre
<1>3. loop.do = "items" /\ loop.at = 0 /\ IsLoop(loop)
  BY <1>2 DEF Loop, IsLoop
<1>4. IsSequence(ts) /\ Len(ts) = 1 /\ ts[1] = loop
  BY SequenceOne
<1> HIDE DEF loop, ts
<1>5. \A i \in 1 .. Len(ts) : i = 1
  BY <1>4
<1>6. TaskIs(loop)
  BY <1>3 DEF TaskIs, Tasks
<1>7. loop.do \notin AtToken /\ loop.do # "block" /\ loop.at <= 1 /\ loop.at # 1
  BY <1>3 DEF AtToken
<1>8. Ordered(ts, 1)
  BY <1>2, <1>3, <1>4, <1>5, <1>6, <1>7, Zenon
     DEF Ordered, LastCatches, BeginAtTokens, RoundsConsume
<1>9. vals = <<>> /\ diagnostics = <<>> /\ panicked = FALSE /\ loop.height = 0
  BY DEF Init, Loop, loop
<1>10. AreNodes(vals) /\ Len(vals) = 0
  <2> DEFINE vs == <<>>
  <2>1. IsSequence(vs) /\ Len(vs) = 0
    BY SequenceEmpty
  <2> HIDE DEF vs
  <2>2. AreNodes(vs)
    BY <2>1 DEF AreNodes
  <2> QED
    BY <1>9, <2>1, <2>2 DEF vs
<1>11. Supplied(ts, 0)
  <2> DEFINE b == [i \in 1 .. 2 |-> 0]
  <2>1. b[1] = 0 /\ b[2] = 0
    OBVIOUS
  <2> HIDE DEF b
  <2>2. Enough(loop, 0) /\ Yields(loop, 0, 0)
    BY <1>3, <1>9 DEF Enough, Yields, Giving, Closing, Handlers
  <2>3. /\ \A i \in 1 .. Len(ts) + 1 : i = 1 \/ i = 2
        /\ \A i \in 1 .. Len(ts) : i = 1 /\ i + 1 = 2
        /\ \A j \in 1 .. 1 : j = 1
        /\ 0 \in Nat /\ 0 <= 0
    BY <1>4
  <2>4. Heights(ts, b)
    BY <1>4, <1>9, <2>1, <2>2, <2>3, Zenon DEF Heights
  <2> QED
    BY <2>1, <2>3, <2>4, Zenon DEF Supplied
<1>12. Carries(loop, 1)
  BY <1>3, <1>9 DEF Carries, Handlers
<1>13. ShapedBy(ts, vals, diagnostics, 1)
  BY <1>4, <1>5, <1>9, <1>10, <1>11, <1>12, NothingReported DEF ShapedBy
<1>14. NestedBy(ts, vals, pos)
  <2>1. ~Joins(loop) /\ loop.do \notin Operand
    BY <1>3 DEF Joins, Operand
  <2>2. \A i \in 1 .. Len(ts) : ~Joins(ts[i])
    BY <1>4, <1>5, <2>1
  <2>3. \A i \in 2 .. Len(ts) : FALSE
    BY <1>4
  <2> QED
    BY <1>4, <2>1, <2>2, <2>3, Zenon DEF NestedBy
<1> QED
  BY <1>1, <1>8, <1>9, <1>13, <1>14 DEF InOrder, Shaped, Nested, PanicsOnlyAcrossFiles

LEMMA ParseKeeps ==
  ASSUME InOrder, Shaped, Nested, Parse
  PROVE  InOrder' /\ Shaped' /\ Nested'
<1>1. CASE \/ ExpectToken \/ MakeNode \/ JoinAcrossFiles
           \/ NextItem \/ EndItems \/ Recover
           \/ ParseItem \/ ParseDeclarator \/ ParseItemForm \/ ParseArraySuffix \/ FinishArraySuffix
           \/ ParseInitializer \/ AttachInitializer \/ FinishVar \/ ParseMore
  BY <1>1, ExpectTokenKeeps, MakeNodeKeeps, JoinAcrossFilesKeeps, NextItemKeeps, EndItemsKeeps,
     RecoverKeeps, ParseItemKeeps, ParseDeclaratorKeeps, ParseItemFormKeeps,
     ParseArraySuffixKeeps, FinishArraySuffixKeeps, ParseInitializerKeeps,
     AttachInitializerKeeps, FinishVarKeeps, ParseMoreKeeps, Zenon
<1>2. CASE \/ ParseParamList \/ ParseParam \/ ParseMoreParams \/ ParseBody \/ FinishFn
           \/ ParseBlock \/ NextStmt \/ EndStmts \/ EndBlock
           \/ ParseUnsafe \/ ParseCompound \/ ParseEmpty \/ ParseReturn \/ ParseJump
           \/ ParseIf \/ ParseElse \/ ParseWhile \/ ParseDoWhile
           \/ ParseFor \/ ParseForInit \/ ParseSlot \/ ParseDeclStmt \/ ParseExprStmt \/ ParseLocal
  BY <1>2, ParseParamListKeeps, ParseParamKeeps, ParseMoreParamsKeeps, ParseBodyKeeps,
     FinishFnKeeps, ParseBlockKeeps, NextStmtKeeps, EndStmtsKeeps, EndBlockKeeps,
     ParseUnsafeKeeps, ParseCompoundKeeps, ParseEmptyKeeps, ParseReturnKeeps, ParseJumpKeeps,
     ParseIfKeeps, ParseElseKeeps, ParseWhileKeeps, ParseDoWhileKeeps, ParseForKeeps,
     ParseForInitKeeps, ParseSlotKeeps, ParseDeclStmtKeeps, ParseExprStmtKeeps,
     ParseLocalKeeps, Zenon
<1>3. CASE \/ ParseExpr \/ ParseComma \/ ParseAssignment \/ ParseAssignOp \/ ParseTernary
           \/ ParseBinary \/ ParseUnary \/ ParsePostfix \/ ParseCallArgs \/ ParseMoreArgs
           \/ ParseLeaf \/ ParseCast \/ ParseParen \/ ExpectedExpr
  BY <1>3, ParseExprKeeps, ParseCommaKeeps, ParseAssignmentKeeps, ParseAssignOpKeeps,
     ParseTernaryKeeps, ParseBinaryKeeps, ParseUnaryKeeps, ParsePostfixKeeps,
     ParseCallArgsKeeps, ParseMoreArgsKeeps, ParseLeafKeeps, ParseCastKeeps, ParseParenKeeps,
     ExpectedExprKeeps, Zenon
<1> QED
  BY <1>1, <1>2, <1>3, Zenon DEF Parse

LEMMA NothingChanges ==
  ASSUME InOrder, Shaped, Nested, UNCHANGED vars
  PROVE  InOrder' /\ Shaped' /\ Nested'
<1>1. /\ tokens' = tokens /\ todo' = todo /\ pos' = pos /\ vals' = vals
      /\ diagnostics' = diagnostics /\ panicked' = panicked
  BY DEF vars
<1>2. Ordered(todo', pos')
  BY <1>1 DEF InOrder
<1>3. ShapedBy(todo', vals', diagnostics', pos') /\ panicked' \in BOOLEAN
  BY <1>1 DEF Shaped
<1>4. NestedBy(todo', vals', pos') /\ (panicked' => \E p \in 1 .. Len(tokens) - 1 : ExprBoundary(p))
  BY <1>1 DEF Nested, PanicsOnlyAcrossFiles
<1> QED
  BY <1>1, <1>2, <1>3, <1>4, OrderedPrimed, ShapedPrimed, NestedPrimed DEF InOrder

\* At every step, what is left to do fits the tokens ahead and the values at hand:
\* the tasks that begin at a token find one, every loop has consumed one when it is
\* reached again, the loop over items is there to handle an error, every task finds
\* the nodes that it takes, however many of those before it gave up, and a node that
\* Span::join is to give its span is of the tokens of one expression.
THEOREM AlwaysInOrder == Spec => [](InOrder /\ Shaped /\ Nested)
<1>1. InOrder /\ Shaped /\ Nested /\ [Next]_vars => InOrder' /\ Shaped' /\ Nested'
  BY ParseKeeps, NothingChanges, Zenon DEF Next, Terminating
<1>2. Init => InOrder /\ Shaped /\ Nested
  BY InitKeeps
<1> QED
  BY <1>1, <1>2, PTL DEF Spec

\* The position is one in the list, diagnostics are at tokens, and every node spans
\* tokens from its first to its last one, after any errors and recoveries.
THEOREM TypeCorrect == Spec => []TypeOK
<1>1. InOrder /\ Shaped => TypeOK
  <2> SUFFICES ASSUME InOrder, Shaped
               PROVE  TypeOK
    OBVIOUS
  <2>1. tokens \in Texts /\ pos \in Places /\ IsSequence(todo) /\ \A i \in 1 .. Len(todo) : TaskIs(todo[i])
    BY DEF InOrder, Ordered
  <2>2. AreNodes(vals) /\ AreReports(diagnostics) /\ panicked \in BOOLEAN
    BY DEF Shaped, ShapedBy
  <2>3. Last(tokens).k = "eof"
    BY <2>1, TextsAssumption DEF TextsAssumption
  <2>4. ASSUME NEW d \in Range(diagnostics)
        PROVE  d.code \in {"E0302", "E0303", "E0304", "E0305", "E0306"} /\ d.at \in DOMAIN tokens
    <3>1. PICK i \in DOMAIN diagnostics : d = diagnostics[i]
      BY DEF Range
    <3>2. i \in 1 .. Len(diagnostics)
      BY <2>2, <3>1, SequenceElim DEF AreReports
    <3> QED
      BY <2>2, <3>1, <3>2 DEF AreReports, IsReport
  <2>5. ASSUME NEW t \in Range(todo) PROVE t.do \in Tasks
    <3>1. PICK i \in DOMAIN todo : t = todo[i]
      BY DEF Range
    <3>2. i \in 1 .. Len(todo)
      BY <2>1, <3>1, SequenceElim
    <3> QED
      BY <2>1, <3>1, <3>2 DEF TaskIs
  <2>6. ASSUME NEW n \in Range(vals)
        PROVE  {n.span.lo, n.span.hi} \subseteq DOMAIN tokens /\ n.span.lo <= n.span.hi
    <3>1. PICK i \in DOMAIN vals : n = vals[i]
      BY DEF Range
    <3>2. i \in 1 .. Len(vals)
      BY <2>2, <3>1, SequenceElim DEF AreNodes
    <3>3. IsSpan(n.span)
      BY <2>2, <3>1, <3>2, NodeAt
    <3> QED
      BY <3>3 DEF IsSpan
  <2> QED
    BY <2>1, <2>2, <2>3, <2>4, <2>5, <2>6 DEF TypeOK
<1> QED
  BY <1>1, AlwaysInOrder, PTL

\* Every round of the loops over items and statements has consumed a token,
\* whether it succeeded or was recovered from (the forced bump of
\* parse_translation_unit and parse_compound_stmt): the loops end with the tokens.
THEOREM RoundsConsumeTokens == Spec => []EveryRoundConsumes
<1>1. InOrder => EveryRoundConsumes
  <2> SUFFICES ASSUME InOrder, NEW name \in Rounds, At(name), Task.ok
               PROVE  pos > Task.at
    BY DEF EveryRoundConsumes, Rounds
  <2>1. /\ pos \in Nat /\ Task = todo[1] /\ todo[1].do = name /\ TaskIs(todo[1])
        /\ todo[1].at <= pos /\ (todo[1].at = pos => ~todo[1].ok)
    BY HeadIs
  <2>2. todo[1].at \in 0 .. Len(tokens) /\ Len(tokens) \in Nat
    BY <2>1, TokensAre DEF InOrder, TaskIs, IsLoop, Rounds, Handlers
  <2> QED
    BY <2>1, <2>2
<1> QED
  BY <1>1, AlwaysInOrder, PTL

\* The debug assertion of Span::join fails only where two neighbouring tokens of one
\* expression are of two files: tokens that end a statement or begin one, and errors
\* and recoveries, do not make it fail.
THEOREM JoinsWithinExpressions == Spec => []PanicsOnlyAcrossFiles
<1>1. Nested => PanicsOnlyAcrossFiles
  BY DEF Nested
<1> QED
  BY <1>1, AlwaysInOrder, PTL

=============================================================================
