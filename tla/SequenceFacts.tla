--------------------------- MODULE SequenceFacts ---------------------------
(***************************************************************************)
(* Facts about sequences that the proofs about texts share: what the       *)
(* concatenation of a sequence of texts, FlattenSeq, computes.  Induction  *)
(* is over sets of naturals: the induction rules of the library take an    *)
(* operator, this form takes the set of numbers that have the property.    *)
(***************************************************************************)
EXTENDS Integers, SequencesExt, SequenceTheorems, WellFoundedInduction, TLAPS

-----------------------------------------------------------------------------
\* Induction, on sets of naturals.

\* Every set of naturals that is not empty has a least element.
LEMMA LeastNatural ==
  ASSUME NEW T \in SUBSET Nat, T # {}
  PROVE  \E n \in T : \A m \in T : n <= m
  <1>1. PICK n \in T : \A m \in T : ~(<<m, n>> \in OpToRel(<, Nat))
    BY NatLessThanWellFounded, WFMin, Zenon
  <1>2. \A m \in T : ~(m < n)
    BY <1>1 DEF OpToRel
  <1> QED  BY <1>2

\* A set that has 0, and n + 1 with every n, is Nat.
LEMMA SetInduction ==
  ASSUME NEW T \in SUBSET Nat, 0 \in T, \A n \in T : n + 1 \in T
  PROVE  T = Nat
  <1> SUFFICES ASSUME Nat \ T # {} PROVE FALSE
    OBVIOUS
  <1>1. PICK n \in Nat \ T : \A m \in Nat \ T : n <= m
    BY LeastNatural
  <1>2. n - 1 \in Nat /\ ~(n <= n - 1) /\ (n - 1) + 1 = n
    BY <1>1
  <1>3. n - 1 \in T
    BY <1>1, <1>2
  <1> QED  BY <1>1, <1>2, <1>3

-----------------------------------------------------------------------------
\* What FlattenSeq computes.

\* f[i] is the concatenation of the first i elements of q.
Joins(f, q, n) ==
    f = [i \in 1 .. n |-> IF i = 1 THEN q[i] ELSE f[i - 1] \o q[i]]

\* There are such concatenations, for any length.
LEMMA JoinsExists ==
  ASSUME NEW q
  PROVE  \A n \in Nat : \E f : Joins(f, q, n)
  <1> DEFINE T == {n \in Nat : \E f : Joins(f, q, n)}
  <1>1. 0 \in T
    <2> DEFINE f == [i \in 1 .. 0 |-> <<>>]
    <2>1. Joins(f, q, 0)
      BY DEF Joins
    <2> QED  BY <2>1
  <1>2. ASSUME NEW n \in T PROVE n + 1 \in T
    <2>1. PICK f : Joins(f, q, n)
      OBVIOUS
    <2> DEFINE g == [i \in 1 .. n + 1 |->
                       IF i <= n THEN f[i]
                       ELSE IF i = 1 THEN q[i] ELSE f[i - 1] \o q[i]]
    <2>2. \A i \in 1 .. n + 1 : g[i] = IF i = 1 THEN q[i] ELSE g[i - 1] \o q[i]
      <3> SUFFICES ASSUME NEW i \in 1 .. n + 1
                   PROVE  g[i] = IF i = 1 THEN q[i] ELSE g[i - 1] \o q[i]
        OBVIOUS
      <3>1. CASE i <= n
        <4>1. i \in 1 .. n /\ g[i] = f[i]
          BY <3>1
        <4>2. f[i] = IF i = 1 THEN q[i] ELSE f[i - 1] \o q[i]
          BY <2>1, <4>1 DEF Joins
        <4>3. i # 1 => g[i - 1] = f[i - 1]
          BY <4>1
        <4> QED  BY <4>1, <4>2, <4>3
      <3>2. CASE ~(i <= n)
        <4>1. g[i] = IF i = 1 THEN q[i] ELSE f[i - 1] \o q[i]
          BY <3>2
        <4>2. i # 1 => g[i - 1] = f[i - 1]
          BY <3>2
        <4> QED  BY <4>1, <4>2
      <3> QED  BY <3>1, <3>2
    <2>3. g = [i \in 1 .. n + 1 |-> g[i]]
      OBVIOUS
    <2> HIDE DEF g
    <2>4. Joins(g, q, n + 1)
      BY <2>2, <2>3 DEF Joins
    <2> QED  BY <2>4
  <1>3. T = Nat
    <2> HIDE DEF T
    <2>1. T \in SUBSET Nat
      BY DEF T
    <2> QED  BY <1>1, <1>2, <2>1, SetInduction
  <1> QED  BY <1>3

\* FlattenSeq is the concatenation of all elements.
LEMMA FlattenIs ==
  ASSUME NEW S, NEW q \in Seq(S), q # <<>>
  PROVE  \E f : Joins(f, q, Len(q)) /\ FlattenSeq(q) = f[Len(q)]
  <1> DEFINE f == CHOOSE f : Joins(f, q, Len(q))
  <1>1. Joins(f, q, Len(q))
    BY JoinsExists
  <1>2. FlattenSeq(q) = f[Len(q)]
    BY DEF FlattenSeq, Joins
  <1> QED  BY <1>1, <1>2

\* One more element.
LEMMA JoinsStep ==
  ASSUME NEW f, NEW q, NEW n \in Nat, Joins(f, q, n), NEW i \in 1 .. n
  PROVE  f[i] = IF i = 1 THEN q[i] ELSE f[i - 1] \o q[i]
  BY DEF Joins

\* The concatenation of the first n elements depends on these only.
LEMMA JoinsAgree ==
  ASSUME NEW n \in Nat, NEW f, NEW q, Joins(f, q, n), NEW g, NEW p, Joins(g, p, n + 1),
         \A i \in 1 .. n : q[i] = p[i]
  PROVE  \A i \in 1 .. n : f[i] = g[i]
  <1> DEFINE T == {i \in Nat : i \in 1 .. n => f[i] = g[i]}
  <1>1. 0 \in T
    OBVIOUS
  <1>2. ASSUME NEW i \in T PROVE i + 1 \in T
    <2> SUFFICES ASSUME i + 1 \in 1 .. n PROVE f[i + 1] = g[i + 1]
      OBVIOUS
    <2>1. i + 1 \in 1 .. n /\ i + 1 \in 1 .. n + 1 /\ q[i + 1] = p[i + 1] /\ (i + 1) - 1 = i
      OBVIOUS
    <2>2. /\ f[i + 1] = IF i + 1 = 1 THEN q[i + 1] ELSE f[i] \o q[i + 1]
          /\ g[i + 1] = IF i + 1 = 1 THEN p[i + 1] ELSE g[i] \o p[i + 1]
      BY <2>1, JoinsStep
    <2>3. i + 1 # 1 => f[i] = g[i]
      OBVIOUS
    <2> QED  BY <2>1, <2>2, <2>3
  <1>3. T = Nat
    <2> HIDE DEF T
    <2>1. T \in SUBSET Nat
      BY DEF T
    <2> QED  BY <1>1, <1>2, <2>1, SetInduction
  <1> QED  BY <1>3

\* A concatenation of texts over B is one.
LEMMA JoinsType ==
  ASSUME NEW B, NEW n \in Nat, NEW f, NEW q, Joins(f, q, n),
         \A i \in 1 .. n : q[i] \in Seq(B)
  PROVE  \A i \in 1 .. n : f[i] \in Seq(B)
  <1> DEFINE T == {i \in Nat : i \in 1 .. n => f[i] \in Seq(B)}
  <1>1. 0 \in T
    OBVIOUS
  <1>2. ASSUME NEW i \in T PROVE i + 1 \in T
    <2> SUFFICES ASSUME i + 1 \in 1 .. n PROVE f[i + 1] \in Seq(B)
      OBVIOUS
    <2>1. q[i + 1] \in Seq(B) /\ (i + 1) - 1 = i
      OBVIOUS
    <2>2. f[i + 1] = IF i + 1 = 1 THEN q[i + 1] ELSE f[i] \o q[i + 1]
      BY <2>1, JoinsStep
    <2>3. i + 1 # 1 => f[i] \in Seq(B)
      OBVIOUS
    <2> QED  BY <2>1, <2>2, <2>3
  <1>3. T = Nat
    <2> HIDE DEF T
    <2>1. T \in SUBSET Nat
      BY DEF T
    <2> QED  BY <1>1, <1>2, <2>1, SetInduction
  <1> QED  BY <1>3

\* No texts make the empty text.
LEMMA FlattenEmpty == FlattenSeq(<<>>) = <<>>
  BY DEF FlattenSeq

\* FlattenSeq of texts over B is one.
LEMMA FlattenType ==
  ASSUME NEW B, NEW q \in Seq(Seq(B))
  PROVE  FlattenSeq(q) \in Seq(B)
  <1>1. CASE q = <<>>
    <2>1. FlattenSeq(q) = <<>>
      BY <1>1, FlattenEmpty
    <2> QED  BY <2>1
  <1>2. CASE q # <<>>
    <2>1. PICK f : Joins(f, q, Len(q)) /\ FlattenSeq(q) = f[Len(q)]
      BY <1>2, FlattenIs
    <2>2. Len(q) \in Nat /\ Len(q) \in 1 .. Len(q) /\ \A i \in 1 .. Len(q) : q[i] \in Seq(B)
      BY <1>2
    <2> QED  BY <2>1, <2>2, JoinsType
  <1> QED  BY <1>1, <1>2

\* A text added to a sequence is added to its concatenation.
LEMMA FlattenAppend ==
  ASSUME NEW B, NEW q \in Seq(Seq(B)), NEW r \in Seq(B)
  PROVE  FlattenSeq(Append(q, r)) = FlattenSeq(q) \o r
  <1> DEFINE n == Len(q)
             p == Append(q, r)
  <1>1. /\ p \in Seq(Seq(B)) /\ p # <<>> /\ Len(p) = n + 1 /\ n \in Nat
        /\ p[n + 1] = r /\ \A i \in 1 .. n : q[i] = p[i]
    <2>1. /\ p \in Seq(Seq(B)) /\ p # <<>> /\ Len(p) = n + 1
          /\ \A i \in 1 .. n : p[i] = q[i]
          /\ p[n + 1] = r
      BY AppendProperties
    <2> QED  BY <2>1
  <1> HIDE DEF p
  <1>2. PICK g : Joins(g, p, n + 1) /\ FlattenSeq(p) = g[n + 1]
    BY <1>1, FlattenIs
  <1>3. g[n + 1] = IF n + 1 = 1 THEN r ELSE g[n] \o r
    <2>1. n + 1 \in Nat /\ n + 1 \in 1 .. n + 1 /\ (n + 1) - 1 = n
      BY <1>1
    <2>2. g[n + 1] = IF n + 1 = 1 THEN p[n + 1] ELSE g[(n + 1) - 1] \o p[n + 1]
      BY <1>2, <2>1, JoinsStep
    <2> QED  BY <1>1, <2>1, <2>2
  <1>4. CASE q = <<>>
    <2>1. FlattenSeq(p) = r
      BY <1>2, <1>3, <1>4
    <2>2. FlattenSeq(q) = <<>>
      BY <1>4, FlattenEmpty
    <2> QED  BY <2>1, <2>2, ConcatEmptySeq DEF p
  <1>5. CASE q # <<>>
    <2>1. PICK f : Joins(f, q, n) /\ FlattenSeq(q) = f[n]
      BY <1>5, FlattenIs
    <2>2. n \in 1 .. n /\ n + 1 # 1 /\ n <= n /\ n <= n + 1 /\ n \in Nat /\ n + 1 \in Nat
      BY <1>1, <1>5
    <2>3. \A i \in 1 .. n : q[i] = p[i]
      BY <1>1
    <2> HIDE DEF n
    <2>4. \A i \in 1 .. n : f[i] = g[i]
      BY <1>2, <2>1, <2>2, <2>3, JoinsAgree
    <2> QED  BY <1>2, <1>3, <2>1, <2>2, <2>4 DEF p
  <1> QED  BY <1>4, <1>5

-----------------------------------------------------------------------------
\* Sequences and their prefixes.

\* Functions on 1 .. n are sequences.
LEMMA FunctionIsSeq ==
  ASSUME NEW S, NEW n \in Nat, NEW f \in [1 .. n -> S]
  PROVE  f \in Seq(S) /\ Len(f) = n
  OBVIOUS

\* What a prefix is.
LEMMA PrefixIsSeq ==
  ASSUME NEW S, NEW m \in Seq(S), NEW n \in 0 .. Len(m)
  PROVE  /\ SubSeq(m, 1, n) \in Seq(S) /\ Len(SubSeq(m, 1, n)) = n
         /\ \A i \in 1 .. n : SubSeq(m, 1, n)[i] = m[i]
  OBVIOUS
=============================================================================
