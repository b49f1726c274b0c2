----------------------- MODULE MessageComposerProofs -----------------------
(***************************************************************************)
(* Proofs about MessageComposer, for any sockets, requests, buffer size and*)
(* numbers of connections and requests.                                    *)
(*                                                                         *)
(* Texts come first: requests joined end to end can be taken apart again   *)
(* at their blank lines (CompletePrefixSplits).  The invariant ComposerInv *)
(* then says where a connection is between two calls of recv().            *)
(***************************************************************************)
EXTENDS MessageComposer, SequenceFacts

-----------------------------------------------------------------------------
\* Blank lines, and where they end.

EndsBlank(m, l) ==
    l > 3 /\ m[l - 3] = "CR" /\ m[l - 2] = "LF" /\ m[l - 1] = "CR" /\ m[l] = "LF"

\* The blank line, read backwards as IsSuffix does.
LEMMA BlankLineIs ==
  /\ Reverse(BlankLine) \in Seq({"CR", "LF"}) /\ Len(Reverse(BlankLine)) = 4
  /\ Reverse(BlankLine)[1] = "LF" /\ Reverse(BlankLine)[2] = "CR"
  /\ Reverse(BlankLine)[3] = "LF" /\ Reverse(BlankLine)[4] = "CR"
  <1> DEFINE b == Reverse(BlankLine)
  <1>1. Len(BlankLine) = 4
    BY DEF BlankLine
  <1>2. BlankLine[4] = "LF" /\ BlankLine[3] = "CR" /\ BlankLine[2] = "LF" /\ BlankLine[1] = "CR"
    BY DEF BlankLine
  <1>3. \A i \in 1 .. 4 : (4 - i) + 1 \in 1 .. 4 /\ BlankLine[(4 - i) + 1] \in {"CR", "LF"}
    <2>1. \A j \in 1 .. 4 : BlankLine[j] \in {"CR", "LF"}
      <3>1. \A j \in 1 .. 4 : j = 1 \/ j = 2 \/ j = 3 \/ j = 4
        OBVIOUS
      <3> QED  BY <1>2, <3>1
    <2>2. \A i \in 1 .. 4 : (4 - i) + 1 \in 1 .. 4
      OBVIOUS
    <2> QED  BY <2>1, <2>2
  <1>4. b = [i \in 1 .. 4 |-> BlankLine[(4 - i) + 1]]
    BY <1>1 DEF Reverse
  <1>5. b \in [1 .. 4 -> {"CR", "LF"}]
    BY <1>3, <1>4, Zenon
  <1>6. b[1] = "LF" /\ b[2] = "CR" /\ b[3] = "LF" /\ b[4] = "CR"
    BY <1>2, <1>4
  <1> HIDE DEF b
  <1>7. b \in Seq({"CR", "LF"}) /\ Len(b) = 4
    BY <1>5, 4 \in Nat, FunctionIsSeq, Zenon
  <1> QED  BY <1>6, <1>7 DEF b

\* verifyMessageComplete looks at the last four bytes.
LEMMA CompleteIs ==
  ASSUME NEW S, NEW m \in Seq(S)
  PROVE  Complete(m) <=> EndsBlank(m, Len(m))
  <1> DEFINE l == Len(m)
             v == Reverse(m)
  <1>1. PICK b \in Seq({"CR", "LF"}) : /\ b = Reverse(BlankLine) /\ Len(b) = 4
                /\ b[1] = "LF" /\ b[2] = "CR" /\ b[3] = "LF" /\ b[4] = "CR"
    BY BlankLineIs
  <1>2. v \in Seq(S) /\ Len(v) = l /\ \A i \in 1 .. l : v[i] = m[(l - i) + 1]
    <2>1. v \in [1 .. l -> S] /\ \A i \in 1 .. l : v[i] = m[(l - i) + 1]
      BY DEF Reverse
    <2> HIDE DEF v
    <2> QED  BY <2>1
  <1>3. Complete(m) <=> l > 3 /\ 4 <= l /\ SubSeq(b, 1, 4) = SubSeq(v, 1, 4)
    BY <1>1, <1>2 DEF Complete, IsSuffix, IsPrefix
  <1> HIDE DEF v
  <1>4. SubSeq(b, 1, 4) = b
    BY <1>1, SubSeqFull
  <1>5. ASSUME l > 3
        PROVE  b = SubSeq(v, 1, 4) <=>
                 v[1] = "LF" /\ v[2] = "CR" /\ v[3] = "LF" /\ v[4] = "CR"
    <2>1. SubSeq(v, 1, 4) \in Seq(S) /\ Len(SubSeq(v, 1, 4)) = 4
          /\ \A i \in 1 .. 4 : SubSeq(v, 1, 4)[i] = v[i]
      BY <1>2, <1>5
    <2>2. PICK u \in Seq(S) : u = SubSeq(v, 1, 4)
      BY <2>1, Zenon
    <2>3. Len(u) = 4 /\ u[1] = v[1] /\ u[2] = v[2] /\ u[3] = v[3] /\ u[4] = v[4]
      BY <2>1, <2>2
    <2>4. ASSUME v[1] = "LF" /\ v[2] = "CR" /\ v[3] = "LF" /\ v[4] = "CR"
          PROVE  b = u
      <3>1. \A i \in 1 .. 4 : i = 1 \/ i = 2 \/ i = 3 \/ i = 4
        OBVIOUS
      <3>2. \A i \in 1 .. 4 : b[i] = u[i]
        BY <1>1, <2>3, <2>4, <3>1
      <3>3. u \in Seq({"CR", "LF"})
        <4>1. u \in [1 .. 4 -> {"CR", "LF"}]
          BY <2>3, <2>4, <3>1
        <4> QED  BY <4>1, 4 \in Nat, FunctionIsSeq, Zenon
      <3> QED  BY <1>1, <2>3, <3>2, <3>3, SeqEqual
    <2> QED  BY <1>1, <2>2, <2>3, <2>4
  <1>6. ASSUME l > 3
        PROVE  v[1] = m[l] /\ v[2] = m[l - 1] /\ v[3] = m[l - 2] /\ v[4] = m[l - 3]
    BY <1>2, <1>6
  <1> QED  BY <1>3, <1>4, <1>5, <1>6 DEF EndsBlank

\* Whether a prefix is complete shows in the whole.
LEMMA PrefixComplete ==
  ASSUME NEW S, NEW m \in Seq(S), NEW n \in 1 .. Len(m)
  PROVE  Complete(SubSeq(m, 1, n)) <=> EndsBlank(m, n)
  <1>0. SubSeq(m, 1, n) \in Seq(S)
    BY PrefixIsSeq
  <1>1. PICK u \in Seq(S) : u = SubSeq(m, 1, n)
    BY <1>0, Zenon
  <1>2. Len(u) = n /\ \A i \in 1 .. n : u[i] = m[i]
    BY <1>1
  <1>3. EndsBlank(u, n) <=> EndsBlank(m, n)
    BY <1>2 DEF EndsBlank
  <1> QED  BY <1>1, <1>2, <1>3, CompleteIs

\* The assumption on requests, about their bytes.
LEMMA RequestsAre ==
  ASSUME NEW r \in Requests
  PROVE  /\ r \in Seq(Bytes) /\ Len(r) > 3
         /\ r[1] # "CR" /\ r[1] # "LF"
         /\ \A k \in 4 .. Len(r) : EndsBlank(r, k) => k = Len(r)
  <1>1. /\ r \in Seq(STRING) /\ Len(r) > 3 /\ r[1] \notin {"CR", "LF"}
        /\ \A k \in 4 .. Len(r) : Complete(SubSeq(r, 1, k)) <=> k = Len(r)
    BY ConstantsOK
  <1>2. \A k \in 4 .. Len(r) : k \in 1 .. Len(r) /\ (Complete(SubSeq(r, 1, k)) <=> EndsBlank(r, k))
    BY <1>1, PrefixComplete
  <1>3. Len(r) \in Nat /\ r = [i \in 1 .. Len(r) |-> r[i]]
    BY <1>1
  <1>4. \A i \in 1 .. Len(r) : r[i] \in Bytes
    BY <1>1 DEF Bytes, ToSet
  <1>5. r \in [1 .. Len(r) -> Bytes]
    BY <1>3, <1>4, Zenon
  <1>6. r \in Seq(Bytes)
    BY <1>3, <1>5, FunctionIsSeq, Zenon
  <1> QED  BY <1>1, <1>2, <1>6

\* No blank line reaches from a text into the request that follows it, nor ends
\* inside that request.
LEMMA BlankInConcat ==
  ASSUME NEW a \in Seq(Bytes), NEW r \in Requests, NEW n \in 1 .. Len(a \o r),
         EndsBlank(a \o r, n)
  PROVE  \/ n <= Len(a) /\ EndsBlank(a, n)
         \/ n = Len(a \o r)
  <1>1. /\ r \in Seq(Bytes) /\ Len(r) > 3 /\ r[1] # "CR" /\ r[1] # "LF"
        /\ \A k \in 4 .. Len(r) : EndsBlank(r, k) => k = Len(r)
    BY RequestsAre
  <1>2. PICK m \in Seq(Bytes) : m = a \o r
    BY <1>1, ConcatProperties, Zenon
  <1>3. /\ Len(m) = Len(a) + Len(r)
        /\ \A i \in 1 .. Len(a) : m[i] = a[i]
        /\ \A j \in 1 .. Len(r) : m[Len(a) + j] = r[j]
    <2>1. \A i \in 1 .. Len(a) + Len(r) : m[i] = IF i <= Len(a) THEN a[i] ELSE r[i - Len(a)]
      BY <1>1, <1>2, ConcatProperties
    <2>2. Len(m) = Len(a) + Len(r)
      BY <1>1, <1>2, ConcatProperties
    <2>3. \A i \in 1 .. Len(a) : i \in 1 .. Len(a) + Len(r) /\ i <= Len(a)
      BY <1>1
    <2>4. \A j \in 1 .. Len(r) : /\ Len(a) + j \in 1 .. Len(a) + Len(r)
                                 /\ ~(Len(a) + j <= Len(a)) /\ (Len(a) + j) - Len(a) = j
      BY <1>1
    <2> QED  BY <2>1, <2>2, <2>3, <2>4
  <1>4. CASE n <= Len(a)
    BY <1>2, <1>3, <1>4 DEF EndsBlank
  <1>5. CASE n > Len(a) + 3
    <2>1. PICK k \in 4 .. Len(r) : n = Len(a) + k
      <3> DEFINE k == n - Len(a)
      <3>1. k \in 4 .. Len(r) /\ n = Len(a) + k
        BY <1>1, <1>2, <1>3, <1>5
      <3> QED  BY <3>1
    <2>2. /\ r[k] = m[n] /\ r[k - 1] = m[n - 1] /\ r[k - 2] = m[n - 2]
          /\ r[k - 3] = m[n - 3]
      <3>1. \A d \in 0 .. 3 : k - d \in 1 .. Len(r) /\ Len(a) + (k - d) = n - d
        BY <1>1, <2>1
      <3>2. \A d \in 0 .. 3 : r[k - d] = m[n - d]
        BY <1>3, <3>1
      <3>3. k - 0 = k /\ n - 0 = n
        OBVIOUS
      <3> QED  BY <3>2, <3>3
    <2>3. EndsBlank(r, k)
      BY <1>2, <2>1, <2>2 DEF EndsBlank
    <2> QED  BY <1>1, <1>2, <1>3, <2>1, <2>3
  <1>6. CASE ~(n <= Len(a)) /\ ~(n > Len(a) + 3)
    <2>1. m[Len(a) + 1] = r[1]
      BY <1>1, <1>3
    <2>2. Len(a) + 1 = n \/ Len(a) + 1 = n - 1 \/ Len(a) + 1 = n - 2
      BY <1>6
    <2> QED  BY <1>1, <1>2, <2>1, <2>2 DEF EndsBlank
  <1> QED  BY <1>4, <1>5, <1>6

\* Requests joined end to end are a text.
LEMMA RequestSeqs ==
  ASSUME NEW q \in Seq(Requests)
  PROVE  q \in Seq(Seq(Bytes)) /\ FlattenSeq(q) \in Seq(Bytes)
  <1>1. q \in Seq(Seq(Bytes))
    <2>1. q \in [1 .. Len(q) -> Seq(Bytes)] /\ Len(q) \in Nat
      BY RequestsAre
    <2> QED  BY <2>1, FunctionIsSeq, Zenon
  <1> QED  BY <1>1, FlattenType

\* One more request.
LEMMA FlattenRequest ==
  ASSUME NEW q \in Seq(Requests), NEW r \in Requests
  PROVE  /\ Append(q, r) \in Seq(Requests) /\ Len(Append(q, r)) = Len(q) + 1
         /\ FlattenSeq(Append(q, r)) = FlattenSeq(q) \o r
  <1>1. q \in Seq(Seq(Bytes)) /\ r \in Seq(Bytes)
    BY RequestSeqs, RequestsAre
  <1>2. FlattenSeq(Append(q, r)) = FlattenSeq(q) \o r
    BY <1>1, FlattenAppend
  <1> QED  BY <1>2, AppendProperties

\* A complete prefix of requests joined end to end is some of the requests, and
\* what follows it is the others.
Splits(t, n, k) ==
    \E q1, q2 \in Seq(Requests) :
        /\ Len(q1) \in 1 .. k /\ Len(q2) \in 0 .. k
        /\ SubSeq(t, 1, n) = FlattenSeq(q1)
        /\ SubSeq(t, n + 1, Len(t)) = FlattenSeq(q2)

\* The rest of a concatenation, from inside its first part.
LEMMA RestOfConcat ==
  ASSUME NEW S, NEW a \in Seq(S), NEW r \in Seq(S), NEW n \in 1 .. Len(a)
  PROVE  /\ SubSeq(a \o r, 1, n) = SubSeq(a, 1, n)
         /\ SubSeq(a \o r, n + 1, Len(a \o r)) = SubSeq(a, n + 1, Len(a)) \o r
  <1>1. SubSeq(a \o r, 1, n) = SubSeq(a, 1, n)
    <2>1. 1 \in 1 .. Len(a)
      OBVIOUS
    <2> QED  BY <2>1, SubSeqOfConcat1
  <1>2. PICK m \in Seq(S) : m = a \o r
    BY ConcatProperties, Zenon
  <1>3. /\ Len(m) = Len(a) + Len(r)
        /\ \A i \in 1 .. Len(a) + Len(r) : m[i] = IF i <= Len(a) THEN a[i] ELSE r[i - Len(a)]
    BY <1>2, ConcatProperties
  <1>4. /\ SubSeq(a, n + 1, Len(a)) \in Seq(S)
        /\ Len(SubSeq(a, n + 1, Len(a))) = Len(a) - n
        /\ \A i \in 1 .. Len(a) - n : SubSeq(a, n + 1, Len(a))[i] = a[n + i]
    OBVIOUS
  <1>5. PICK c \in Seq(S) : c = SubSeq(a, n + 1, Len(a))
    BY <1>4, Zenon
  <1>6. /\ SubSeq(m, n + 1, Len(m)) \in Seq(S)
        /\ Len(SubSeq(m, n + 1, Len(m))) = Len(m) - n
        /\ \A i \in 1 .. Len(m) - n : SubSeq(m, n + 1, Len(m))[i] = m[n + i]
    BY <1>3
  <1>7. PICK d \in Seq(S) : d = SubSeq(m, n + 1, Len(m))
    BY <1>6, Zenon
  <1>8. PICK e \in Seq(S) : e = c \o r
    BY ConcatProperties, Zenon
  <1>9. /\ Len(e) = Len(c) + Len(r)
        /\ \A i \in 1 .. Len(c) + Len(r) : e[i] = IF i <= Len(c) THEN c[i] ELSE r[i - Len(c)]
    BY <1>8, ConcatProperties
  <1>10. Len(e) = Len(d) /\ Len(c) = Len(a) - n
    BY <1>3, <1>4, <1>5, <1>6, <1>7, <1>9
  <1>11. ASSUME NEW i \in 1 .. Len(d) PROVE d[i] = e[i]
    <2>1. n + i \in 1 .. Len(a) + Len(r) /\ i \in 1 .. Len(m) - n
          /\ i \in 1 .. Len(c) + Len(r) /\ (n + i <= Len(a) <=> i <= Len(c))
          /\ (i <= Len(c) => i \in 1 .. Len(a) - n) /\ (n + i) - Len(a) = i - Len(c)
      BY <1>3, <1>6, <1>7, <1>9, <1>10
    <2>2. d[i] = IF n + i <= Len(a) THEN a[n + i] ELSE r[(n + i) - Len(a)]
      BY <1>3, <1>6, <1>7, <2>1
    <2>3. e[i] = IF i <= Len(c) THEN c[i] ELSE r[i - Len(c)]
      BY <1>9, <2>1
    <2>4. i <= Len(c) => c[i] = a[n + i]
      BY <1>4, <1>5, <2>1
    <2> QED  BY <2>1, <2>2, <2>3, <2>4
  <1>12. d = e
    BY <1>10, <1>11, SeqEqual
  <1> QED  BY <1>1, <1>2, <1>5, <1>7, <1>8, <1>12

\* If a text can be split at n, so it can with a request behind it.
LEMMA SplitsLonger ==
  ASSUME NEW p \in Seq(Requests), NEW r \in Requests,
         NEW n \in 1 .. Len(FlattenSeq(p)), Splits(FlattenSeq(p), n, Len(p))
  PROVE  Splits(FlattenSeq(p) \o r, n, Len(p) + 1)
  <1> DEFINE a == FlattenSeq(p)
             m == a \o r
  <1>1. a \in Seq(Bytes) /\ r \in Seq(Bytes)
    BY RequestSeqs, RequestsAre
  <1>2. PICK q1, q2 \in Seq(Requests) :
          /\ Len(q1) \in 1 .. Len(p) /\ Len(q2) \in 0 .. Len(p)
          /\ SubSeq(a, 1, n) = FlattenSeq(q1)
          /\ SubSeq(a, n + 1, Len(a)) = FlattenSeq(q2)
    BY DEF Splits
  <1>3. /\ SubSeq(m, 1, n) = SubSeq(a, 1, n)
        /\ SubSeq(m, n + 1, Len(m)) = SubSeq(a, n + 1, Len(a)) \o r
    <2> HIDE DEF a
    <2>1. n \in 1 .. Len(a)
      BY DEF a
    <2> QED  BY <1>1, <2>1, RestOfConcat
  <1> HIDE DEF a, m
  <1>4. PICK q3 \in Seq(Requests) : Len(q3) = Len(q2) + 1 /\ FlattenSeq(q3) = FlattenSeq(q2) \o r
    BY FlattenRequest, Zenon
  <1>5. Len(p) \in Nat /\ Len(q2) \in Nat
    OBVIOUS
  <1>6. Len(q1) \in 1 .. Len(p) + 1 /\ Len(q3) \in 0 .. Len(p) + 1
    BY <1>2, <1>4, <1>5
  <1>7. SubSeq(m, 1, n) = FlattenSeq(q1) /\ SubSeq(m, n + 1, Len(m)) = FlattenSeq(q3)
    BY <1>2, <1>3, <1>4
  <1>8. Splits(m, n, Len(p) + 1)
    BY <1>6, <1>7, Zenon DEF Splits
  <1> QED  BY <1>8 DEF a, m

\* Any text can be split at its end.
LEMMA SplitsAtEnd ==
  ASSUME NEW q \in Seq(Requests), Len(q) > 0
  PROVE  Splits(FlattenSeq(q), Len(FlattenSeq(q)), Len(q))
  <1>1. PICK m \in Seq(Bytes) : m = FlattenSeq(q)
    BY RequestSeqs
  <1>2. SubSeq(m, 1, Len(m)) = m
    BY SubSeqFull
  <1>3. SubSeq(m, Len(m) + 1, Len(m)) = <<>>
    BY Len(m) \in Nat, SubSeqEmpty
  <1>4. Len(q) \in 1 .. Len(q)
    OBVIOUS
  <1>5. PICK z \in Seq(Requests) : z = <<>> /\ Len(z) = 0
    <2>1. <<>> \in Seq(Requests) /\ Len(<<>>) = 0
      OBVIOUS
    <2> QED  BY <2>1, Zenon
  <1>6. Len(z) \in 0 .. Len(q) /\ FlattenSeq(z) = <<>>
    BY <1>5, FlattenEmpty
  <1> QED  BY <1>1, <1>2, <1>3, <1>4, <1>6, Zenon DEF Splits

\* By induction on the number of requests.
LEMMA CompletePrefixSplits ==
  ASSUME NEW q \in Seq(Requests), NEW n \in 1 .. Len(FlattenSeq(q)),
         EndsBlank(FlattenSeq(q), n)
  PROVE  Splits(FlattenSeq(q), n, Len(q))
  <1> DEFINE Right(p) == \A i \in 1 .. Len(FlattenSeq(p)) :
                             EndsBlank(FlattenSeq(p), i) => Splits(FlattenSeq(p), i, Len(p))
             T == {k \in Nat : \A p \in Seq(Requests) : Len(p) = k => Right(p)}
  <1>1. 0 \in T
    <2> SUFFICES ASSUME NEW p \in Seq(Requests), Len(p) = 0 PROVE Right(p)
      OBVIOUS
    <2>1. FlattenSeq(p) = <<>>
      BY FlattenEmpty
    <2>2. Len(FlattenSeq(p)) = 0
      BY <2>1
    <2> QED  BY <2>2
  <1>2. ASSUME NEW k \in T PROVE k + 1 \in T
    <2> SUFFICES ASSUME NEW s \in Seq(Requests), Len(s) = k + 1,
                        NEW i \in 1 .. Len(FlattenSeq(s)), EndsBlank(FlattenSeq(s), i)
                 PROVE  Splits(FlattenSeq(s), i, Len(s))
      OBVIOUS
    <2>1. k \in Nat /\ s # <<>> /\ \A p \in Seq(Requests) : Len(p) = k => Right(p)
      OBVIOUS
    <2>2. PICK p \in Seq(Requests), r \in Requests : s = Append(p, r)
      BY <2>1, SequenceEmptyOrAppend
    <2>3. Len(s) = Len(p) + 1 /\ FlattenSeq(s) = FlattenSeq(p) \o r
      BY <2>2, FlattenRequest
    <2>4. Len(p) = k
      BY <2>1, <2>3
    <2>5. FlattenSeq(p) \in Seq(Bytes)
      BY RequestSeqs
    <2>6. \/ i <= Len(FlattenSeq(p)) /\ EndsBlank(FlattenSeq(p), i)
          \/ i = Len(FlattenSeq(s))
      BY <2>3, <2>5, BlankInConcat
    <2>7. CASE i <= Len(FlattenSeq(p)) /\ EndsBlank(FlattenSeq(p), i)
      <3>1. i \in 1 .. Len(FlattenSeq(p))
        BY <2>5, <2>7
      <3>2. Splits(FlattenSeq(p), i, Len(p))
        BY <2>1, <2>4, <2>7, <3>1
      <3> QED  BY <2>3, <3>1, <3>2, SplitsLonger
    <2>8. CASE i = Len(FlattenSeq(s))
      <3>1. Len(s) > 0
        BY <2>1
      <3> QED  BY <2>8, <3>1, SplitsAtEnd
    <2> QED  BY <2>6, <2>7, <2>8
  <1>3. T = Nat
    <2> HIDE DEF T
    <2>1. T \in SUBSET Nat
      BY DEF T
    <2> QED  BY <1>1, <1>2, <2>1, SetInduction
  <1> QED  BY <1>3

-----------------------------------------------------------------------------
\* The inductive invariant.

\* At most n requests, joined end to end.
Texts(n) == {FlattenSeq(q) : q \in UNION {[1 .. k -> Requests] : k \in 0 .. n}}

\* A connection whose socket has nothing stored is read from the beginning of a
\* request on, unless the socket's entry could be continued and completed, which
\* takes a full buffer: its last byte is otherwise never written, and an entry
\* that ends with it is never complete.
ComposerInv ==
    /\ TypeOK
    /\ ~filled => recv_buffer[BufSize] = "NUL"
    /\ \A f \in Sockets :
         /\ f \notin open => unread[f] = <<>>
         /\ messages_[f] = <<>> /\ (f \notin merged \/ ~filled) => unread[f] \in Texts(requests)
         /\ messages_[f] = <<>> /\ f \notin merged => arrived[f] = <<>>
    /\ WholePiecesArriveIntact
    /\ GarbledNeedsFullBuffer

\* Texts, without the functions that TLC enumerates.
LEMMA TextsAre ==
  ASSUME NEW n \in Nat, NEW t
  PROVE  t \in Texts(n) <=> \E q \in Seq(Requests) : Len(q) <= n /\ t = FlattenSeq(q)
  <1>1. ASSUME NEW q \in Seq(Requests), Len(q) <= n
        PROVE  q \in UNION {[1 .. k -> Requests] : k \in 0 .. n}
    <2>1. Len(q) \in 0 .. n /\ q \in [1 .. Len(q) -> Requests]
      BY <1>1
    <2> QED  BY <2>1, Zenon
  <1>2. ASSUME NEW q \in UNION {[1 .. k -> Requests] : k \in 0 .. n}
        PROVE  q \in Seq(Requests) /\ Len(q) <= n
    <2>1. PICK k \in 0 .. n : q \in [1 .. k -> Requests]
      BY <1>2
    <2>2. k \in Nat
      OBVIOUS
    <2>3. q \in Seq(Requests) /\ Len(q) = k
      BY <2>1, <2>2, FunctionIsSeq, Zenon
    <2> QED  BY <2>1, <2>3
  <1> QED  BY <1>1, <1>2, Zenon DEF Texts

\* The same for WholeRequests.
LEMMA WholeAre ==
  ASSUME NEW q \in Seq(Requests), Len(q) \in 1 .. MaxRequests
  PROVE  FlattenSeq(q) \in WholeRequests
  <1>1. q \in [1 .. Len(q) -> Requests]
    OBVIOUS
  <1>2. q \in UNION {[1 .. k -> Requests] : k \in 1 .. MaxRequests}
    BY <1>1, Zenon
  <1> QED  BY <1>2, Zenon DEF WholeRequests

\* A client that sends a request adds it to a text.
LEMMA TextsGrow ==
  ASSUME NEW n \in Nat, NEW t \in Texts(n), NEW r \in Requests
  PROVE  t \o r \in Texts(n + 1)
  <1>1. PICK q \in Seq(Requests) : Len(q) <= n /\ t = FlattenSeq(q)
    BY TextsAre
  <1>2. /\ Append(q, r) \in Seq(Requests) /\ Len(Append(q, r)) = Len(q) + 1
        /\ FlattenSeq(Append(q, r)) = t \o r
    BY <1>1, FlattenRequest
  <1>3. Len(Append(q, r)) <= n + 1 /\ n + 1 \in Nat
    BY <1>1, <1>2
  <1> QED  BY <1>2, <1>3, TextsAre

\* The bound of a text may grow.
LEMMA TextsMonotone ==
  ASSUME NEW n \in Nat, NEW t \in Texts(n)
  PROVE  t \in Texts(n + 1)
  <1>1. PICK q \in Seq(Requests) : Len(q) <= n /\ t = FlattenSeq(q)
    BY TextsAre
  <1>2. Len(q) <= n + 1 /\ n + 1 \in Nat
    BY <1>1
  <1> QED  BY <1>1, <1>2, TextsAre

\* Nothing to read is a text.
LEMMA NothingIsText ==
  ASSUME NEW n \in Nat
  PROVE  <<>> \in Texts(n)
  <1>1. <<>> \in Seq(Requests) /\ Len(<<>>) <= n
    OBVIOUS
  <1>2. \E q \in Seq(Requests) : Len(q) <= n /\ <<>> = FlattenSeq(q)
    BY <1>1, FlattenEmpty, Zenon
  <1> QED  BY <1>2, TextsAre

\* What a complete piece of a text is, and what it leaves.
LEMMA CompletePiece ==
  ASSUME NEW t \in Texts(requests), requests \in 0 .. MaxRequests,
         NEW n \in 1 .. Len(t), Complete(SubSeq(t, 1, n))
  PROVE  /\ SubSeq(t, 1, n) \in WholeRequests
         /\ SubSeq(t, n + 1, Len(t)) \in Texts(requests)
  <1>1. requests \in Nat /\ MaxRequests \in Nat /\ requests <= MaxRequests
    BY ConstantsOK
  <1>2. PICK q \in Seq(Requests) : Len(q) <= requests /\ t = FlattenSeq(q)
    BY <1>1, TextsAre
  <1>3. t \in Seq(Bytes)
    BY <1>2, RequestSeqs
  <1>4. EndsBlank(t, n)
    BY <1>3, PrefixComplete
  <1>5. Splits(t, n, Len(q))
    BY <1>2, <1>4, CompletePrefixSplits
  <1>6. PICK q1, q2 \in Seq(Requests) :
          /\ Len(q1) \in 1 .. Len(q) /\ Len(q2) \in 0 .. Len(q)
          /\ SubSeq(t, 1, n) = FlattenSeq(q1)
          /\ SubSeq(t, n + 1, Len(t)) = FlattenSeq(q2)
    BY <1>5, Zenon DEF Splits
  <1>7. Len(q1) \in 1 .. MaxRequests /\ Len(q2) <= requests
    BY <1>1, <1>2, <1>6
  <1>8. SubSeq(t, 1, n) \in WholeRequests
    BY <1>6, <1>7, WholeAre
  <1>9. SubSeq(t, n + 1, Len(t)) \in Texts(requests)
    BY <1>1, <1>6, <1>7, TextsAre
  <1> QED  BY <1>8, <1>9

\* The buffer begins with what was received, and ends as before unless that
\* filled it.
LEMMA BufferIs ==
  ASSUME TypeOK, NEW data \in Seq(Bytes), Len(data) \in 1 .. BufSize
  PROVE  /\ Received(data) \in Seq(Bytes) /\ Len(Received(data)) = BufSize
         /\ SubSeq(Received(data), 1, Len(data)) = data
         /\ Len(data) # BufSize => Received(data)[BufSize] = recv_buffer[BufSize]
  <1> DEFINE n == Len(data)
  <1>1. BufSize \in Nat /\ recv_buffer \in Seq(Bytes) /\ Len(recv_buffer) = BufSize
    <2>1. BufSize \in Nat /\ recv_buffer \in [1 .. BufSize -> Bytes]
      BY ConstantsOK DEF TypeOK
    <2> QED  BY <2>1, FunctionIsSeq, Zenon
  <1>2. /\ SubSeq(recv_buffer, n + 1, BufSize) \in Seq(Bytes)
        /\ Len(SubSeq(recv_buffer, n + 1, BufSize)) = BufSize - n
        /\ \A i \in 1 .. BufSize - n :
             SubSeq(recv_buffer, n + 1, BufSize)[i] = recv_buffer[n + i]
    BY <1>1
  <1>3. PICK c \in Seq(Bytes) : c = SubSeq(recv_buffer, n + 1, BufSize)
    BY <1>2, Zenon
  <1>4. Received(data) = data \o c
    BY <1>3 DEF Received
  <1>5. PICK b \in Seq(Bytes) : b = data \o c
    BY ConcatProperties, Zenon
  <1>6. /\ Len(b) = n + Len(c)
        /\ \A i \in 1 .. n + Len(c) : b[i] = IF i <= n THEN data[i] ELSE c[i - n]
    BY <1>5, ConcatProperties
  <1>7. Len(b) = BufSize
    BY <1>1, <1>2, <1>3, <1>6
  <1>8. SubSeq(b, 1, n) = data
    <2>1. n \in 0 .. Len(b)
      BY <1>7
    <2>2. /\ SubSeq(b, 1, n) \in Seq(Bytes) /\ Len(SubSeq(b, 1, n)) = n
          /\ \A i \in 1 .. n : SubSeq(b, 1, n)[i] = b[i]
      BY <2>1, PrefixIsSeq
    <2>3. PICK d \in Seq(Bytes) : d = SubSeq(b, 1, n)
      BY <2>2, Zenon
    <2>4. \A i \in 1 .. n : b[i] = data[i]
      BY <1>6
    <2>5. Len(d) = Len(data) /\ \A i \in 1 .. Len(d) : d[i] = data[i]
      BY <2>2, <2>3, <2>4
    <2> QED  BY <2>3, <2>5, SeqEqual
  <1>9. ASSUME n # BufSize PROVE b[BufSize] = recv_buffer[BufSize]
    <2>1. /\ BufSize \in 1 .. n + Len(c) /\ ~(BufSize <= n)
          /\ BufSize - n \in 1 .. BufSize - n /\ n + (BufSize - n) = BufSize
      BY <1>1, <1>2, <1>3, <1>9
    <2> QED  BY <1>2, <1>3, <1>6, <2>1
  <1> QED  BY <1>4, <1>5, <1>7, <1>8, <1>9

\* An entry is completed by the last byte of the buffer.
LEMMA CompletedByLastByte ==
  ASSUME NEW m \in Seq(Bytes), NEW b \in Seq(Bytes), Len(b) = BufSize, Complete(m \o b)
  PROVE  b[BufSize] = "LF"
  <1>1. PICK c \in Seq(Bytes) : c = m \o b
    BY ConcatProperties, Zenon
  <1>2. /\ Len(c) = Len(m) + Len(b)
        /\ \A i \in 1 .. Len(m) + Len(b) : c[i] = IF i <= Len(m) THEN m[i] ELSE b[i - Len(m)]
    BY <1>1, ConcatProperties
  <1>3. /\ BufSize > 0
        /\ Len(c) \in 1 .. Len(m) + Len(b) /\ ~(Len(c) <= Len(m)) /\ Len(c) - Len(m) = BufSize
    BY <1>2, ConstantsOK
  <1>4. c[Len(c)] = "LF"
    BY <1>1, CompleteIs DEF EndsBlank
  <1> QED  BY <1>2, <1>3, <1>4

-----------------------------------------------------------------------------
\* The steps.

\* The initial states.
LEMMA InitInv == Init => ComposerInv
  <1> SUFFICES ASSUME Init PROVE ComposerInv
    OBVIOUS
  <1>1. TypeOK
    <2>1. handed \in [request : Seq(Bytes), arrived : Seq(Bytes), merged : BOOLEAN]
      BY DEF Init
    <2>2. "NUL" \in Bytes
      BY DEF Bytes
    <2>3. MaxConnections \in Nat /\ MaxRequests \in Nat
      BY ConstantsOK
    <2>4. recv_buffer \in [1 .. BufSize -> Bytes]
      BY <2>2 DEF Init
    <2>5. /\ messages_ \in [Sockets -> Seq(Bytes)] /\ unread \in [Sockets -> Seq(Bytes)]
          /\ arrived \in [Sockets -> Seq(Bytes)]
      BY DEF Init
    <2>6. connections \in 0 .. MaxConnections /\ requests \in 0 .. MaxRequests
      BY <2>3 DEF Init
    <2>7. filled \in BOOLEAN /\ open \subseteq Sockets /\ merged \subseteq Sockets
      BY DEF Init
    <2> QED  BY <2>1, <2>4, <2>5, <2>6, <2>7, Zenon DEF TypeOK
  <1>2. recv_buffer[BufSize] = "NUL"
    BY ConstantsOK DEF Init
  <1>3. \A f \in Sockets : unread[f] = <<>> /\ arrived[f] = <<>>
    BY DEF Init
  <1>4. <<>> \in Texts(requests)
    BY NothingIsText DEF Init
  <1>5. WholePiecesArriveIntact /\ GarbledNeedsFullBuffer
    BY DEF Init, WholePiecesArriveIntact, GarbledNeedsFullBuffer
  <1> QED  BY <1>1, <1>2, <1>3, <1>4, <1>5 DEF ComposerInv

\* A step of the clients leaves what is handed over alone.
LEMMA HandedStays ==
  ASSUME WholePiecesArriveIntact, GarbledNeedsFullBuffer, UNCHANGED <<handed, filled>>
  PROVE  WholePiecesArriveIntact' /\ GarbledNeedsFullBuffer'
  BY DEF WholePiecesArriveIntact, GarbledNeedsFullBuffer, WholeRequests

\* A new connection starts with nothing to read.
LEMMA ConnectInv ==
  ASSUME ComposerInv, NEW f \in Sockets, Connect(f)
  PROVE  ComposerInv'
  <1>1. TypeOK'
    <2>1. connections' \in 0 .. MaxConnections
      <3>1. MaxConnections \in Nat
        BY ConstantsOK
      <3> QED  BY <3>1 DEF ComposerInv, TypeOK, Connect
    <2>2. arrived' \in [Sockets -> Seq(Bytes)]
      BY DEF ComposerInv, TypeOK, Connect
    <2> QED  BY <2>1, <2>2 DEF ComposerInv, TypeOK, Connect
  <1>2. WholePiecesArriveIntact' /\ GarbledNeedsFullBuffer'
    BY HandedStays DEF ComposerInv, Connect
  <1>3. <<>> \in Texts(requests)
    BY NothingIsText DEF ComposerInv, TypeOK
  <1>4. unread[f] = <<>>
    BY DEF ComposerInv, Connect
  <1>5. ASSUME NEW g \in Sockets
        PROVE  /\ g \notin open' => unread'[g] = <<>>
               /\ messages_'[g] = <<>> /\ (g \notin merged' \/ ~filled') =>
                    unread'[g] \in Texts(requests')
               /\ messages_'[g] = <<>> /\ g \notin merged' => arrived'[g] = <<>>
    <2>1. arrived \in [Sockets -> Seq(Bytes)]
      BY DEF ComposerInv, TypeOK
    <2>2. CASE g = f
      BY <1>3, <1>4, <2>1, <2>2 DEF Connect
    <2>3. CASE g # f
      BY <2>1, <2>3 DEF ComposerInv, Connect
    <2> QED  BY <2>2, <2>3
  <1>6. ~filled' => recv_buffer'[BufSize] = "NUL"
    BY DEF ComposerInv, Connect
  <1> QED  BY <1>1, <1>2, <1>5, <1>6 DEF ComposerInv

\* A request is added to what is to be read.
LEMMA ClientSendsInv ==
  ASSUME ComposerInv, NEW f \in Sockets, NEW r \in Requests, ClientSends(f, r)
  PROVE  ComposerInv'
  <1>1. unread \in [Sockets -> Seq(Bytes)] /\ requests \in Nat /\ r \in Seq(Bytes)
    BY RequestsAre DEF ComposerInv, TypeOK
  <1>2. /\ unread'[f] = unread[f] \o r /\ requests' = requests + 1
        /\ \A g \in Sockets : g # f => unread'[g] = unread[g]
    BY <1>1 DEF ClientSends
  <1>3. TypeOK'
    <2>1. unread' \in [Sockets -> Seq(Bytes)]
      <3>1. unread[f] \o r \in Seq(Bytes)
        BY <1>1, ConcatProperties
      <3> QED  BY <1>1, <3>1 DEF ClientSends
    <2>2. requests' \in 0 .. MaxRequests
      BY <1>1, ConstantsOK DEF ComposerInv, TypeOK, ClientSends
    <2> QED  BY <2>1, <2>2 DEF ComposerInv, TypeOK, ClientSends
  <1>4. WholePiecesArriveIntact' /\ GarbledNeedsFullBuffer'
    BY HandedStays DEF ComposerInv, ClientSends
  <1>5. ASSUME NEW g \in Sockets
        PROVE  /\ g \notin open' => unread'[g] = <<>>
               /\ messages_'[g] = <<>> /\ (g \notin merged' \/ ~filled') =>
                    unread'[g] \in Texts(requests')
               /\ messages_'[g] = <<>> /\ g \notin merged' => arrived'[g] = <<>>
    <2>1. g \notin open' => unread'[g] = <<>>
      BY <1>2 DEF ComposerInv, ClientSends
    <2>2. unread[g] \in Texts(requests) => unread'[g] \in Texts(requests')
      BY <1>1, <1>2, TextsGrow, TextsMonotone
    <2> QED  BY <2>1, <2>2 DEF ComposerInv, ClientSends
  <1>6. ~filled' => recv_buffer'[BufSize] = "NUL"
    BY DEF ComposerInv, ClientSends
  <1> QED  BY <1>3, <1>4, <1>5, <1>6 DEF ComposerInv

\* Nothing is left to read, and messages_ keeps its entry.
LEMMA DisconnectInv ==
  ASSUME ComposerInv, NEW f \in Sockets, Disconnect(f)
  PROVE  ComposerInv'
  <1>1. unread \in [Sockets -> Seq(Bytes)] /\ requests \in Nat
    BY DEF ComposerInv, TypeOK
  <1>2. unread' \in [Sockets -> Seq(Bytes)] /\ unread'[f] = <<>>
        /\ \A g \in Sockets : g # f => unread'[g] = unread[g]
    BY <1>1 DEF Disconnect
  <1>3. TypeOK'
    BY <1>2 DEF ComposerInv, TypeOK, Disconnect
  <1>4. WholePiecesArriveIntact' /\ GarbledNeedsFullBuffer'
    BY HandedStays DEF ComposerInv, Disconnect
  <1>5. <<>> \in Texts(requests)
    BY <1>1, NothingIsText
  <1>6. ASSUME NEW g \in Sockets
        PROVE  /\ g \notin open' => unread'[g] = <<>>
               /\ messages_'[g] = <<>> /\ (g \notin merged' \/ ~filled') =>
                    unread'[g] \in Texts(requests')
               /\ messages_'[g] = <<>> /\ g \notin merged' => arrived'[g] = <<>>
    BY <1>2, <1>5 DEF ComposerInv, Disconnect
  <1>7. ~filled' => recv_buffer'[BufSize] = "NUL"
    BY DEF ComposerInv, Disconnect
  <1> QED  BY <1>3, <1>4, <1>6, <1>7 DEF ComposerInv

\* A piece, complete or not, with an entry or without.
LEMMA ReceiveInv ==
  ASSUME ComposerInv, NEW f \in Sockets, NEW n \in 1 .. BufSize, Receive(f, n)
  PROVE  ComposerInv'
  <1>1. /\ TypeOK /\ BufSize \in Nat \ {0}
        /\ unread \in [Sockets -> Seq(Bytes)] /\ messages_ \in [Sockets -> Seq(Bytes)]
        /\ arrived \in [Sockets -> Seq(Bytes)] /\ requests \in 0 .. MaxRequests
    BY ConstantsOK DEF ComposerInv, TypeOK
  <1>2. PICK u \in Seq(Bytes) : u = unread[f]
    BY <1>1
  <1>3. n \in 1 .. Len(u) /\ f \in open
    BY <1>2 DEF Receive
  <1>4. SubSeq(u, 1, n) \in Seq(Bytes) /\ Len(SubSeq(u, 1, n)) = n
    BY <1>3, PrefixIsSeq
  <1>5. PICK data \in Seq(Bytes) : data = SubSeq(u, 1, n)
    BY <1>4, Zenon
  <1>6. Len(data) = n
    BY <1>4, <1>5
  <1>7. recv_buffer' = Received(data)
    BY <1>2, <1>5 DEF Receive
  <1>8. PICK b \in Seq(Bytes) : b = recv_buffer'
    BY <1>1, <1>6, <1>7, BufferIs
  <1>9. /\ Len(b) = BufSize /\ SubSeq(b, 1, n) = data
        /\ n # BufSize => b[BufSize] = recv_buffer[BufSize]
    BY <1>1, <1>6, <1>7, <1>8, BufferIs
  <1>10. filled' <=> filled \/ n = BufSize
    BY DEF Receive
  <1>11. ~filled' => ~filled /\ b[BufSize] = "NUL"
    BY <1>9, <1>10 DEF ComposerInv
  <1>12. PICK stored \in Seq(Bytes) : stored = messages_[f]
    BY <1>1
  <1>13. PICK message \in Seq(Bytes) :
           message = IF stored = <<>> THEN StoredFirst(b, n) ELSE StoredMerge(stored, b, n)
    <2>1. StoredFirst(b, n) \in Seq(Bytes)
      BY <1>9 DEF StoredFirst
    <2>2. StoredMerge(stored, b, n) \in Seq(Bytes)
      BY ConcatProperties DEF StoredMerge
    <2> QED  BY <2>1, <2>2, Zenon
  <1>14. stored = <<>> => message = data
    BY <1>9, <1>13 DEF StoredFirst
  <1>15. stored # <<>> => message = stored \o b
    BY <1>13 DEF StoredMerge
  <1>16. message # <<>>
    <2>1. CASE stored = <<>>
      BY <1>6, <1>14, <2>1
    <2>2. CASE stored # <<>>
      BY <1>15, <2>2, ConcatEqualIffEmpty
    <2> QED  BY <2>1, <2>2
  <1>17. Complete(message) /\ ~filled' => stored = <<>>
    <2> SUFFICES ASSUME Complete(message), stored # <<>>, ~filled' PROVE FALSE
      OBVIOUS
    <2>1. b[BufSize] = "LF"
      BY <1>9, <1>15, CompletedByLastByte
    <2> QED  BY <1>11, <2>1
  <1>18. PICK rest \in Seq(Bytes) : rest = SubSeq(u, n + 1, Len(u))
    <2>1. SubSeq(u, n + 1, Len(u)) \in Seq(Bytes)
      BY <1>3
    <2> QED  BY <2>1, Zenon
  <1>19. /\ unread' = [unread EXCEPT ![f] = rest]
         /\ unread'[f] = rest /\ \A g \in Sockets : g # f => unread'[g] = unread[g]
    BY <1>1, <1>2, <1>18 DEF Receive
  \* A complete message, at a place where a request begins.
  <1>20. ASSUME Complete(message), stored = <<>>, f \notin merged \/ ~filled'
         PROVE  message \in WholeRequests /\ rest \in Texts(requests)
    <2>1. u \in Texts(requests)
      BY <1>2, <1>11, <1>12, <1>20 DEF ComposerInv
    <2>2. message = SubSeq(u, 1, n)
      BY <1>5, <1>14, <1>20
    <2> QED  BY <1>1, <1>3, <1>18, <1>20, <2>1, <2>2, CompletePiece
  <1>21. PICK sofar \in Seq(Bytes) : sofar = arrived[f] \o data
    <2>1. arrived[f] \in Seq(Bytes)
      BY <1>1
    <2> QED  BY <2>1, ConcatProperties, Zenon
  <1>22. /\ merged' = IF f \in merged \/ stored # <<>> THEN merged \cup {f} ELSE merged
         /\ \/ /\ Complete(message)
               /\ handed' = [request |-> message, arrived |-> sofar,
                             merged |-> (f \in merged \/ stored # <<>>)]
               /\ messages_' = [messages_ EXCEPT ![f] = <<>>]
               /\ arrived' = [arrived EXCEPT ![f] = <<>>]
            \/ /\ ~Complete(message)
               /\ messages_' = [messages_ EXCEPT ![f] = message]
               /\ arrived' = [arrived EXCEPT ![f] = sofar]
               /\ UNCHANGED handed
    BY <1>8, <1>9, <1>12, <1>13, <1>21 DEF Receive, onClientDataArrived
  <1>23. TypeOK'
    <2>1. recv_buffer' \in [1 .. BufSize -> Bytes]
      BY <1>8, <1>9
    <2>2. messages_' \in [Sockets -> Seq(Bytes)]
      <3>1. messages_' = [messages_ EXCEPT ![f] = <<>>] \/ messages_' = [messages_ EXCEPT ![f] = message]
        BY <1>22, Zenon
      <3>2. [messages_ EXCEPT ![f] = <<>>] \in [Sockets -> Seq(Bytes)]
        BY <1>1
      <3>3. [messages_ EXCEPT ![f] = message] \in [Sockets -> Seq(Bytes)]
        BY <1>1
      <3> QED  BY <3>1, <3>2, <3>3, Zenon
    <2>3. arrived' \in [Sockets -> Seq(Bytes)]
      <3>1. arrived' = [arrived EXCEPT ![f] = <<>>] \/ arrived' = [arrived EXCEPT ![f] = sofar]
        BY <1>22, Zenon
      <3>2. [arrived EXCEPT ![f] = <<>>] \in [Sockets -> Seq(Bytes)]
        BY <1>1
      <3>3. [arrived EXCEPT ![f] = sofar] \in [Sockets -> Seq(Bytes)]
        BY <1>1
      <3> QED  BY <3>1, <3>2, <3>3, Zenon
    <2>4. unread' \in [Sockets -> Seq(Bytes)]
      BY <1>1, <1>19
    <2>5. merged' \subseteq Sockets
      BY <1>1, <1>22 DEF TypeOK
    <2>6. filled' \in BOOLEAN
      BY Zenon DEF Receive
    <2>7. handed' \in [request : Seq(Bytes), arrived : Seq(Bytes), merged : BOOLEAN]
      <3>1. (f \in merged \/ stored # <<>>) \in BOOLEAN
        BY Zenon
      <3>2. [request |-> message, arrived |-> sofar, merged |-> (f \in merged \/ stored # <<>>)]
              \in [request : Seq(Bytes), arrived : Seq(Bytes), merged : BOOLEAN]
        BY <3>1
      <3>3. handed \in [request : Seq(Bytes), arrived : Seq(Bytes), merged : BOOLEAN]
        BY <1>1 DEF TypeOK
      <3> QED  BY <1>22, <3>2, <3>3, Zenon
    <2>8. UNCHANGED <<open, connections, requests>>
      BY DEF Receive
    <2> QED  BY <1>1, <2>1, <2>2, <2>3, <2>4, <2>5, <2>6, <2>7, <2>8 DEF TypeOK
  <1>24. ~filled' => recv_buffer'[BufSize] = "NUL"
    BY <1>8, <1>11
  <1>25. requests' = requests /\ open' = open
    BY DEF Receive
  <1>26. ASSUME NEW g \in Sockets
         PROVE  /\ g \notin open' => unread'[g] = <<>>
                /\ messages_'[g] = <<>> /\ (g \notin merged' \/ ~filled') =>
                     unread'[g] \in Texts(requests')
                /\ messages_'[g] = <<>> /\ g \notin merged' => arrived'[g] = <<>>
    <2>1. CASE g # f
      <3>1. messages_'[g] = messages_[g] /\ arrived'[g] = arrived[g]
        BY <1>1, <1>22, <2>1
      <3>2. g \in merged' <=> g \in merged
        BY <1>22, <2>1
      <3> QED  BY <1>11, <1>19, <1>25, <2>1, <3>1, <3>2 DEF ComposerInv
    <2>2. CASE g = f
      <3>1. CASE Complete(message)
        <4>1. arrived'[f] = <<>>
          BY <1>1, <1>22, <3>1
        <4>2. f \notin merged' => f \notin merged /\ stored = <<>>
          BY <1>22
        <4>3. f \notin merged' \/ ~filled' => rest \in Texts(requests)
          BY <1>17, <1>20, <3>1, <4>2
        <4> QED  BY <1>3, <1>19, <1>25, <2>2, <4>1, <4>3
      <3>2. CASE ~Complete(message)
        <4>1. messages_'[f] = message
          BY <1>1, <1>22, <3>2
        <4> QED  BY <1>3, <1>16, <1>25, <2>2, <4>1
      <3> QED  BY <3>1, <3>2
    <2> QED  BY <2>1, <2>2
  <1>27. WholePiecesArriveIntact'
    <2>1. CASE Complete(message)
      <3>1. /\ handed'.request = message /\ handed'.arrived = sofar
            /\ handed'.merged = (f \in merged \/ stored # <<>>)
        BY <1>22, <2>1
      <3>2. ASSUME f \notin merged, stored = <<>>
            PROVE  message = sofar /\ message \in WholeRequests
        <4>1. arrived[f] = <<>>
          BY <1>12, <3>2 DEF ComposerInv
        <4>2. sofar = data
          BY <1>21, <4>1, ConcatEmptySeq
        <4> QED  BY <1>14, <1>20, <2>1, <3>2, <4>2
      <3> QED  BY <3>1, <3>2 DEF WholePiecesArriveIntact, WholeRequests
    <2>2. CASE ~Complete(message)
      BY <1>22, <2>2 DEF ComposerInv, WholePiecesArriveIntact, WholeRequests
    <2> QED  BY <2>1, <2>2
  <1>28. GarbledNeedsFullBuffer'
    <2>1. CASE Complete(message)
      <3>1. handed'.request = message
        BY <1>22, <2>1
      <3>2. ~filled' => message \in WholeRequests
        BY <1>17, <1>20, <2>1
      <3> QED  BY <3>1, <3>2 DEF GarbledNeedsFullBuffer, WholeRequests
    <2>2. CASE ~Complete(message)
      BY <1>11, <1>22, <2>2 DEF ComposerInv, GarbledNeedsFullBuffer, WholeRequests
    <2> QED  BY <2>1, <2>2
  <1> QED  BY <1>23, <1>24, <1>26, <1>27, <1>28 DEF ComposerInv

\* ComposerInv is an invariant of the composer.
LEMMA ComposerInductive == Spec => []ComposerInv
  <1>1. ComposerInv /\ [Next]_vars => ComposerInv'
    <2> SUFFICES ASSUME ComposerInv, [Next]_vars PROVE ComposerInv'
      OBVIOUS
    <2>1. CASE UNCHANGED vars
      BY <2>1 DEF vars, clientVars, ComposerInv, TypeOK, WholePiecesArriveIntact,
                  GarbledNeedsFullBuffer, WholeRequests
    <2>2. CASE Next
      BY <2>2, ConnectInv, ClientSendsInv, ReceiveInv, DisconnectInv DEF Next
    <2> QED  BY <2>1, <2>2
  <1> QED  BY <1>1, InitInv, PTL DEF Spec

-----------------------------------------------------------------------------
\* The theorems.

\* The composer's variables keep to their types, the shared buffer to its size.
THEOREM TypeCorrect == Spec => []TypeOK
  <1>1. ComposerInv => TypeOK
    BY DEF ComposerInv
  <1> QED  BY <1>1, ComposerInductive, PTL

\* For any sizes of the pieces, what onClientDataArrived hands over for a
\* connection that it has never found an entry for is what that connection has
\* sent since the last time: one or more whole requests.
THEOREM PiecesStayWhole == Spec => []WholePiecesArriveIntact
  <1>1. ComposerInv => WholePiecesArriveIntact
    BY DEF ComposerInv
  <1> QED  BY <1>1, ComposerInductive, PTL

\* As long as no recv() has filled the buffer, everything handed over is one or
\* more whole requests, whatever is left in the entries of closed connections
\* and of requests that came in pieces.
THEOREM GarbledOnlyByFullBuffer == Spec => []GarbledNeedsFullBuffer
  <1>1. ComposerInv => GarbledNeedsFullBuffer
    BY DEF ComposerInv
  <1> QED  BY <1>1, ComposerInductive, PTL
=============================================================================
