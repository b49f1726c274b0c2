------------------------- MODULE HeaderParserProofs -------------------------
(***************************************************************************)
(* Proofs about HeaderParser, for any characters and lengths.              *)
(***************************************************************************)
EXTENDS HeaderParser, SequenceFacts

\* The greatest number of a bounded set is what Max returns.
LEMMA MaxIs ==
  ASSUME NEW n \in Nat, NEW T \in SUBSET (1 .. n), T # {}
  PROVE  Max(T) \in T /\ \A t \in T : t <= Max(T)
  <1> DEFINE D == {k \in Nat : \A t \in T : t <= k}
  <1>1. n \in D
    OBVIOUS
  <1>2. PICK d \in D : \A k \in D : d <= k
    <2>1. D \in SUBSET Nat /\ D # {}
      BY <1>1
    <2> HIDE DEF D
    <2> QED  BY <2>1, LeastNatural
  <1>3. d \in T
    <2> SUFFICES ASSUME d \notin T PROVE FALSE
      OBVIOUS
    <2>1. \A t \in T : t \in Nat /\ t # 0 /\ t <= d /\ t # d
      OBVIOUS
    <2>2. d \in Nat /\ d # 0
      <3>1. PICK t \in T : TRUE
        OBVIOUS
      <3>2. d \in Nat /\ t \in Nat /\ t # 0 /\ t <= d
        BY <2>1
      <3> QED  BY <3>2
    <2>3. d - 1 \in Nat /\ \A t \in T : t <= d - 1
      BY <2>1, <2>2
    <2>4. d - 1 \in D /\ ~(d <= d - 1)
      BY <2>2, <2>3
    <2> QED  BY <1>2, <2>4
  <1>4. \E x \in T : \A y \in T : x >= y
    BY <1>3
  <1>5. Max(T) \in T /\ \A y \in T : Max(T) >= y
    BY <1>4, Zenon DEF Max
  <1> QED  BY <1>5

\* All characters there are.
Chars == Characters \cup {"G", "E", "T", " ", "v", "CR", "LF", "%", "2", "0", "a"}

\* The characters that stand in the model itself.
LEMMA Literals ==
  /\ "CR" \in Chars /\ "LF" \in Chars /\ Space \in Chars /\ "v" \in Chars
  /\ "G" \in Chars /\ "E" \in Chars /\ "T" \in Chars /\ "a" \in Chars
  /\ "%" \in Chars /\ "2" \in Chars /\ "0" \in Chars /\ Characters \subseteq Chars
  BY DEF Chars, Space

\* url_encoded puts every character, or its escape, one after the other.
LEMMA EncodedType ==
  ASSUME NEW B, "%" \in B, "2" \in B, "0" \in B, NEW n \in Nat, NEW name \in [1 .. n -> B]
  PROVE  url_encoded(name) \in Seq(B)
  <1> DEFINE q == [k \in DOMAIN name |-> IF name[k] = Space THEN Escape ELSE <<name[k]>>]
  <1>1. Escape \in Seq(B)
    BY DEF Escape
  <1>2. \A k \in 1 .. n : <<name[k]>> \in Seq(B)
    OBVIOUS
  <1>3. q \in [1 .. n -> Seq(B)]
    BY <1>1, <1>2
  <1>4. q \in Seq(Seq(B))
    BY <1>3, FunctionIsSeq, Zenon
  <1>5. FlattenSeq(q) \in Seq(B)
    BY <1>4, FlattenType
  <1> QED  BY <1>5 DEF url_encoded

-----------------------------------------------------------------------------
\* The first line of a request.

\* A request has an end of line.
HasLine ==
    /\ request_header \in Seq(Chars)
    /\ \E k \in 1 .. Len(request_header) : request_header[k] \in EndOfLine

\* A text followed by a blank line has one.
LEMMA EndsInLine ==
  ASSUME NEW s \in Seq(Chars)
  PROVE  /\ s \o BlankLine \in Seq(Chars)
         /\ \E k \in 1 .. Len(s \o BlankLine) : (s \o BlankLine)[k] \in EndOfLine
  <1>1. BlankLine \in Seq(Chars) /\ Len(BlankLine) = 4 /\ BlankLine[1] = "CR"
    BY Literals DEF BlankLine
  <1>2. PICK b \in Seq(Chars) : b = BlankLine
    BY <1>1, Zenon
  <1>3. Len(b) = 4 /\ b[1] = "CR"
    BY <1>1, <1>2
  <1>4. /\ s \o b \in Seq(Chars) /\ Len(s \o b) = Len(s) + 4
        /\ \A i \in 1 .. Len(s) + 4 : (s \o b)[i] = IF i <= Len(s) THEN s[i] ELSE b[i - Len(s)]
    <2>1. /\ s \o b \in Seq(Chars) /\ Len(s \o b) = Len(s) + Len(b)
          /\ \A i \in 1 .. Len(s) + Len(b) :
               (s \o b)[i] = IF i <= Len(s) THEN s[i] ELSE b[i - Len(s)]
      BY ConcatProperties, Zenon
    <2> QED  BY <1>3, <2>1, Zenon
  <1>5. Len(s) + 1 \in 1 .. Len(s) + 4 /\ ~(Len(s) + 1 <= Len(s)) /\ (Len(s) + 1) - Len(s) = 1
    OBVIOUS
  <1>6. (s \o b)[Len(s) + 1] = "CR"
    BY <1>3, <1>4, <1>5
  <1> QED  BY <1>2, <1>4, <1>5, <1>6 DEF EndOfLine

\* Both kinds of request do.
LEMMA InitHasLine == Init => HasLine
  <1>1. ASSUME NEW S, NEW m \in Nat, NEW t \in Text(S, m)
        PROVE  \E n \in Nat : t \in [1 .. n -> S]
    BY DEF Text
  <1>2. ASSUME NEW t \in Text(Characters, MaxName), request_header = Get(url_encoded(t))
        PROVE  HasLine
    <2>1. PICK n \in Nat : t \in [1 .. n -> Characters]
      BY <1>1, ConstantsOK
    <2>2. PICK e \in Seq(Chars) : e = url_encoded(t)
      <3>1. t \in [1 .. n -> Chars]
        BY <2>1, Literals
      <3>2. url_encoded(t) \in Seq(Chars)
        BY <3>1, Literals, EncodedType, Zenon
      <3> QED  BY <3>2, Zenon
    <2>3. <<"G", "E", "T", Space>> \in Seq(Chars) /\ <<Space, "v">> \in Seq(Chars)
      BY Literals
    <2>4. PICK s \in Seq(Chars) : s = <<"G", "E", "T", Space>> \o e \o <<Space, "v">>
      BY <2>3, ConcatProperties, Zenon
    <2>5. request_header = s \o BlankLine
      BY <1>2, <2>2, <2>4 DEF Get
    <2> QED  BY <2>5, EndsInLine DEF HasLine
  <1>3. ASSUME NEW line \in Text({"a", Space}, MaxLine), request_header = line \o BlankLine
        PROVE  HasLine
    <2>1. PICK n \in Nat : line \in [1 .. n -> {"a", Space}]
      BY <1>1, ConstantsOK
    <2>2. line \in [1 .. n -> Chars]
      BY <2>1 DEF Chars, Space
    <2>3. line \in Seq(Chars)
      BY <2>2, FunctionIsSeq, Zenon
    <2> QED  BY <1>3, <2>3, EndsInLine DEF HasLine
  <1> QED  BY <1>2, <1>3 DEF Init

\* rv is the offset of the first end of line.
LEMMA LineIs ==
  ASSUME HasLine
  PROVE  /\ rv \in 0 .. Len(request_header) - 1
         /\ request_header[rv + 1] \in EndOfLine
         /\ \A k \in 1 .. rv : request_header[k] \notin EndOfLine
  <1> DEFINE T == {n \in Nat : n + 1 <= Len(request_header) /\ request_header[n + 1] \in EndOfLine}
  <1>1. T \in SUBSET Nat /\ T # {}
    <2>1. PICK k \in 1 .. Len(request_header) : request_header[k] \in EndOfLine
      BY DEF HasLine
    <2>2. k - 1 \in Nat /\ (k - 1) + 1 = k /\ k <= Len(request_header)
      BY DEF HasLine
    <2>3. k - 1 \in T
      BY <2>1, <2>2
    <2> QED  BY <2>3
  <1>2. PICK n \in T : \A m \in T : n <= m
    <2> HIDE DEF T
    <2> QED  BY <1>1, LeastNatural
  <1>3. n \in 0 .. Len(request_header) - 1 /\ request_header[n + 1] \in EndOfLine
    BY DEF HasLine
  <1>4. ASSUME NEW k \in 1 .. n PROVE request_header[k] \notin EndOfLine
    <2>1. k - 1 \in Nat /\ (k - 1) + 1 = k /\ k <= Len(request_header) /\ ~(n <= k - 1)
      BY <1>3 DEF HasLine
    <2> QED  BY <1>2, <2>1
  <1> HIDE DEF T
  <1> QED  BY <1>3, <1>4, Zenon DEF rv

\* The last space of a text that has one, as find_last_of returns it.
LEMMA LastSpaceIs ==
  ASSUME get_line \in Seq(Chars), NEW k \in 1 .. Len(get_line), get_line[k] = Space
  PROVE  /\ last_space \in 0 .. Len(get_line) - 1
         /\ get_line[last_space + 1] = Space /\ last_space >= k - 1
  <1> DEFINE T == {i \in 1 .. Len(get_line) : get_line[i] = Space}
  <1>1. Space \in ToSet(get_line)
    BY DEF ToSet
  <1>2. k \in T /\ T # {} /\ T \in SUBSET (1 .. Len(get_line)) /\ Len(get_line) \in Nat
    OBVIOUS
  <1>3. last_space = Max(T) - 1
    BY <1>1, <1>2 DEF last_space, SelectLastInSeq
  <1>4. Max(T) \in T /\ \A t \in T : t <= Max(T)
    <2> HIDE DEF T
    <2> QED  BY <1>2, MaxIs
  <1>5. PICK x \in 1 .. Len(get_line) : x = Max(T) /\ get_line[x] = Space /\ k <= x
    BY <1>2, <1>4
  <1> QED  BY <1>3, <1>5

\* The offsets are in range for a request line with a method, a path and a
\* version.
LEMMA InRangeIfLine ==
  ASSUME HasLine, NEW first \in Spaces, NEW last \in Spaces,
         first > 3, last > first + 1, last < rv
  PROVE  Defined
  <1>1. request_header \in Seq(Chars) /\ rv \in 0 .. Len(request_header) - 1
    BY LineIs DEF HasLine
  <1>2. PICK h \in Seq(Chars) : h = request_header
    BY <1>1
  <1>3. PICK r \in 0 .. Len(h) - 1 : r = rv
    BY <1>1, <1>2
  <1>4. last \in 6 .. r - 1 /\ h[last] = Space
    BY <1>2, <1>3 DEF Spaces
  <1>5. LineEnd = r - 1 /\ r - 1 <= Len(h) /\ 4 <= r - 1
    BY <1>3, <1>4 DEF LineEnd
  <1>6. InRange(request_header, 4, LineEnd)
    BY <1>2, <1>5 DEF InRange
  <1>7. get_line = SubSeq(h, 5, r - 1)
    BY <1>2, <1>5 DEF get_line, Slice
  <1>8. /\ SubSeq(h, 5, r - 1) \in Seq(Chars) /\ Len(SubSeq(h, 5, r - 1)) = r - 5
        /\ \A i \in 1 .. r - 5 : SubSeq(h, 5, r - 1)[i] = h[i + 4]
    BY <1>3, <1>4
  <1>9. last - 4 \in 1 .. r - 5 /\ (last - 4) + 4 = last
    BY <1>4
  <1>10. get_line[last - 4] = Space
    BY <1>4, <1>7, <1>8, <1>9
  <1>11. last_space \in 0 .. Len(get_line) - 1
    BY <1>7, <1>8, <1>9, <1>10, LastSpaceIs
  <1>12. InRange(get_line, 0, last_space)
    BY <1>7, <1>8, <1>11 DEF InRange
  <1> QED  BY <1>6, <1>12 DEF Defined

\* For every request line with a method of three or more characters, a path and
\* a version the iterators of parse() stay in range, whatever the line's length
\* and wherever else it has spaces.
THEOREM LinesParse == Spec => []RequestLineParses
  <1> DEFINE I == HasLine /\ RequestLineParses
  <1>1. Init => I
    <2>1. Init => RequestLineParses
      BY DEF Init, RequestLineParses
    <2> QED  BY <2>1, InitHasLine
  <1>2. I /\ [Next]_vars => I'
    <2> SUFFICES ASSUME HasLine, RequestLineParses, [Next]_vars
                 PROVE  HasLine' /\ RequestLineParses'
      OBVIOUS
    <2>1. request_header' = request_header
      BY DEF Next, parse, parseOutOfRange, vars
    <2>2. HasLine'
      BY <2>1 DEF HasLine, Chars, EndOfLine
    <2>3. Spaces' = Spaces /\ rv' = rv
      BY <2>1 DEF Spaces, rv, EndOfLine
    <2>4. ASSUME NEW first \in Spaces, NEW last \in Spaces,
                 first > 3, last > first + 1, last < rv
          PROVE  defined'
      <3>1. defined
        BY <2>4 DEF RequestLineParses
      <3>2. ~parseOutOfRange
        BY <2>4, InRangeIfLine DEF parseOutOfRange
      <3> QED  BY <3>1, <3>2 DEF Next, parse, vars
    <2> QED  BY <2>2, <2>3, <2>4 DEF RequestLineParses
  <1>3. I => RequestLineParses
    OBVIOUS
  <1> QED  BY <1>1, <1>2, <1>3, PTL DEF Spec

-----------------------------------------------------------------------------
\* Encoding a name and decoding it again.

\* What url_encoded makes of one character.
Encoding(c) == IF c = Space THEN Escape ELSE <<c>>

\* What Decoded makes of the character at k.
Decoding(s, k) ==
    IF EscapeAt(s, k) THEN <<Space>>
    ELSE IF \E j \in {k - 1, k - 2} : j >= 1 /\ EscapeAt(s, j) THEN <<>>
    ELSE <<s[k]>>

\* The escape, character by character.
LEMMA EscapeIs ==
  ASSUME NEW S, NEW s \in Seq(S), NEW k \in Nat \ {0}
  PROVE  EscapeAt(s, k) <=> /\ k + 2 <= Len(s)
                            /\ s[k] = "%" /\ s[k + 1] = "2" /\ s[k + 2] = "0"
  <1> SUFFICES ASSUME k + 2 <= Len(s)
               PROVE  SubSeq(s, k, k + 2) = Escape <=>
                        s[k] = "%" /\ s[k + 1] = "2" /\ s[k + 2] = "0"
    BY DEF EscapeAt
  <1>1. /\ SubSeq(s, k, k + 2) \in Seq(S) /\ Len(SubSeq(s, k, k + 2)) = 3
        /\ \A i \in 1 .. 3 : SubSeq(s, k, k + 2)[i] = s[k + i - 1]
    OBVIOUS
  <1>2. PICK u \in Seq(S) : u = SubSeq(s, k, k + 2)
    BY <1>1, Zenon
  <1>3. Len(u) = 3 /\ u[1] = s[k] /\ u[2] = s[k + 1] /\ u[3] = s[k + 2]
    <2>1. k + 1 - 1 = k /\ k + 2 - 1 = k + 1 /\ k + 3 - 1 = k + 2
      OBVIOUS
    <2> QED  BY <1>1, <1>2, <2>1
  <1>4. u = Escape <=> u[1] = "%" /\ u[2] = "2" /\ u[3] = "0"
    BY <1>3 DEF Escape
  <1> QED  BY <1>2, <1>3, <1>4

\* One more character of a name.
LEMMA EncodedAppend ==
  ASSUME NEW name \in Seq(Chars), NEW c \in Chars
  PROVE  /\ url_encoded(name) \in Seq(Chars) /\ Encoding(c) \in Seq(Chars)
         /\ url_encoded(Append(name, c)) = url_encoded(name) \o Encoding(c)
  <1> DEFINE q(s) == [k \in DOMAIN s |-> Encoding(s[k])]
             n == Len(name)
  <1>1. \A x \in Chars : Encoding(x) \in Seq(Chars)
    <2>1. Escape \in Seq(Chars)
      BY Literals DEF Escape
    <2>2. \A x \in Chars : <<x>> \in Seq(Chars)
      OBVIOUS
    <2> QED  BY <2>1, <2>2 DEF Encoding
  <1>2. ASSUME NEW s \in Seq(Chars)
        PROVE  q(s) \in Seq(Seq(Chars)) /\ Len(q(s)) = Len(s)
    <2>1. Len(s) \in Nat /\ q(s) \in [1 .. Len(s) -> Seq(Chars)]
      BY <1>1
    <2> HIDE DEF q
    <2> QED  BY <2>1, FunctionIsSeq, Zenon
  <1>3. PICK t \in Seq(Chars) : t = Append(name, c)
    BY AppendProperties, Zenon
  <1>4. Len(t) = n + 1 /\ t[n + 1] = c /\ \A i \in 1 .. n : t[i] = name[i]
    BY <1>3, AppendProperties
  <1>5. PICK a \in Seq(Seq(Chars)) : a = Append(q(name), Encoding(c))
    BY <1>1, <1>2, AppendProperties, Zenon
  <1>6. Len(a) = n + 1 /\ a[n + 1] = Encoding(c) /\ \A i \in 1 .. n : a[i] = q(name)[i]
    <2> HIDE DEF q
    <2> QED  BY <1>1, <1>2, <1>5, AppendProperties
  <1>7. \A i \in 1 .. n + 1 : q(t)[i] = a[i]
    <2> SUFFICES ASSUME NEW i \in 1 .. n + 1 PROVE q(t)[i] = a[i]
      OBVIOUS
    <2>1. q(t)[i] = Encoding(t[i])
      BY <1>4
    <2>2. i \in 1 .. n => q(name)[i] = Encoding(name[i])
      OBVIOUS
    <2> HIDE DEF q
    <2> QED  BY <1>4, <1>6, <2>1, <2>2
  <1>8. q(t) = a
    <2> HIDE DEF q
    <2> QED  BY <1>2, <1>4, <1>6, <1>7, SeqEqual
  <1>9. url_encoded(t) = FlattenSeq(q(t)) /\ url_encoded(name) = FlattenSeq(q(name))
    BY DEF url_encoded, Encoding
  <1> HIDE DEF q
  <1>10. FlattenSeq(a) = FlattenSeq(q(name)) \o Encoding(c)
    BY <1>1, <1>2, <1>5, FlattenAppend
  <1>11. FlattenSeq(q(name)) \in Seq(Chars)
    BY <1>2, FlattenType
  <1> QED  BY <1>1, <1>3, <1>8, <1>9, <1>10, <1>11

\* The empty name.
LEMMA EncodedEmpty == url_encoded(<<>>) = <<>>
  <1>1. [k \in DOMAIN <<>> |-> IF <<>>[k] = Space THEN Escape ELSE <<<<>>[k]>>] = <<>>
    OBVIOUS
  <1> QED  BY <1>1, FlattenEmpty DEF url_encoded

\* What follows the encoding of a name.
LEMMA EncodedIs ==
  ASSUME NEW name \in Seq(Chars), NEW c \in Chars,
         NEW e \in Seq(Chars), e = url_encoded(name),
         NEW d \in Seq(Chars), d = url_encoded(Append(name, c))
  PROVE  /\ \A i \in 1 .. Len(e) : d[i] = e[i]
         /\ c # Space => Len(d) = Len(e) + 1 /\ d[Len(e) + 1] = c
         /\ c = Space => /\ Len(d) = Len(e) + 3 /\ d[Len(e) + 1] = "%"
                         /\ d[Len(e) + 2] = "2" /\ d[Len(e) + 3] = "0"
  <1>1. PICK x \in Seq(Chars) : x = Encoding(c)
    BY EncodedAppend, Zenon
  <1>2. d = e \o x
    BY <1>1, EncodedAppend
  <1>3. /\ Len(d) = Len(e) + Len(x)
        /\ \A i \in 1 .. Len(e) + Len(x) : d[i] = IF i <= Len(e) THEN e[i] ELSE x[i - Len(e)]
    BY <1>2, ConcatProperties
  <1>4. \A i \in 1 .. Len(e) : d[i] = e[i]
    BY <1>3
  <1>5. \A j \in 1 .. Len(x) : d[Len(e) + j] = x[j]
    <2>1. \A j \in 1 .. Len(x) : /\ Len(e) + j \in 1 .. Len(e) + Len(x)
                                 /\ ~(Len(e) + j <= Len(e)) /\ (Len(e) + j) - Len(e) = j
      OBVIOUS
    <2> QED  BY <1>3, <2>1
  <1>6. ASSUME c # Space PROVE Len(d) = Len(e) + 1 /\ d[Len(e) + 1] = c
    <2>1. Len(x) = 1 /\ x[1] = c
      BY <1>1, <1>6 DEF Encoding
    <2> QED  BY <1>3, <1>5, <2>1
  <1>7. ASSUME c = Space
        PROVE  /\ Len(d) = Len(e) + 3 /\ d[Len(e) + 1] = "%"
               /\ d[Len(e) + 2] = "2" /\ d[Len(e) + 3] = "0"
    <2>1. Len(x) = 3 /\ x[1] = "%" /\ x[2] = "2" /\ x[3] = "0"
      BY <1>1, <1>7 DEF Encoding, Escape
    <2> QED  BY <1>3, <1>5, <2>1
  <1> QED  BY <1>4, <1>6, <1>7

\* A percent sign or a 2 at the end of an encoded name ends the name.
LEMMA EncodedEnd ==
  ASSUME NEW name \in Seq(Chars), NEW e \in Seq(Chars), e = url_encoded(name),
         Len(e) > 0, e[Len(e)] # "0"
  PROVE  \E p \in Seq(Chars), f \in Seq(Chars) :
             /\ f = url_encoded(p) /\ name = Append(p, e[Len(e)])
             /\ Len(f) = Len(e) - 1 /\ \A i \in 1 .. Len(f) : f[i] = e[i]
  <1>1. name # <<>>
    BY EncodedEmpty
  <1>2. PICK p \in Seq(Chars), c \in Chars : name = Append(p, c)
    BY <1>1, SequenceEmptyOrAppend
  <1>3. PICK f \in Seq(Chars) : f = url_encoded(p)
    BY EncodedAppend, <1>2, Zenon
  <1>4. /\ \A i \in 1 .. Len(f) : e[i] = f[i]
        /\ c # Space => Len(e) = Len(f) + 1 /\ e[Len(f) + 1] = c
        /\ c = Space => Len(e) = Len(f) + 3 /\ e[Len(f) + 3] = "0"
    BY <1>2, <1>3, EncodedIs
  <1>5. c # Space
    BY <1>4
  <1>6. e[Len(e)] = c /\ Len(f) = Len(e) - 1
    BY <1>4, <1>5
  <1> QED  BY <1>2, <1>3, <1>4, <1>6

\* A name without the escape in it.
Plain(name) == \A k \in DOMAIN name : ~EscapeAt(name, k)

\* No escape reaches from the encoding of a name into what is added to it.
LEMMA EscapesStay ==
  ASSUME NEW name \in Seq(Chars), NEW c \in Chars, Plain(Append(name, c)),
         NEW e \in Seq(Chars), e = url_encoded(name),
         NEW d \in Seq(Chars), d = url_encoded(Append(name, c)),
         NEW k \in 1 .. Len(e)
  PROVE  EscapeAt(d, k) <=> EscapeAt(e, k)
  <1>1. /\ \A i \in 1 .. Len(e) : d[i] = e[i]
        /\ c # Space => Len(d) = Len(e) + 1 /\ d[Len(e) + 1] = c
        /\ c = Space => Len(d) = Len(e) + 3 /\ d[Len(e) + 1] = "%"
    BY EncodedIs
  <1>2. k \in Nat \ {0}
    OBVIOUS
  <1>3. EscapeAt(d, k) <=> k + 2 <= Len(d) /\ d[k] = "%" /\ d[k + 1] = "2" /\ d[k + 2] = "0"
    BY <1>2, EscapeIs
  <1>4. EscapeAt(e, k) <=> k + 2 <= Len(e) /\ e[k] = "%" /\ e[k + 1] = "2" /\ e[k + 2] = "0"
    BY <1>2, EscapeIs
  <1>5. CASE k + 2 <= Len(e)
    <2>1. k + 2 <= Len(d) /\ k + 1 \in 1 .. Len(e) /\ k + 2 \in 1 .. Len(e)
      BY <1>1, <1>5
    <2>2. d[k] = e[k] /\ d[k + 1] = e[k + 1] /\ d[k + 2] = e[k + 2]
      BY <1>1, <2>1
    <2> QED  BY <1>3, <1>4, <1>5, <2>1, <2>2
  <1>6. CASE k = Len(e)
    <2>1. c = Space => d[k + 1] # "2"
      BY <1>1, <1>6
    <2>2. c # Space => ~(k + 2 <= Len(d))
      BY <1>1, <1>6
    <2>3. ~(k + 2 <= Len(e))
      BY <1>6
    <2> QED  BY <1>3, <1>4, <2>1, <2>2, <2>3
  <1>7. CASE k + 1 = Len(e)
    <2> SUFFICES ASSUME EscapeAt(d, k) PROVE FALSE
      BY <1>4, <1>7
    <2>1. d[k] = "%" /\ d[k + 1] = "2" /\ d[k + 2] = "0"
      BY <1>3
    <2>2. c = "0"
      <3>1. k + 2 = Len(e) + 1
        BY <1>7
      <3> QED  BY <1>1, <2>1, <3>1
    <2>3. e[k] = "%" /\ e[Len(e)] = "2" /\ Len(e) > 0
      <3>1. k + 1 \in 1 .. Len(e)
        BY <1>7
      <3> QED  BY <1>1, <1>7, <2>1, <3>1
    <2>4. PICK p \in Seq(Chars), f \in Seq(Chars) :
             /\ f = url_encoded(p) /\ name = Append(p, e[Len(e)])
             /\ Len(f) = Len(e) - 1 /\ \A i \in 1 .. Len(f) : f[i] = e[i]
      BY <2>3, EncodedEnd
    <2>5. Len(f) = k /\ f[Len(f)] = "%" /\ Len(f) > 0
      <3>1. Len(f) = Len(e) - 1 /\ Len(e) \in Nat /\ k \in Nat /\ k > 0
        <4>1. Len(f) = Len(e) - 1
          BY <2>4, Zenon
        <4> QED  BY <4>1
      <3>2. Len(f) = k /\ k \in 1 .. k
        BY <1>7, <3>1
      <3>3. f[k] = e[k]
        BY <2>4, <3>2
      <3> QED  BY <2>3, <3>1, <3>2, <3>3
    <2>6. PICK o \in Seq(Chars) : p = Append(o, "%")
      <3>1. f = url_encoded(p) /\ f[Len(f)] # "0"
        BY <2>4, <2>5
      <3>2. \E o \in Seq(Chars), g \in Seq(Chars) :
               /\ g = url_encoded(o) /\ p = Append(o, f[Len(f)])
               /\ Len(g) = Len(f) - 1 /\ \A i \in 1 .. Len(g) : g[i] = f[i]
        BY <2>5, <3>1, EncodedEnd, Zenon
      <3> QED  BY <2>5, <3>2, Zenon
    <2>7. PICK z \in Seq(Chars) : z = Append(name, c)
      BY AppendProperties, Zenon
    <2> DEFINE n == Len(o) + 1
    <2>8. /\ n \in Nat \ {0} /\ Len(p) = n /\ p[n] = "%"
      BY <2>6, Literals, AppendProperties
    <2>9. Len(name) = n + 1 /\ name[n] = "%" /\ name[n + 1] = "2"
      <3>1. /\ Len(name) = Len(p) + 1 /\ name[Len(p) + 1] = "2"
            /\ \A i \in 1 .. Len(p) : name[i] = p[i]
        BY <2>3, <2>4, Literals, AppendProperties
      <3>2. n \in 1 .. Len(p)
        BY <2>8
      <3> QED  BY <2>8, <3>1, <3>2
    <2>10. Len(z) = n + 2 /\ z[n] = "%" /\ z[n + 1] = "2" /\ z[n + 2] = "0"
      <3>1. /\ Len(z) = Len(name) + 1 /\ z[Len(name) + 1] = "0"
            /\ \A i \in 1 .. Len(name) : z[i] = name[i]
        BY <2>2, <2>7, AppendProperties
      <3>2. n \in 1 .. Len(name) /\ n + 1 \in 1 .. Len(name) /\ Len(name) + 1 = n + 2
        BY <2>8, <2>9
      <3> QED  BY <2>9, <3>1, <3>2
    <2> HIDE DEF n
    <2>11. n + 2 <= Len(z) /\ n \in DOMAIN z
      BY <2>8, <2>10
    <2>12. EscapeAt(z, n)
      BY <2>8, <2>10, <2>11, EscapeIs
    <2> QED  BY <2>7, <2>11, <2>12 DEF Plain
  <1>8. k + 2 <= Len(e) \/ k = Len(e) \/ k + 1 = Len(e)
    OBVIOUS
  <1> QED  BY <1>5, <1>6, <1>7, <1>8

\* The characters of a name's encoding are decoded as before when a character is
\* added to the name.
LEMMA DecodingStays ==
  ASSUME NEW name \in Seq(Chars), NEW c \in Chars, Plain(Append(name, c)),
         NEW e \in Seq(Chars), e = url_encoded(name),
         NEW d \in Seq(Chars), d = url_encoded(Append(name, c)),
         NEW k \in 1 .. Len(e)
  PROVE  Decoding(d, k) = Decoding(e, k)
  <1>1. \A j \in 1 .. Len(e) : EscapeAt(d, j) <=> EscapeAt(e, j)
    BY EscapesStay
  <1>2. d[k] = e[k]
    BY EncodedIs
  <1>3. (\E j \in {k - 1, k - 2} : j >= 1 /\ EscapeAt(d, j)) <=>
        (\E j \in {k - 1, k - 2} : j >= 1 /\ EscapeAt(e, j))
    <2>1. \A j \in {k - 1, k - 2} : j >= 1 => j \in 1 .. Len(e)
      OBVIOUS
    <2> QED  BY <1>1, <2>1
  <1> QED  BY <1>1, <1>2, <1>3 DEF Decoding

\* The added character is decoded to itself.
LEMMA DecodingOfLast ==
  ASSUME NEW name \in Seq(Chars), NEW c \in Chars, Plain(Append(name, c)),
         NEW e \in Seq(Chars), e = url_encoded(name),
         NEW d \in Seq(Chars), d = url_encoded(Append(name, c))
  PROVE  /\ Decoding(d, Len(e) + 1) = <<c>>
         /\ c = Space => /\ Decoding(d, Len(e) + 2) = <<>>
                         /\ Decoding(d, Len(e) + 3) = <<>>
  <1> DEFINE l == Len(e)
  <1>1. /\ c # Space => Len(d) = l + 1 /\ d[l + 1] = c
        /\ c = Space => /\ Len(d) = l + 3 /\ d[l + 1] = "%"
                        /\ d[l + 2] = "2" /\ d[l + 3] = "0"
    BY EncodedIs
  <1>2. \A j \in Nat \ {0} : EscapeAt(d, j) <=>
          j + 2 <= Len(d) /\ d[j] = "%" /\ d[j + 1] = "2" /\ d[j + 2] = "0"
    BY EscapeIs
  <1>3. \A j \in 1 .. l : j + 2 > l => ~EscapeAt(d, j)
    <2> SUFFICES ASSUME NEW j \in 1 .. l, j + 2 > l PROVE ~EscapeAt(d, j)
      OBVIOUS
    <2>1. EscapeAt(d, j) <=> EscapeAt(e, j)
      BY EscapesStay
    <2>2. EscapeAt(e, j) => j + 2 <= l
      BY DEF EscapeAt
    <2> QED  BY <2>1, <2>2
  <1>4. CASE c # Space
    <2>1. ~EscapeAt(d, l + 1)
      BY <1>1, <1>4 DEF EscapeAt
    <2>2. ~\E j \in {(l + 1) - 1, (l + 1) - 2} : j >= 1 /\ EscapeAt(d, j)
      <3>1. \A j \in {(l + 1) - 1, (l + 1) - 2} : j >= 1 => j \in 1 .. l /\ j + 2 > l
        OBVIOUS
      <3> QED  BY <1>3, <3>1
    <2>3. Decoding(d, l + 1) = <<c>>
      BY <1>1, <1>4, <2>1, <2>2 DEF Decoding
    <2> QED  BY <1>4, <2>3
  <1>5. CASE c = Space
    <2>1. EscapeAt(d, l + 1)
      <3>1. l + 1 \in Nat \ {0} /\ (l + 1) + 1 = l + 2 /\ (l + 1) + 2 = l + 3
        OBVIOUS
      <3> QED  BY <1>1, <1>2, <1>5, <3>1
    <2>2. ~EscapeAt(d, l + 2) /\ ~EscapeAt(d, l + 3)
      BY <1>1, <1>5 DEF EscapeAt
    <2>3. /\ l + 1 \in {(l + 2) - 1, (l + 2) - 2} /\ l + 1 \in {(l + 3) - 1, (l + 3) - 2}
          /\ l + 1 >= 1
      OBVIOUS
    <2>4. Decoding(d, l + 1) = <<Space>>
      BY <2>1 DEF Decoding
    <2>5. Decoding(d, l + 2) = <<>>
      BY <2>1, <2>2, <2>3 DEF Decoding
    <2>6. Decoding(d, l + 3) = <<>>
      BY <2>1, <2>2, <2>3 DEF Decoding
    <2> QED  BY <1>5, <2>4, <2>5, <2>6
  <1> QED  BY <1>4, <1>5

\* The pieces that Decoded puts together.
Pieces(s) == [k \in DOMAIN s |-> Decoding(s, k)]

\* Decoded is their concatenation.
LEMMA PiecesAre ==
  ASSUME NEW s \in Seq(Chars)
  PROVE  /\ Pieces(s) \in Seq(Seq(Chars)) /\ Len(Pieces(s)) = Len(s)
         /\ \A k \in 1 .. Len(s) : Pieces(s)[k] = Decoding(s, k)
         /\ Decoded(s) = FlattenSeq(Pieces(s))
  <1>1. <<>> \in Seq(Chars) /\ <<Space>> \in Seq(Chars) /\ \A k \in 1 .. Len(s) : <<s[k]>> \in Seq(Chars)
    BY Literals
  <1>2. \A k \in 1 .. Len(s) : Decoding(s, k) \in Seq(Chars)
    BY <1>1, Zenon DEF Decoding
  <1>3. Pieces(s) \in [1 .. Len(s) -> Seq(Chars)] /\ Len(s) \in Nat
    BY <1>2 DEF Pieces
  <1>4. Pieces(s) \in Seq(Seq(Chars)) /\ Len(Pieces(s)) = Len(s)
    BY <1>3, FunctionIsSeq, Zenon
  <1>5. \A k \in 1 .. Len(s) : Pieces(s)[k] = Decoding(s, k)
    BY DEF Pieces
  <1>6. Decoded(s) = FlattenSeq(Pieces(s))
    BY DEF Decoded, Pieces, Decoding
  <1> QED  BY <1>4, <1>5, <1>6

\* What a sequence is with one more element.
LEMMA Appended ==
  ASSUME NEW S, NEW s \in Seq(S), NEW c \in S, NEW t, t = Append(s, c)
  PROVE  Len(t) = Len(s) + 1 /\ t[Len(s) + 1] = c /\ \A i \in 1 .. Len(s) : t[i] = s[i]
  BY AppendProperties

\* One more character of a name is one more character of what is decoded.
LEMMA DecodedAppend ==
  ASSUME NEW name \in Seq(Chars), NEW c \in Chars, Plain(Append(name, c)),
         NEW e \in Seq(Chars), e = url_encoded(name),
         NEW d \in Seq(Chars), d = url_encoded(Append(name, c))
  PROVE  Decoded(d) = Decoded(e) \o <<c>>
  <1>1. PICK a \in Seq(Seq(Chars)) : /\ a = Pieces(e) /\ Len(a) = Len(e)
                                     /\ \A k \in 1 .. Len(e) : a[k] = Decoding(e, k)
                                     /\ Decoded(e) = FlattenSeq(a)
    BY PiecesAre, Zenon
  <1>2. PICK b \in Seq(Seq(Chars)) : /\ b = Pieces(d) /\ Len(b) = Len(d)
                                     /\ \A k \in 1 .. Len(d) : b[k] = Decoding(d, k)
                                     /\ Decoded(d) = FlattenSeq(b)
    BY PiecesAre, Zenon
  <1>3. /\ <<>> \in Seq(Chars) /\ <<c>> \in Seq(Chars)
    OBVIOUS
  <1>4. PICK x \in Seq(Seq(Chars)) : x = Append(a, <<c>>)
    BY <1>3, AppendProperties, Zenon
  <1>5. Len(x) = Len(e) + 1 /\ x[Len(e) + 1] = <<c>> /\ \A i \in 1 .. Len(e) : x[i] = a[i]
    <2>1. Len(x) = Len(a) + 1 /\ x[Len(a) + 1] = <<c>> /\ \A i \in 1 .. Len(a) : x[i] = a[i]
      BY <1>3, <1>4, Appended
    <2> QED  BY <1>1, <2>1, Zenon
  <1>6. /\ FlattenSeq(x) = Decoded(e) \o <<c>> /\ FlattenSeq(x) \in Seq(Chars)
    BY <1>1, <1>3, <1>4, FlattenAppend, FlattenType, Zenon
  <1>7. /\ c # Space => Len(d) = Len(e) + 1
        /\ c = Space => Len(d) = Len(e) + 3
    BY EncodedIs
  <1>8. \A i \in 1 .. Len(e) + 1 : b[i] = x[i]
    <2> SUFFICES ASSUME NEW i \in 1 .. Len(e) + 1 PROVE b[i] = x[i]
      OBVIOUS
    <2>1. i \in 1 .. Len(d)
      BY <1>7
    <2>2. b[i] = Decoding(d, i)
      BY <1>2, <2>1, Zenon
    <2>3. CASE i \in 1 .. Len(e)
      <3>1. x[i] = Decoding(e, i)
        BY <1>1, <1>5, <2>3, Zenon
      <3>2. Decoding(d, i) = Decoding(e, i)
        BY <2>3, DecodingStays
      <3> QED  BY <2>2, <3>1, <3>2, Zenon
    <2>4. CASE i = Len(e) + 1
      <3>1. Decoding(d, Len(e) + 1) = <<c>>
        BY DecodingOfLast
      <3> QED  BY <1>5, <2>2, <2>4, <3>1, Zenon
    <2>5. i \in 1 .. Len(e) \/ i = Len(e) + 1
      OBVIOUS
    <2> QED  BY <2>3, <2>4, <2>5
  <1>9. CASE c # Space
    <2>1. Len(b) = Len(x) /\ \A i \in 1 .. Len(b) : b[i] = x[i]
      BY <1>2, <1>5, <1>7, <1>8, <1>9
    <2>2. b = x
      BY <2>1, SeqEqual
    <2> QED  BY <1>2, <1>6, <2>2
  <1>10. CASE c = Space
    <2>1. PICK y \in Seq(Seq(Chars)) : y = Append(x, <<>>)
      BY <1>3, AppendProperties, Zenon
    <2>2. PICK z \in Seq(Seq(Chars)) : z = Append(y, <<>>)
      BY <1>3, AppendProperties, Zenon
    <2>3. Len(y) = Len(x) + 1 /\ y[Len(x) + 1] = <<>> /\ \A i \in 1 .. Len(x) : y[i] = x[i]
      BY <1>3, <2>1, Appended
    <2>4. Len(z) = Len(y) + 1 /\ z[Len(y) + 1] = <<>> /\ \A i \in 1 .. Len(y) : z[i] = y[i]
      BY <1>3, <2>2, Appended
    <2>5. Len(b) = Len(e) + 3 /\ Len(x) = Len(e) + 1 /\ Len(y) = Len(e) + 2 /\ Len(z) = Len(e) + 3
      <3>1. Len(b) = Len(e) + 3
        BY <1>2, <1>7, <1>10
      <3>2. Len(x) = Len(e) + 1
        BY <1>5
      <3>3. Len(y) = Len(e) + 2
        BY <2>3, <3>2
      <3> QED  BY <2>4, <3>1, <3>2, <3>3
    <2>6. b[Len(e) + 2] = <<>> /\ b[Len(e) + 3] = <<>>
      <3>1. Decoding(d, Len(e) + 2) = <<>> /\ Decoding(d, Len(e) + 3) = <<>>
        BY <1>10, DecodingOfLast
      <3>2. Len(e) + 2 \in 1 .. Len(d) /\ Len(e) + 3 \in 1 .. Len(d)
        BY <1>7, <1>10
      <3> QED  BY <1>2, <3>1, <3>2, Zenon
    <2>7. \A i \in 1 .. Len(b) : b[i] = z[i]
      <3> SUFFICES ASSUME NEW i \in 1 .. Len(b) PROVE b[i] = z[i]
        OBVIOUS
      <3>1. i \in 1 .. Len(e) + 1 \/ i = Len(e) + 2 \/ i = Len(e) + 3
        <4>1. i \in 1 .. Len(e) + 3
          BY <2>5, Zenon
        <4>2. \A l \in Nat : \A j \in 1 .. l + 3 : j \in 1 .. l + 1 \/ j = l + 2 \/ j = l + 3
          OBVIOUS
        <4>3. Len(e) \in Nat
          OBVIOUS
        <4> QED  BY <4>1, <4>2, <4>3, Zenon
      <3>2. CASE i \in 1 .. Len(e) + 1
        <4>1. i \in 1 .. Len(x) /\ i \in 1 .. Len(y)
          BY <2>5, <3>2
        <4> QED  BY <1>8, <2>3, <2>4, <3>2, <4>1, Zenon
      <3>3. CASE i = Len(e) + 2
        <4>1. i = Len(x) + 1 /\ i \in 1 .. Len(y)
          BY <2>5, <3>3
        <4> QED  BY <2>3, <2>4, <2>6, <3>3, <4>1, Zenon
      <3>4. CASE i = Len(e) + 3
        <4>1. i = Len(y) + 1
          BY <2>5, <3>4
        <4> QED  BY <2>4, <2>6, <3>4, <4>1, Zenon
      <3> QED  BY <3>1, <3>2, <3>3, <3>4
    <2>8. b = z
      BY <2>5, <2>7, SeqEqual
    <2>9. FlattenSeq(y) = FlattenSeq(x)
      <3>1. FlattenSeq(y) = FlattenSeq(x) \o <<>>
        BY <1>3, <2>1, FlattenAppend, Zenon
      <3> QED  BY <1>6, <3>1, ConcatEmptySeq, Zenon
    <2>10. FlattenSeq(z) = FlattenSeq(y)
      <3>1. FlattenSeq(z) = FlattenSeq(y) \o <<>>
        BY <1>3, <2>2, FlattenAppend, Zenon
      <3> QED  BY <1>6, <2>9, <3>1, ConcatEmptySeq, Zenon
    <2> QED  BY <1>2, <1>6, <2>8, <2>9, <2>10, Zenon
  <1> QED  BY <1>9, <1>10

\* By induction on the length of the name.
LEMMA RoundTrip ==
  ASSUME NEW name \in Seq(Chars), Plain(name)
  PROVE  Decoded(url_encoded(name)) = name
  <1> DEFINE Right(p) == Plain(p) => Decoded(url_encoded(p)) = p
             T == {k \in Nat : \A p \in Seq(Chars) : Len(p) = k => Right(p)}
  <1>1. 0 \in T
    <2> SUFFICES ASSUME NEW p \in Seq(Chars), Len(p) = 0 PROVE Right(p)
      OBVIOUS
    <2>1. p = <<>> /\ <<>> \in Seq(Chars) /\ Len(<<>>) = 0
      OBVIOUS
    <2>2. Decoded(<<>>) = FlattenSeq(Pieces(<<>>)) /\ Pieces(<<>>) = <<>>
      <3>1. Pieces(<<>>) \in Seq(Seq(Chars)) /\ Len(Pieces(<<>>)) = 0
        BY <2>1, PiecesAre
      <3> QED  BY <2>1, <3>1, PiecesAre
    <2> QED  BY <2>1, <2>2, EncodedEmpty, FlattenEmpty
  <1>2. ASSUME NEW k \in T PROVE k + 1 \in T
    <2> SUFFICES ASSUME NEW s \in Seq(Chars), Len(s) = k + 1, Plain(s)
                 PROVE  Decoded(url_encoded(s)) = s
      OBVIOUS
    <2>1. k \in Nat /\ s # <<>> /\ \A p \in Seq(Chars) : Len(p) = k => Right(p)
      OBVIOUS
    <2>2. PICK p \in Seq(Chars), c \in Chars : s = Append(p, c)
      BY <2>1, SequenceEmptyOrAppend
    <2>3. Len(s) = Len(p) + 1 /\ \A i \in 1 .. Len(p) : s[i] = p[i]
      BY <2>2, AppendProperties
    <2>4. Plain(p)
      <3> SUFFICES ASSUME NEW i \in 1 .. Len(p), EscapeAt(p, i) PROVE FALSE
        BY DEF Plain
      <3>1. i \in Nat \ {0}
        OBVIOUS
      <3>2. i + 2 <= Len(p) /\ p[i] = "%" /\ p[i + 1] = "2" /\ p[i + 2] = "0"
        BY <3>1, EscapeIs
      <3>3. i + 1 \in 1 .. Len(p) /\ i + 2 \in 1 .. Len(p)
        BY <3>2
      <3>4. i + 2 <= Len(s) /\ s[i] = "%" /\ s[i + 1] = "2" /\ s[i + 2] = "0" /\ i \in DOMAIN s
        BY <2>3, <3>2, <3>3
      <3>5. EscapeAt(s, i)
        BY <3>1, <3>4, EscapeIs
      <3> QED  BY <3>4, <3>5 DEF Plain
    <2>5. Decoded(url_encoded(p)) = p
      BY <2>1, <2>3, <2>4
    <2>6. PICK e \in Seq(Chars) : e = url_encoded(p)
      BY <2>2, EncodedAppend, Zenon
    <2>7. PICK d \in Seq(Chars) : d = url_encoded(Append(p, c))
      <3>1. url_encoded(p) \o Encoding(c) \in Seq(Chars)
        BY EncodedAppend, ConcatProperties, Zenon
      <3> QED  BY <3>1, EncodedAppend, Zenon
    <2>8. Decoded(d) = Decoded(e) \o <<c>>
      BY <2>2, <2>6, <2>7, DecodedAppend
    <2> QED  BY <2>2, <2>5, <2>6, <2>7, <2>8, AppendIsConcat
  <1>3. T = Nat
    <2> HIDE DEF T
    <2>1. T \in SUBSET Nat
      BY DEF T
    <2> QED  BY <1>1, <1>2, <2>1, SetInduction
  <1> QED  BY <1>3

-----------------------------------------------------------------------------
\* The way of a link.

\* What stands where in the request for a path.
LEMMA GetIs ==
  ASSUME NEW e \in Seq(Chars), NEW h \in Seq(Chars), h = Get(e)
  PROVE  /\ Len(h) = Len(e) + 10
         /\ h[1] = "G" /\ h[2] = "E" /\ h[3] = "T" /\ h[4] = Space
         /\ \A i \in 1 .. Len(e) : h[4 + i] = e[i]
         /\ h[Len(e) + 5] = Space /\ h[Len(e) + 6] = "v" /\ h[Len(e) + 7] = "CR"
  <1> DEFINE l == Len(e)
  <1>1. PICK g \in Seq(Chars) : /\ g = <<"G", "E", "T", Space>> /\ Len(g) = 4
                                /\ g[1] = "G" /\ g[2] = "E" /\ g[3] = "T" /\ g[4] = Space
    <2>1. <<"G", "E", "T", Space>> \in Seq(Chars)
      BY Literals
    <2> QED  BY <2>1
  <1>2. PICK v \in Seq(Chars) : /\ v = <<Space, "v">> /\ Len(v) = 2
                                /\ v[1] = Space /\ v[2] = "v"
    <2>1. <<Space, "v">> \in Seq(Chars)
      BY Literals
    <2> QED  BY <2>1
  <1>3. PICK b \in Seq(Chars) : b = BlankLine /\ Len(b) = 4 /\ b[1] = "CR"
    <2>1. BlankLine \in Seq(Chars)
      BY Literals DEF BlankLine
    <2> QED  BY <2>1 DEF BlankLine
  <1>4. PICK x \in Seq(Chars) : x = g \o e
    BY ConcatProperties, Zenon
  <1>5. Len(x) = 4 + l /\ \A i \in 1 .. 4 + l : x[i] = IF i <= 4 THEN g[i] ELSE e[i - 4]
    <2>1. /\ Len(x) = Len(g) + Len(e)
          /\ \A i \in 1 .. Len(g) + Len(e) : x[i] = IF i <= Len(g) THEN g[i] ELSE e[i - Len(g)]
      BY <1>4, ConcatProperties, Zenon
    <2> QED  BY <1>1, <2>1, Zenon
  <1>6. PICK y \in Seq(Chars) : y = x \o v
    BY ConcatProperties, Zenon
  <1>7. /\ Len(y) = l + 6
        /\ \A i \in 1 .. l + 6 : y[i] = IF i <= 4 + l THEN x[i] ELSE v[i - (4 + l)]
    <2>1. /\ Len(y) = Len(x) + Len(v)
          /\ \A i \in 1 .. Len(x) + Len(v) : y[i] = IF i <= Len(x) THEN x[i] ELSE v[i - Len(x)]
      BY <1>6, ConcatProperties, Zenon
    <2>2. Len(x) = 4 + l /\ Len(x) + Len(v) = l + 6
      BY <1>2, <1>5
    <2> QED  BY <2>1, <2>2, Zenon
  <1>8. /\ Len(h) = l + 10
        /\ \A i \in 1 .. l + 10 : h[i] = IF i <= l + 6 THEN y[i] ELSE b[i - (l + 6)]
    <2>1. h = y \o b
      BY <1>1, <1>2, <1>3, <1>4, <1>6 DEF Get
    <2>2. /\ Len(h) = Len(y) + Len(b)
          /\ \A i \in 1 .. Len(y) + Len(b) : h[i] = IF i <= Len(y) THEN y[i] ELSE b[i - Len(y)]
      BY <2>1, ConcatProperties, Zenon
    <2>3. Len(y) = l + 6 /\ Len(y) + Len(b) = l + 10
      BY <1>3, <1>7
    <2> QED  BY <2>2, <2>3, Zenon
  <1>9. l \in Nat
    OBVIOUS
  <1> HIDE DEF l
  <1>10. \A i \in 1 .. 4 : h[i] = g[i]
    <2> SUFFICES ASSUME NEW i \in 1 .. 4 PROVE h[i] = g[i]
      OBVIOUS
    <2>1. i \in 1 .. l + 10 /\ i \in 1 .. l + 6 /\ i \in 1 .. 4 + l /\ i <= l + 6 /\ i <= 4 + l /\ i <= 4
      BY <1>9
    <2> QED  BY <1>5, <1>7, <1>8, <2>1, Zenon
  <1>11. \A i \in 1 .. l : h[4 + i] = e[i]
    <2> SUFFICES ASSUME NEW i \in 1 .. l PROVE h[4 + i] = e[i]
      OBVIOUS
    <2>1. /\ 4 + i \in 1 .. l + 10 /\ 4 + i \in 1 .. l + 6 /\ 4 + i \in 1 .. 4 + l
          /\ 4 + i <= l + 6 /\ 4 + i <= 4 + l /\ ~(4 + i <= 4) /\ (4 + i) - 4 = i
      BY <1>9
    <2>2. h[4 + i] = y[4 + i] /\ y[4 + i] = x[4 + i]
      BY <1>7, <1>8, <2>1, Zenon
    <2>3. x[4 + i] = e[(4 + i) - 4]
      BY <1>5, <2>1, Zenon
    <2> QED  BY <2>1, <2>2, <2>3
  <1>12. h[l + 5] = v[1] /\ h[l + 6] = v[2]
    <2>1. ASSUME NEW j \in 1 .. 2 PROVE h[l + 4 + j] = v[j]
      <3>1. /\ l + 4 + j \in 1 .. l + 10 /\ l + 4 + j \in 1 .. l + 6 /\ l + 4 + j <= l + 6
            /\ ~(l + 4 + j <= 4 + l) /\ (l + 4 + j) - (4 + l) = j
        BY <1>9
      <3>2. h[l + 4 + j] = y[l + 4 + j]
        BY <1>8, <3>1, Zenon
      <3>3. y[l + 4 + j] = v[(l + 4 + j) - (4 + l)]
        BY <1>7, <3>1, Zenon
      <3> QED  BY <3>1, <3>2, <3>3
    <2>2. l + 4 + 1 = l + 5 /\ l + 4 + 2 = l + 6
      BY <1>9
    <2> QED  BY <2>1, <2>2
  <1>13. h[l + 7] = b[1]
    <2>1. l + 7 \in 1 .. l + 10 /\ ~(l + 7 <= l + 6) /\ (l + 7) - (l + 6) = 1
      BY <1>9
    <2>2. h[l + 7] = b[(l + 7) - (l + 6)]
      BY <1>8, <2>1, Zenon
    <2> QED  BY <2>1, <2>2
  <1>14. h[1] = "G" /\ h[2] = "E" /\ h[3] = "T" /\ h[4] = Space
    BY <1>1, <1>10
  <1>15. h[l + 5] = Space /\ h[l + 6] = "v" /\ h[l + 7] = "CR"
    BY <1>2, <1>3, <1>12, <1>13
  <1> QED  BY <1>8, <1>11, <1>14, <1>15 DEF l

\* The path is cut out between the first and the last space of the line.
LEMMA CutOut ==
  ASSUME NEW e \in Seq(Chars), HasLine, request_header = Get(e),
         \A i \in 1 .. Len(e) : e[i] \notin EndOfLine
  PROVE  Slice(get_line, 0, last_space) = e
  <1>1. PICK h \in Seq(Chars) : h = request_header
    BY DEF HasLine
  <1>2. PICK l \in Nat : l = Len(e)
    OBVIOUS
  <1>3. /\ Len(h) = l + 10
        /\ h[1] = "G" /\ h[2] = "E" /\ h[3] = "T" /\ h[4] = Space
        /\ \A i \in 1 .. l : h[4 + i] = e[i]
        /\ h[l + 5] = Space /\ h[l + 6] = "v" /\ h[l + 7] = "CR"
    BY <1>1, <1>2, GetIs
  <1>4. \A i \in 1 .. l + 6 : h[i] \notin EndOfLine
    <2> SUFFICES ASSUME NEW i \in 1 .. l + 6 PROVE h[i] \notin EndOfLine
      OBVIOUS
    <2>1. CASE i \in 5 .. l + 4
      <3>1. i - 4 \in 1 .. l /\ 4 + (i - 4) = i
        BY <2>1
      <3>2. h[i] = e[i - 4]
        BY <1>3, <3>1
      <3> QED  BY <1>2, <3>1, <3>2
    <2>2. i \in 5 .. l + 4 \/ i = 1 \/ i = 2 \/ i = 3 \/ i = 4 \/ i = l + 5 \/ i = l + 6
      OBVIOUS
    <2>3. "G" \notin EndOfLine /\ "E" \notin EndOfLine /\ "T" \notin EndOfLine
          /\ Space \notin EndOfLine /\ "v" \notin EndOfLine
      BY DEF EndOfLine, Space
    <2> QED  BY <1>3, <2>1, <2>2, <2>3
  <1>5. rv = l + 6
    <2>1. /\ rv \in 0 .. l + 9 /\ h[rv + 1] \in EndOfLine
          /\ \A k \in 1 .. rv : h[k] \notin EndOfLine
      BY <1>1, <1>3, LineIs
    <2>2. ~(l + 7 <= rv)
      <3> SUFFICES ASSUME l + 7 <= rv PROVE FALSE
        OBVIOUS
      <3>1. l + 7 \in 1 .. rv
        BY <2>1
      <3> QED  BY <1>3, <2>1, <3>1 DEF EndOfLine
    <2>3. ~(rv + 1 <= l + 6)
      <3> SUFFICES ASSUME rv + 1 <= l + 6 PROVE FALSE
        OBVIOUS
      <3>1. rv + 1 \in 1 .. l + 6
        BY <2>1
      <3> QED  BY <1>4, <2>1, <3>1
    <2> QED  BY <2>1, <2>2, <2>3
  <1>6. get_line = SubSeq(h, 5, l + 5)
    BY <1>1, <1>5 DEF get_line, Slice, LineEnd
  <1>7. /\ SubSeq(h, 5, l + 5) \in Seq(Chars) /\ Len(SubSeq(h, 5, l + 5)) = l + 1
        /\ \A i \in 1 .. l + 1 : SubSeq(h, 5, l + 5)[i] = h[4 + i]
    BY <1>3
  <1>8. PICK g \in Seq(Chars) : g = get_line
    BY <1>6, <1>7, Zenon
  <1>9. Len(g) = l + 1 /\ g[l + 1] = Space /\ \A i \in 1 .. l : g[i] = e[i]
    <2>1. Len(g) = l + 1 /\ \A i \in 1 .. l + 1 : g[i] = h[4 + i]
      BY <1>6, <1>7, <1>8
    <2>2. l + 1 \in 1 .. l + 1 /\ 4 + (l + 1) = l + 5
      OBVIOUS
    <2>3. \A i \in 1 .. l : i \in 1 .. l + 1
      OBVIOUS
    <2> QED  BY <1>3, <2>1, <2>2, <2>3
  <1>10. last_space = l
    <2>1. l + 1 \in 1 .. Len(g)
      BY <1>9
    <2>2. last_space \in 0 .. Len(g) - 1 /\ last_space >= (l + 1) - 1
      BY <1>8, <1>9, <2>1, LastSpaceIs
    <2> QED  BY <1>9, <2>2
  <1>11. Slice(get_line, 0, last_space) = SubSeq(g, 1, l)
    BY <1>8, <1>10 DEF Slice
  <1>12. /\ SubSeq(g, 1, l) \in Seq(Chars) /\ Len(SubSeq(g, 1, l)) = l
         /\ \A i \in 1 .. l : SubSeq(g, 1, l)[i] = g[i]
    BY <1>9, PrefixIsSeq
  <1>13. PICK s \in Seq(Chars) : s = SubSeq(g, 1, l)
    BY <1>12, Zenon
  <1>14. Len(s) = Len(e) /\ \A i \in 1 .. Len(s) : s[i] = e[i]
    BY <1>2, <1>9, <1>12, <1>13
  <1>15. s = e
    BY <1>14, SeqEqual
  <1> QED  BY <1>11, <1>13, <1>15

\* What is known of a link, before it is parsed and after.
LinkInv ==
    /\ HasLine
    /\ linked # <<>> => linked \in Seq(Chars) /\ request_header = Get(url_encoded(linked))
    /\ ~is_dirty => request_path = Decoded(Slice(get_line, 0, last_space))

\* LinkInv is an invariant: parse() is the only step, and it is taken once.
LEMMA LinkInductive == Spec => []LinkInv
  <1>1. Init => LinkInv
    <2> SUFFICES ASSUME Init PROVE LinkInv
      OBVIOUS
    <2>1. HasLine /\ is_dirty
      BY InitHasLine DEF Init
    <2>2. linked # <<>> => /\ linked \in Text(Characters, MaxName)
                           /\ request_header = Get(url_encoded(linked))
      BY DEF Init
    <2>3. linked \in Text(Characters, MaxName) => linked \in Seq(Chars)
      <3> SUFFICES ASSUME linked \in Text(Characters, MaxName) PROVE linked \in Seq(Chars)
        OBVIOUS
      <3>1. PICK n \in Nat : linked \in [1 .. n -> Characters]
        BY ConstantsOK DEF Text
      <3>2. linked \in [1 .. n -> Chars]
        BY <3>1, Literals
      <3> QED  BY <3>2, FunctionIsSeq, Zenon
    <2> QED  BY <2>1, <2>2, <2>3 DEF LinkInv
  <1>2. LinkInv /\ [Next]_vars => LinkInv'
    <2> SUFFICES ASSUME LinkInv, [Next]_vars PROVE LinkInv'
      OBVIOUS
    <2>1. request_header' = request_header /\ linked' = linked
      BY DEF Next, parse, parseOutOfRange, vars
    <2>2. HasLine'
      BY <2>1 DEF LinkInv, HasLine, Chars, EndOfLine
    <2>3. get_line' = get_line
      BY <2>1 DEF get_line, Slice, LineEnd, rv, EndOfLine
    <2>4. last_space' = last_space
      BY <2>3 DEF last_space, ToSet, SelectLastInSeq, Space, Max
    <2>5. ~is_dirty' => request_path' = Decoded(Slice(get_line, 0, last_space))
      BY DEF LinkInv, Next, parse, parseOutOfRange, vars
    <2>6. (linked # <<>> => linked \in Seq(Chars) /\ request_header = Get(url_encoded(linked)))'
      BY <2>1 DEF LinkInv, Chars
    <2> QED  BY <2>2, <2>3, <2>4, <2>5, <2>6 DEF LinkInv
  <1> QED  BY <1>1, <1>2, PTL DEF Spec

\* Names of any length and any characters, without the escape and line breaks in
\* them, come back from the link that a listing makes of them.
THEOREM LinksWork == Spec => []LinksLeadBack
  <1>1. LinkInv => LinksLeadBack
    <2> SUFFICES ASSUME LinkInv, linked # <<>>, ~is_dirty,
                        \A k \in DOMAIN linked :
                          ~EscapeAt(linked, k) /\ linked[k] \notin EndOfLine
                 PROVE  request_path = linked
      BY DEF LinksLeadBack
    <2>1. /\ linked \in Seq(Chars) /\ request_header = Get(url_encoded(linked)) /\ HasLine
          /\ request_path = Decoded(Slice(get_line, 0, last_space))
      BY DEF LinkInv
    <2> DEFINE B == Chars \ EndOfLine
    <2>2. "%" \in B /\ "2" \in B /\ "0" \in B
      BY Literals DEF EndOfLine
    <2>3. Len(linked) \in Nat /\ linked \in [1 .. Len(linked) -> B]
      BY <2>1
    <2>4. url_encoded(linked) \in Seq(B)
      <3> HIDE DEF B
      <3> QED  BY <2>2, <2>3, EncodedType
    <2>5. PICK e \in Seq(Chars) : e = url_encoded(linked) /\ \A i \in 1 .. Len(e) : e[i] \notin EndOfLine
      <3>1. PICK e \in Seq(B) : e = url_encoded(linked)
        BY <2>4, Zenon
      <3>2. Len(e) \in Nat /\ e \in [1 .. Len(e) -> Chars] /\ \A i \in 1 .. Len(e) : e[i] \notin EndOfLine
        BY <3>1
      <3>3. e \in Seq(Chars)
        BY <3>2, FunctionIsSeq, Zenon
      <3> QED  BY <3>1, <3>2, <3>3, Zenon
    <2>6. Slice(get_line, 0, last_space) = e
      BY <2>1, <2>5, CutOut
    <2>7. Decoded(e) = linked
      BY <2>1, <2>5, RoundTrip DEF Plain
    <2> QED  BY <2>1, <2>6, <2>7
  <1> QED  BY <1>1, LinkInductive, PTL
=============================================================================
