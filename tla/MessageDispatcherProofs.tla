---------------------- MODULE MessageDispatcherProofs ----------------------
(***************************************************************************)
(* Proofs about MessageDispatcher, for any dispatchers, sessions, files and*)
(* chunk size.                                                             *)
(***************************************************************************)
EXTENDS MessageDispatcher, SequenceTheorems, TLAPS

-----------------------------------------------------------------------------
\* The inductive invariant.

Least(a, b) == IF a > b THEN b ELSE a

\* What a miss composes for file p when read() delivers got blocks, whichever
\* dispatcher does it.
Beginning(p, got) ==
    Header(FileSize[p]) \o
    [k \in 1 .. Least(FileSize[p], FILE_CHUNK) |->
        [part |-> IF k <= got THEN "block" ELSE "zeros", of |-> p, n |-> k]]

Begins(m, p) == \E got \in 0 .. FILE_CHUNK : m = Beginning(p, got)

\* A session is in one place of one queue.
OneQueueEach ==
    \A d, e \in Dispatchers : \A i \in DOMAIN queue[d] : \A j \in DOMAIN queue[e] :
        queue[d][i] = queue[e][j] => d = e /\ i = j

\* No dispatcher has worked on s yet.
Untouched(s) ==
    /\ ~session[s].ewouldblock_flag
    /\ ~session[s].is_cached
    /\ ~session[s].send_message_has_more_bytes
    /\ session[s].send_message = <<>>
    /\ session[s].send_message_index = 0
    /\ session[s].send_message_header_size = 0
    /\ response[s] = <<>>
    /\ delivered[s] = <<>>

\* rest is what s still lacks of its response, unless its connection is gone:
\* then rest may have gone to whoever has its socket number.
Continues(s, rest) ==
    \/ delivered[s] \o rest = response[s]
    \/ s \in broken

\* The same of a file, whose cache entry may be replaced by one of which other
\* blocks have been read.
FillsPlaces(s, rest) ==
    \/ Places(delivered[s] \o rest) = Places(response[s])
    \/ s \in broken

\* s is in a queue and not being worked on: it is new, or a listing that would
\* have blocked, or one whose send() has failed.
Waiting(s) ==
    \/ Untouched(s)
    \/ /\ session[s].path \notin Files
       /\ ~session[s].is_cached
       /\ ~session[s].send_message_has_more_bytes
       /\ Continues(s, session[s].send_message)
       /\ session[s].ewouldblock_flag \/ s \in broken

\* A listing for s is being put together.
Composing(s) ==
    /\ session[s].path \notin Files
    /\ ~session[s].ewouldblock_flag
    /\ ~session[s].is_cached
    /\ ~session[s].send_message_has_more_bytes
    /\ Untouched(s) \/ s \in broken

\* The response of s is about to be moved into the cache.
Storing(s) ==
    /\ ~session[s].ewouldblock_flag
    /\ ~session[s].is_cached
    /\ session[s].path \in Files =>
          /\ Begins(session[s].send_message, session[s].path)
          /\ response[s] = session[s].send_message
          /\ delivered[s] = <<>>
    /\ session[s].path \notin Files =>
          /\ ~session[s].send_message_has_more_bytes
          /\ Continues(s, session[s].send_message)

\* rest is being sent to s.
SendingTo(s, rest) ==
    /\ ~session[s].ewouldblock_flag
    /\ session[s].is_cached /\ session[s].path \in Files =>
          /\ Begins(cache_[session[s].path], session[s].path)
          /\ FillsPlaces(s, rest)
    /\ ~session[s].is_cached =>
          /\ session[s].path \notin Files
          /\ ~session[s].send_message_has_more_bytes
          /\ Continues(s, rest)

\* Where dispatcher d is in its iteration says what it knows of its session.
FrontInv(d) ==
    /\ pc[d] # "idle" => queue[d] # <<>>
    /\ pc[d] = "find" => Untouched(Current(d)) /\ CurrentSession(d).path \in Files
    /\ pc[d] \in {"chdir", "names", "links", "heading"} => Composing(Current(d))
    /\ pc[d] = "store" => Storing(Current(d))
    /\ pc[d] = "send" => SendingTo(Current(d), Unsent(d))
    /\ pc[d] \notin {"send", "undefined"} => total_bytes[d] = 0

QueueInv(d) ==
    \A i \in DOMAIN queue[d] :
        /\ session[queue[d][i]].path \in Paths
        /\ i # 1 \/ pc[d] = "idle" => Waiting(queue[d][i])

CacheInv == \A p \in Files : cache_[p] = <<>> \/ Begins(cache_[p], p)

NewInv == \A s \in Sessions : session[s].path = NoPath => Untouched(s)

DispatchInv ==
    /\ TypeOK
    /\ OneQueueEach
    /\ \A d \in Dispatchers : QueueInv(d) /\ FrontInv(d)
    /\ CacheInv
    /\ NewInv
    /\ UncachedIsDeliveredWhole

-----------------------------------------------------------------------------
\* Facts about sequences.

LEMMA SubSeqIn ==
  ASSUME NEW S, NEW r \in Seq(S), NEW t \in Nat
  PROVE  /\ SubSeq(r, t + 1, Len(r)) \in Seq(S)
         /\ t <= Len(r) => Len(SubSeq(r, t + 1, Len(r))) = Len(r) - t
         /\ t > Len(r) => SubSeq(r, t + 1, Len(r)) = <<>>
         /\ t = 0 => SubSeq(r, t + 1, Len(r)) = r
  OBVIOUS

\* Cutting the first k parts off what is left after t.
LEMMA Cutting ==
  ASSUME NEW S, NEW r \in Seq(S), NEW t \in Nat, NEW k \in 1 .. Len(SubSeq(r, t + 1, Len(r)))
  PROVE  /\ SubSeq(SubSeq(r, t + 1, Len(r)), 1, k) \in Seq(S)
         /\ SubSeq(SubSeq(r, t + 1, Len(r)), 1, k) \o SubSeq(r, t + k + 1, Len(r))
              = SubSeq(r, t + 1, Len(r))
  <1> DEFINE u == SubSeq(r, t + 1, Len(r))
             a == SubSeq(u, 1, k)
             b == SubSeq(r, t + k + 1, Len(r))
  <1>1. u \in Seq(S) /\ t < Len(r) /\ Len(u) = Len(r) - t /\ k \in 1 .. Len(r) - t
    BY SubSeqIn
  <1>2. \A i \in 1 .. Len(u) : u[i] = r[t + i]
    BY <1>1
  <1>3. a \in Seq(S) /\ Len(a) = k /\ \A i \in 1 .. k : a[i] = u[i]
    BY <1>1
  <1>4. b \in Seq(S) /\ Len(b) = Len(r) - t - k
    BY <1>1, t + k \in Nat, SubSeqIn
  <1>5. \A i \in 1 .. Len(b) : b[i] = r[t + k + i]
    BY <1>1, <1>4
  <1> HIDE DEF u, a, b
  <1>6. /\ a \o b \in Seq(S)
        /\ Len(a \o b) = k + Len(b)
        /\ \A i \in 1 .. k + Len(b) : (a \o b)[i] = IF i <= k THEN a[i] ELSE b[i - k]
    BY <1>3, <1>4, ConcatProperties
  <1>7. \A i \in 1 .. Len(u) : (a \o b)[i] = u[i]
    <2> SUFFICES ASSUME NEW i \in 1 .. Len(u) PROVE (a \o b)[i] = u[i]
      OBVIOUS
    <2>1. CASE i <= k
      BY <1>1, <1>3, <1>4, <1>6, <2>1
    <2>2. CASE i > k
      <3>1. i - k \in 1 .. Len(b)
        BY <1>1, <1>4, <2>2
      <3>2. t + k + (i - k) = t + i
        BY <1>1
      <3>3. b[i - k] = r[t + i]
        BY <1>5, <3>1, <3>2
      <3>4. i \in 1 .. k + Len(b) /\ ~(i <= k)
        BY <1>1, <1>4, <2>2
      <3>5. (a \o b)[i] = b[i - k]
        BY <1>6, <3>4
      <3>6. u[i] = r[t + i]
        BY <1>2
      <3> QED  BY <3>3, <3>5, <3>6
    <2>3. i <= k \/ i > k
      BY <1>1
    <2> QED  BY <2>1, <2>2, <2>3, Zenon
  <1>8. Len(a \o b) = Len(u)
    BY <1>1, <1>4, <1>6
  <1>9. a \o b = u
    BY <1>1, <1>6, <1>7, <1>8, SeqEqual
  <1> QED  BY <1>3, <1>9 DEF u, a, b

-----------------------------------------------------------------------------
\* The beginning of a file, and the places of its parts.

LEMMA HeaderIn ==
  ASSUME NEW n \in Nat
  PROVE  Header(n) \in Seq(Part) /\ Len(Header(n)) = 1
  BY DEF Header, Part

LEMMA BeginningIs ==
  ASSUME NEW p \in Files, NEW got \in 0 .. FILE_CHUNK
  PROVE  LET b == Beginning(p, got)
         IN  /\ b \in Seq(Part)
             /\ Len(b) = 1 + Least(FileSize[p], FILE_CHUNK)
             /\ b[1] = [part |-> "header", of |-> NoPath, n |-> FileSize[p]]
             /\ \A k \in 2 .. Len(b) :
                  b[k] = [part |-> IF k - 1 <= got THEN "block" ELSE "zeros",
                          of |-> p, n |-> k - 1]
  <1> DEFINE size == FileSize[p]
             m == Least(size, FILE_CHUNK)
             h == Header(size)
             body == [k \in 1 .. m |->
                        [part |-> IF k <= got THEN "block" ELSE "zeros", of |-> p, n |-> k]]
  <1>1. size \in Nat /\ FILE_CHUNK \in Nat \ {0} /\ m \in Nat /\ p \in Paths
    BY ConstantsOK DEF Least, Paths
  <1>2. h \in Seq(Part) /\ Len(h) = 1
    BY <1>1, HeaderIn
  <1>3. h[1] = [part |-> "header", of |-> NoPath, n |-> size]
    BY DEF Header
  <1>4. body \in Seq(Part) /\ Len(body) = m
    <2>1. body \in [1 .. m -> Part]
      BY <1>1 DEF Part
    <2> HIDE DEF body, m
    <2> QED  BY <1>1, <2>1
  <1>5. \A k \in 1 .. m :
           body[k] = [part |-> IF k <= got THEN "block" ELSE "zeros", of |-> p, n |-> k]
    OBVIOUS
  <1>6. Beginning(p, got) = h \o body
    BY DEF Beginning
  <1> HIDE DEF h, body, m, size
  <1>7. /\ Len(h \o body) = 1 + m
        /\ \A i \in 1 .. 1 + m : (h \o body)[i] = IF i <= 1 THEN h[i] ELSE body[i - 1]
    <2>1. /\ Len(h \o body) = Len(h) + Len(body)
          /\ \A i \in 1 .. Len(h) + Len(body) :
               (h \o body)[i] = IF i <= Len(h) THEN h[i] ELSE body[i - Len(h)]
      BY <1>2, <1>4, ConcatProperties
    <2> QED  BY <1>1, <1>2, <1>4, <2>1
  <1>8. (h \o body)[1] = h[1]
    BY <1>1, <1>7
  <1>9. h \o body \in Seq(Part)
    BY <1>2, <1>4, ConcatProperties
  <1>10. \A k \in 2 .. 1 + m :
           (h \o body)[k] = [part |-> IF k - 1 <= got THEN "block" ELSE "zeros",
                             of |-> p, n |-> k - 1]
    <2> SUFFICES ASSUME NEW k \in 2 .. 1 + m
                 PROVE  (h \o body)[k] = [part |-> IF k - 1 <= got THEN "block" ELSE "zeros",
                                          of |-> p, n |-> k - 1]
      OBVIOUS
    <2>1. k - 1 \in 1 .. m /\ k \in 1 .. 1 + m /\ ~(k <= 1)
      BY <1>1
    <2>2. (h \o body)[k] = body[k - 1]
      BY <1>7, <2>1
    <2> QED  BY <1>5, <2>1, <2>2
  <1> QED  BY <1>3, <1>6, <1>7, <1>8, <1>9, <1>10 DEF m, size

\* Sequences have the same places when their parts have.
LEMMA SamePlaces ==
  ASSUME NEW a \in Seq(Part), NEW b \in Seq(Part)
  PROVE  Places(a) = Places(b)
           <=> Len(a) = Len(b) /\ \A k \in 1 .. Len(a) : Place(a[k]) = Place(b[k])
  <1>1. /\ DOMAIN Places(a) = 1 .. Len(a) /\ Len(a) \in Nat
        /\ \A k \in 1 .. Len(a) : Places(a)[k] = Place(a[k])
    BY DEF Places
  <1>2. /\ DOMAIN Places(b) = 1 .. Len(b) /\ Len(b) \in Nat
        /\ \A k \in 1 .. Len(b) : Places(b)[k] = Place(b[k])
    BY DEF Places
  <1>3. ASSUME Places(a) = Places(b)
        PROVE  Len(a) = Len(b) /\ \A k \in 1 .. Len(a) : Place(a[k]) = Place(b[k])
    <2>1. 1 .. Len(a) = 1 .. Len(b)
      BY <1>1, <1>2, <1>3
    <2>2. Len(a) = Len(b)
      BY <1>1, <1>2, <2>1
    <2> QED  BY <1>1, <1>2, <1>3, <2>2
  <1>4. ASSUME Len(a) = Len(b), \A k \in 1 .. Len(a) : Place(a[k]) = Place(b[k])
        PROVE  Places(a) = Places(b)
    <2>1. DOMAIN a = 1 .. Len(a) /\ DOMAIN b = 1 .. Len(a)
      BY <1>4
    <2> QED  BY <1>4, <2>1 DEF Places
  <1> QED  BY <1>3, <1>4

\* Whatever has been read of a file, its beginning has the same places.
LEMMA BeginningsAgree ==
  ASSUME NEW p \in Files, NEW a, NEW b, Begins(a, p), Begins(b, p)
  PROVE  a \in Seq(Part) /\ b \in Seq(Part) /\ a # <<>> /\ Places(a) = Places(b)
  <1>1. PICK x \in 0 .. FILE_CHUNK : a = Beginning(p, x)
    BY DEF Begins
  <1>2. PICK y \in 0 .. FILE_CHUNK : b = Beginning(p, y)
    BY DEF Begins
  <1>3. /\ a \in Seq(Part) /\ b \in Seq(Part)
        /\ Len(a) = 1 + Least(FileSize[p], FILE_CHUNK) /\ Len(b) = Len(a)
        /\ a[1] = b[1] /\ a[1] = [part |-> "header", of |-> NoPath, n |-> FileSize[p]]
    BY <1>1, <1>2, BeginningIs
  <1>4. /\ \A k \in 2 .. Len(a) :
              a[k] = [part |-> IF k - 1 <= x THEN "block" ELSE "zeros",
                      of |-> p, n |-> k - 1]
        /\ \A k \in 2 .. Len(a) :
              b[k] = [part |-> IF k - 1 <= y THEN "block" ELSE "zeros",
                      of |-> p, n |-> k - 1]
    BY <1>1, <1>2, <1>3, BeginningIs
  <1>5. Len(a) \in Nat \ {0}
    BY <1>3, ConstantsOK DEF Least
  <1>6. \A k \in 1 .. Len(a) : Place(a[k]) = Place(b[k])
    <2> SUFFICES ASSUME NEW k \in 1 .. Len(a) PROVE Place(a[k]) = Place(b[k])
      OBVIOUS
    <2>1. k = 1 \/ k \in 2 .. Len(a)
      BY <1>5
    <2>2. CASE k = 1
      BY <1>3, <2>2
    <2>3. CASE k \in 2 .. Len(a)
      <3>1. Place(a[k]) = [part |-> "block", of |-> p, n |-> k - 1]
        <4>1. CASE k - 1 <= x
          <5>1. a[k] = [part |-> "block", of |-> p, n |-> k - 1]
            BY <1>4, <2>3, <4>1
          <5> QED  BY <5>1 DEF Place
        <4>2. CASE ~(k - 1 <= x)
          <5>1. a[k] = [part |-> "zeros", of |-> p, n |-> k - 1]
            BY <1>4, <2>3, <4>2
          <5> QED  BY <5>1 DEF Place
        <4> QED  BY <4>1, <4>2
      <3>2. Place(b[k]) = [part |-> "block", of |-> p, n |-> k - 1]
        <4>1. CASE k - 1 <= y
          <5>1. b[k] = [part |-> "block", of |-> p, n |-> k - 1]
            BY <1>4, <2>3, <4>1
          <5> QED  BY <5>1 DEF Place
        <4>2. CASE ~(k - 1 <= y)
          <5>1. b[k] = [part |-> "zeros", of |-> p, n |-> k - 1]
            BY <1>4, <2>3, <4>2
          <5> QED  BY <5>1 DEF Place
        <4> QED  BY <4>1, <4>2
      <3> QED  BY <3>1, <3>2
    <2> QED  BY <2>1, <2>2, <2>3
  <1>7. a # <<>>
    BY <1>5
  <1> QED  BY <1>3, <1>6, <1>7, SamePlaces

\* Same places, same places later on.
LEMMA PlacesLater ==
  ASSUME NEW a \in Seq(Part), NEW b \in Seq(Part), NEW t \in Nat, Places(a) = Places(b)
  PROVE  Places(SubSeq(a, t + 1, Len(a))) = Places(SubSeq(b, t + 1, Len(b)))
  <1> DEFINE x == SubSeq(a, t + 1, Len(a))
             y == SubSeq(b, t + 1, Len(b))
  <1>1. Len(a) = Len(b) /\ \A k \in 1 .. Len(a) : Place(a[k]) = Place(b[k])
    BY SamePlaces
  <1>2. x \in Seq(Part) /\ y \in Seq(Part) /\ Len(a) \in Nat
    BY SubSeqIn
  <1>3. CASE t > Len(a)
    <2>1. x = <<>> /\ y = <<>>
      BY <1>1, <1>3, SubSeqIn
    <2> QED  BY <2>1
  <1>4. CASE t <= Len(a)
    <2>1. Len(x) = Len(a) - t /\ Len(y) = Len(a) - t
      BY <1>1, <1>4, SubSeqIn
    <2>2. \A k \in 1 .. Len(a) - t : t + k \in 1 .. Len(a) /\ x[k] = a[t + k] /\ y[k] = b[t + k]
      BY <1>1, <1>2, <1>4
    <2> HIDE DEF x, y
    <2>3. \A k \in 1 .. Len(x) : Place(x[k]) = Place(y[k])
      BY <1>1, <2>1, <2>2
    <2>4. Places(x) = Places(y)
      BY <1>2, <2>1, <2>3, SamePlaces
    <2> QED  BY <2>4 DEF x, y
  <1> QED  BY <1>2, <1>3, <1>4

\* Same places, also after something.
LEMMA PlacesAfter ==
  ASSUME NEW c \in Seq(Part), NEW a \in Seq(Part), NEW b \in Seq(Part),
         Places(a) = Places(b)
  PROVE  Places(c \o a) = Places(c \o b)
  <1>1. Len(a) = Len(b) /\ \A k \in 1 .. Len(a) : Place(a[k]) = Place(b[k])
    BY SamePlaces
  <1>2. /\ c \o a \in Seq(Part) /\ Len(c \o a) = Len(c) + Len(a)
        /\ \A i \in 1 .. Len(c) + Len(a) :
              (c \o a)[i] = IF i <= Len(c) THEN c[i] ELSE a[i - Len(c)]
    BY ConcatProperties
  <1>3. /\ c \o b \in Seq(Part) /\ Len(c \o b) = Len(c) + Len(a)
        /\ \A i \in 1 .. Len(c) + Len(a) :
              (c \o b)[i] = IF i <= Len(c) THEN c[i] ELSE b[i - Len(c)]
    BY <1>1, ConcatProperties
  <1>4. ASSUME NEW i \in 1 .. Len(c) + Len(a)
        PROVE  Place((c \o a)[i]) = Place((c \o b)[i])
    <2>1. Len(c) \in Nat /\ Len(a) \in Nat
      OBVIOUS
    <2>2. CASE i <= Len(c)
      BY <1>2, <1>3, <2>2
    <2>3. CASE ~(i <= Len(c))
      <3>1. i - Len(c) \in 1 .. Len(a)
        BY <2>1, <2>3
      <3> QED  BY <1>1, <1>2, <1>3, <2>3, <3>1
    <2> QED  BY <2>2, <2>3
  <1> QED  BY <1>2, <1>3, <1>4, SamePlaces

-----------------------------------------------------------------------------
\* What a step leaves alone.

Kept(s) ==
    /\ session'[s] = session[s]
    /\ response'[s] = response[s]
    /\ delivered'[s] = delivered[s]

\* Connections only break, and what is stored for a file is its beginning.
SharedGrows ==
    /\ broken \subseteq broken'
    /\ \A p \in Files : cache_'[p] = cache_[p] \/ Begins(cache_'[p], p)

LEMMA WaitingKept ==
  ASSUME NEW s \in Sessions, Kept(s), SharedGrows, Waiting(s)
  PROVE  Waiting(s)'
  BY DEF Kept, SharedGrows, Waiting, Untouched, Continues

LEMMA FrontIn ==
  ASSUME TypeOK, NEW d \in Dispatchers, queue[d] # <<>>
  PROVE  /\ 1 \in DOMAIN queue[d]
         /\ Current(d) = queue[d][1]
         /\ Current(d) \in Sessions
         /\ queue[d] \in Seq(Sessions)
  BY DEF TypeOK, Current

\* A dispatcher whose sessions are kept, and which does not move unless into
\* undefined behaviour.
LEMMA Elsewhere ==
  ASSUME TypeOK, NEW e \in Dispatchers, QueueInv(e), FrontInv(e), SharedGrows,
         queue'[e] = queue[e], total_bytes'[e] = total_bytes[e],
         pc'[e] = pc[e] \/ (pc[e] # "idle" /\ pc'[e] = "undefined"),
         \A i \in DOMAIN queue[e] : Kept(queue[e][i])
  PROVE  QueueInv(e)' /\ FrontInv(e)'
  <1>1. queue[e] \in Seq(Sessions)
    BY DEF TypeOK
  <1>2. QueueInv(e)'
    <2> SUFFICES ASSUME NEW i \in DOMAIN queue[e]
                 PROVE  /\ session'[queue[e][i]].path \in Paths
                        /\ i # 1 \/ pc'[e] = "idle" => Waiting(queue[e][i])'
      BY DEF QueueInv
    <2>1. queue[e][i] \in Sessions /\ Kept(queue[e][i])
      BY <1>1
    <2>2. i # 1 \/ pc'[e] = "idle" => Waiting(queue[e][i])
      BY DEF QueueInv
    <2> QED  BY <2>1, <2>2, WaitingKept DEF QueueInv, Kept
  <1>3. FrontInv(e)'
    <2>1. CASE queue[e] = <<>>
      BY <2>1 DEF FrontInv
    <2>2. CASE queue[e] # <<>>
      <3> DEFINE s == Current(e)
      <3>1. s \in Sessions /\ Kept(s) /\ s = Current(e)'
        BY <2>2, FrontIn DEF Current
      <3>2. /\ Untouched(s) => Untouched(s)'
            /\ Composing(s) => Composing(s)'
            /\ Storing(s) => Storing(s)'
        BY <3>1 DEF Kept, SharedGrows, Untouched, Composing, Storing, Continues
      <3>3. SendingTo(s, Unsent(e)) => SendingTo(s, Unsent(e))'
        <4> SUFFICES ASSUME SendingTo(s, Unsent(e))
                     PROVE  SendingTo(s, Unsent(e))'
          OBVIOUS
        <4>1. CASE session[s].is_cached /\ session[s].path \in Files
          <5> DEFINE p == session[s].path
                     t == total_bytes[e]
          <5>1. Begins(cache_[p], p) /\ Begins(cache_'[p], p) /\ p \in Files
            BY <4>1 DEF SendingTo, SharedGrows
          <5>2. /\ cache_[p] \in Seq(Part) /\ cache_'[p] \in Seq(Part)
                /\ Places(cache_[p]) = Places(cache_'[p])
            BY <5>1, BeginningsAgree
          <5>3. t \in Nat /\ delivered[s] \in Seq(Part)
            BY <3>1 DEF TypeOK
          <5>4. /\ Unsent(e) = SubSeq(cache_[p], t + 1, Len(cache_[p]))
                /\ Unsent(e)' = SubSeq(cache_'[p], t + 1, Len(cache_'[p]))
            BY <3>1, <4>1 DEF Unsent, ResponseData, CurrentSession, Kept
          <5>5. Places(delivered[s] \o Unsent(e)) = Places(delivered[s] \o Unsent(e)')
            <6>1. Places(Unsent(e)) = Places(Unsent(e)')
              BY <5>2, <5>3, <5>4, PlacesLater
            <6>2. Unsent(e) \in Seq(Part) /\ Unsent(e)' \in Seq(Part)
              BY <5>2, <5>3, <5>4, SubSeqIn
            <6> QED  BY <5>3, <6>1, <6>2, PlacesAfter
          <5>6. FillsPlaces(s, Unsent(e)) => FillsPlaces(s, Unsent(e))'
            BY <3>1, <5>5 DEF FillsPlaces, SharedGrows, Kept
          <5> QED  BY <3>1, <4>1, <5>1, <5>6 DEF SendingTo, Kept
        <4>2. CASE session[s].is_cached /\ session[s].path \notin Files
          BY <3>1, <4>2 DEF SendingTo, Kept
        <4>3. CASE ~session[s].is_cached
          <5>1. Unsent(e)' = Unsent(e)
            BY <3>1, <4>3 DEF Unsent, ResponseData, CurrentSession, Kept
          <5> QED  BY <3>1, <4>3, <5>1 DEF SendingTo, Kept, Continues, SharedGrows
        <4> QED  BY <4>1, <4>2, <4>3
      <3>4. CurrentSession(e)' = CurrentSession(e)
        BY <3>1 DEF CurrentSession, Kept
      <3> HIDE DEF s
      <3> QED  BY <2>2, <3>1, <3>2, <3>3, <3>4 DEF FrontInv, s
    <2> QED  BY <2>1, <2>2
  <1> QED  BY <1>2, <1>3

\* A step of dispatcher d on a session s of its queue.
LEMMA TurnStep ==
  ASSUME DispatchInv, TypeOK', NEW d \in Dispatchers, NEW s \in Sessions,
         \E i \in DOMAIN queue[d] : queue[d][i] = s,
         \A t \in Sessions \ {s} : Kept(t) /\ (Queued(t)' <=> Queued(t)),
         session'[s].path = session[s].path,
         SharedGrows,
         \A e \in Dispatchers \ {d} :
            queue'[e] = queue[e] /\ pc'[e] = pc[e] /\ total_bytes'[e] = total_bytes[e],
         OneQueueEach', QueueInv(d)', FrontInv(d)',
         Finished(s)' /\ ~session'[s].is_cached /\ s \notin broken'
            => delivered'[s] = response'[s]
  PROVE  DispatchInv'
  <1> USE DEF DispatchInv
  <1>1. \A e \in Dispatchers : QueueInv(e)' /\ FrontInv(e)'
    <2> SUFFICES ASSUME NEW e \in Dispatchers, e # d
                 PROVE  QueueInv(e)' /\ FrontInv(e)'
      OBVIOUS
    <2>1. \A i \in DOMAIN queue[e] : queue[e][i] \in Sessions \ {s}
      BY DEF OneQueueEach, TypeOK
    <2>2. \A i \in DOMAIN queue[e] : Kept(queue[e][i])
      BY <2>1
    <2> QED  BY <2>2, Elsewhere
  <1>2. CacheInv'
    BY DEF CacheInv, SharedGrows
  <1>3. session[s].path # NoPath
    BY ConstantsOK DEF QueueInv
  <1>4. NewInv'
    BY <1>3 DEF NewInv, Kept, Untouched
  <1>5. UncachedIsDeliveredWhole'
    <2> SUFFICES ASSUME NEW t \in Sessions, Finished(t)', ~session'[t].is_cached,
                        t \notin broken'
                 PROVE  delivered'[t] = response'[t]
      BY DEF UncachedIsDeliveredWhole
    <2>1. CASE t # s
      <3>1. Finished(t) /\ ~session[t].is_cached /\ t \notin broken
        BY <2>1 DEF Finished, Kept, SharedGrows
      <3> QED  BY <2>1, <3>1 DEF UncachedIsDeliveredWhole, Kept
    <2> QED  BY <2>1
  <1> QED  BY <1>1, <1>2, <1>4, <1>5

\* A step of dispatcher d within its iteration, on the session at the front.
LEMMA FrontStep ==
  ASSUME DispatchInv, TypeOK', NEW d \in Dispatchers,
         pc[d] # "idle", pc'[d] # "idle", queue' = queue,
         \A t \in Sessions \ {Current(d)} : Kept(t),
         session'[Current(d)].path = CurrentSession(d).path,
         SharedGrows,
         \A e \in Dispatchers \ {d} : pc'[e] = pc[e] /\ total_bytes'[e] = total_bytes[e],
         FrontInv(d)'
  PROVE  DispatchInv'
  <1> USE DEF DispatchInv
  <1>1. queue[d] # <<>>
    BY DEF FrontInv
  <1>2. PICK s \in Sessions : s = Current(d)
    BY <1>1, FrontIn
  <1>3. 1 \in DOMAIN queue[d] /\ s = queue[d][1] /\ queue[d] \in Seq(Sessions)
    BY <1>2, <1>1, FrontIn
  <1>4. \A t \in Sessions : Queued(t)' <=> Queued(t)
    BY DEF Queued
  <1>5. Queued(s)'
    BY <1>3 DEF Queued
  <1>6. OneQueueEach'
    BY DEF OneQueueEach
  <1>7. QueueInv(d)'
    <2> SUFFICES ASSUME NEW i \in DOMAIN queue[d]
                 PROVE  /\ session'[queue[d][i]].path \in Paths
                        /\ i # 1 => Waiting(queue[d][i])'
      BY DEF QueueInv
    <2>1. queue[d][i] \in Sessions
      BY <1>3
    <2>2. i # 1 => queue[d][i] # s
      BY <1>3 DEF OneQueueEach
    <2>3. session[queue[d][i]].path \in Paths /\ (i # 1 => Waiting(queue[d][i]))
      BY DEF QueueInv
    <2>4. session'[queue[d][i]].path = session[queue[d][i]].path
      BY <1>2, <1>3, <2>1 DEF Kept, CurrentSession
    <2>5. i # 1 => Waiting(queue[d][i])'
      BY <1>2, <2>1, <2>2, <2>3, WaitingKept
    <2> QED  BY <2>3, <2>4, <2>5
  <1>8. Finished(s)' => FALSE
    BY <1>5 DEF Finished
  <1> QED
    <2>1. \E i \in DOMAIN queue[d] : queue[d][i] = s
      BY <1>3
    <2>2. \A t \in Sessions \ {s} : Kept(t) /\ (Queued(t)' <=> Queued(t))
      BY <1>2, <1>4
    <2>3. session'[s].path = session[s].path
      BY <1>2 DEF CurrentSession
    <2> QED
      BY <1>6, <1>7, <1>8, <2>1, <2>2, <2>3, TurnStep

-----------------------------------------------------------------------------
\* What a dispatcher composes.

SessionRecord ==
    [path : Paths \cup {NoPath}, ewouldblock_flag : BOOLEAN,
     is_cached : BOOLEAN, send_message : Seq(Part),
     send_message_has_more_bytes : BOOLEAN,
     send_message_index : Nat, send_message_header_size : 0 .. 1]

\* Session c with response m, that begins with a header.
Responding(c, m, more) ==
    [path |-> c.path, ewouldblock_flag |-> c.ewouldblock_flag,
     is_cached |-> c.is_cached, send_message |-> m,
     send_message_has_more_bytes |-> more,
     send_message_index |-> c.send_message_index, send_message_header_size |-> 1]

LEMMA RespondingIn ==
  ASSUME NEW c \in SessionRecord, NEW m \in Seq(Part), NEW more \in BOOLEAN
  PROVE  Responding(c, m, more) \in SessionRecord
  BY DEF SessionRecord, Responding

LEMMA ListingComposed ==
  ASSUME NEW c \in SessionRecord, NEW body \in Seq(Part)
  PROVE  \E m \in Seq(Part) :
            /\ m # <<>>
            /\ Composed(c, TRUE, body, 0) = Responding(c, m, c.send_message_has_more_bytes)
            /\ Responding(c, m, c.send_message_has_more_bytes) \in SessionRecord
  <1> DEFINE m == Header(Len(body) + 0) \o body
  <1>1. Len(body) + 0 \in Nat
    OBVIOUS
  <1>2. m \in Seq(Part) /\ Len(m) = 1 + Len(body)
    <2> DEFINE h == Header(Len(body) + 0)
    <2>1. h \in Seq(Part) /\ Len(h) = 1
      BY <1>1, HeaderIn
    <2> HIDE DEF h
    <2> QED  BY <2>1, ConcatProperties DEF h
  <1>3. m # <<>>
    BY <1>2
  <1>4. Composed(c, TRUE, body, 0) = Responding(c, m, c.send_message_has_more_bytes)
    <2>1. Composed(c, TRUE, body, 0) =
             [c EXCEPT !.send_message = m, !.send_message_header_size = 1]
      BY DEF Composed
    <2> HIDE DEF m
    <2> QED  BY <2>1 DEF SessionRecord, Responding
  <1>5. c.send_message_has_more_bytes \in BOOLEAN
    BY DEF SessionRecord
  <1> HIDE DEF m
  <1>6. Responding(c, m, c.send_message_has_more_bytes) \in SessionRecord
    BY <1>2, <1>5, RespondingIn, Zenon
  <1> QED  BY <1>2, <1>3, <1>4, <1>6

\* The first chunk of a file, and the header with the size of the whole file.
LEMMA FileComposed ==
  ASSUME NEW c \in SessionRecord, c.path \in Files, ~c.send_message_has_more_bytes,
         c.send_message_index = 0, c.send_message_header_size = 0,
         NEW got \in 0 .. FILE_CHUNK
  PROVE  \E more \in BOOLEAN :
            /\ WithFile(c, got) = Responding(c, Beginning(c.path, got), more)
            /\ Responding(c, Beginning(c.path, got), more) \in SessionRecord
  <1> DEFINE size == FileSize[c.path]
             more == size > FILE_CHUNK
             body == [k \in 1 .. Least(size, FILE_CHUNK) |->
                        [part |-> IF k <= got THEN "block" ELSE "zeros",
                         of |-> c.path, n |-> k]]
             read == [k \in 1 .. (IF size - 0 > FILE_CHUNK THEN FILE_CHUNK ELSE size - 0) |->
                        [part |-> IF k <= got THEN "block" ELSE "zeros",
                         of |-> c.path, n |-> 0 + k]]
  <1>1. size \in Nat /\ FILE_CHUNK \in Nat \ {0} /\ c.path \in Paths
    BY ConstantsOK DEF Paths
  <1>2. Least(size, FILE_CHUNK) \in Nat
    BY <1>1 DEF Least
  <1>3. body \in Seq(Part) /\ Len(body) = Least(size, FILE_CHUNK)
    <2>1. body \in [1 .. Least(size, FILE_CHUNK) -> Part]
      BY <1>1, <1>2 DEF Part
    <2> HIDE DEF body
    <2> QED  BY <1>2, <2>1
  <1>4. read = body
    <2>1. (IF size - 0 > FILE_CHUNK THEN FILE_CHUNK ELSE size - 0) = Least(size, FILE_CHUNK)
      BY <1>1 DEF Least
    <2>2. \A k \in 1 .. Least(size, FILE_CHUNK) : 0 + k = k
      BY <1>2
    <2> QED  BY <2>1, <2>2
  <1>5. Len(body) + Pending(c.path, size - 0) = size
    BY <1>1, <1>3 DEF Pending, Least
  <1>6. Beginning(c.path, got) = Header(size) \o body
    BY DEF Beginning
  <1>7. WithFile(c, got) = Responding(c, Beginning(c.path, got), more)
    <2>1. 0 - 0 = 0 /\ size - 0 = size
      BY <1>1
    <2>2. WithFile(c, got) =
            [Composed(c, TRUE, read, Pending(c.path, size - 0))
               EXCEPT !.send_message_has_more_bytes = size - 0 > FILE_CHUNK]
      BY <2>1 DEF WithFile
    <2>3. Composed(c, TRUE, body, Pending(c.path, size - 0)) =
            [c EXCEPT !.send_message = Beginning(c.path, got), !.send_message_header_size = 1]
      BY <1>5, <1>6 DEF Composed
    <2>4. more \in BOOLEAN /\ (size - 0 > FILE_CHUNK) = more
      BY <1>1, <2>1
    <2> HIDE DEF read, body, more, size
    <2>5. WithFile(c, got) =
            [[c EXCEPT !.send_message = Beginning(c.path, got), !.send_message_header_size = 1]
               EXCEPT !.send_message_has_more_bytes = more]
      BY <1>4, <2>2, <2>3, <2>4
    <2> QED  BY <2>4, <2>5 DEF SessionRecord, Responding
  <1>8. Beginning(c.path, got) \in Seq(Part)
    BY BeginningIs
  <1>9. more \in BOOLEAN
    BY <1>1
  <1> HIDE DEF more, body, read, size
  <1>10. Responding(c, Beginning(c.path, got), more) \in SessionRecord
    BY <1>8, <1>9, RespondingIn, Zenon
  <1> QED  BY <1>7, <1>9, <1>10, Zenon

-----------------------------------------------------------------------------
\* The steps of a dispatcher within its iteration.

LEMMA AtFront ==
  ASSUME DispatchInv, NEW d \in Dispatchers, pc[d] # "idle"
  PROVE  \E s \in Sessions :
            /\ s = Current(d)
            /\ session[s] = CurrentSession(d)
            /\ session[s] \in SessionRecord
            /\ session[s].path \in Paths
  <1>1. queue[d] # <<>>
    BY DEF DispatchInv, FrontInv
  <1>2. 1 \in DOMAIN queue[d] /\ Current(d) = queue[d][1] /\ Current(d) \in Sessions
    BY <1>1, FrontIn DEF DispatchInv
  <1>3. session[Current(d)] \in SessionRecord
    BY <1>2 DEF DispatchInv, TypeOK, SessionRecord
  <1>4. session[Current(d)].path \in Paths
    BY <1>2 DEF DispatchInv, QueueInv
  <1> QED  BY <1>2, <1>3, <1>4 DEF CurrentSession

LEMMA FindCachedStep ==
  ASSUME DispatchInv, NEW d \in Dispatchers, FindCached(d)
  PROVE  DispatchInv'
  <1>1. PICK s \in Sessions :
           /\ s = Current(d)
           /\ session[s] = CurrentSession(d)
           /\ session[s] \in SessionRecord
           /\ session[s].path \in Paths
    BY AtFront DEF FindCached
  <1> DEFINE r == cache_[session[s].path]
  <1>2. /\ pc[d] = "find" /\ pc' = [pc EXCEPT ![d] = "send"]
        /\ session' = [session EXCEPT ![s].is_cached = TRUE]
        /\ response' = [response EXCEPT ![s] = r]
        /\ r # <<>>
        /\ queue' = queue /\ draft' = draft /\ total_bytes' = total_bytes
        /\ cache_' = cache_ /\ cwd' = cwd
        /\ broken' = broken /\ reused' = reused /\ delivered' = delivered
    BY <1>1 DEF FindCached, sharedVars, socketVars
  <1>3. TypeOK
    BY DEF DispatchInv
  <1>4. Untouched(s) /\ session[s].path \in Files /\ total_bytes[d] = 0
    BY <1>1, <1>2 DEF DispatchInv, FrontInv
  <1>5. Begins(r, session[s].path) /\ r \in Seq(Part)
    BY <1>1, <1>2, <1>3, <1>4 DEF DispatchInv, CacheInv, TypeOK
  <1>6. session' \in [Sessions -> SessionRecord]
    BY <1>1, <1>2, <1>3 DEF TypeOK, SessionRecord
  <1>7. TypeOK'
    BY <1>2, <1>3, <1>5, <1>6 DEF TypeOK, SessionRecord
  <1>8. /\ session'[s].path = session[s].path
        /\ session'[s].is_cached
        /\ ~session'[s].ewouldblock_flag
        /\ response'[s] = r /\ delivered'[s] = <<>>
    BY <1>1, <1>2, <1>3, <1>4 DEF TypeOK, SessionRecord, Untouched
  <1>9. \A t \in Sessions \ {s} : Kept(t)
    BY <1>2, <1>3 DEF Kept, TypeOK
  <1>10. Current(d)' = s /\ CurrentSession(d)' = session'[s]
    BY <1>1, <1>2 DEF Current, CurrentSession
  <1>11. Unsent(d)' = r
    <2>1. Unsent(d)' = SubSeq(r, 0 + 1, Len(r))
      BY <1>2, <1>4, <1>8, <1>10 DEF Unsent, ResponseData
    <2> QED  BY <2>1, <1>5, SubSeqIn
  <1>12. SendingTo(s, r)'
    BY <1>2, <1>4, <1>5, <1>8, ConcatEmptySeq DEF SendingTo, FillsPlaces
  <1>13. FrontInv(d)'
    BY <1>2, <1>3, <1>10, <1>11, <1>12 DEF FrontInv, TypeOK, DispatchInv
  <1>14. SharedGrows
    BY <1>2 DEF SharedGrows
  <1>15. pc'[d] # "idle" /\ \A e \in Dispatchers \ {d} : pc'[e] = pc[e]
    BY <1>2, <1>3 DEF TypeOK
  <1> QED
    BY <1>1, <1>2, <1>7, <1>8, <1>9, <1>13, <1>14, <1>15, FrontStep

LEMMA ReadFileStep ==
  ASSUME DispatchInv, NEW d \in Dispatchers, NEW got \in 0 .. FILE_CHUNK, ReadFile(d, got)
  PROVE  DispatchInv'
  <1>1. PICK s \in Sessions :
           /\ s = Current(d)
           /\ session[s] = CurrentSession(d)
           /\ session[s] \in SessionRecord
           /\ session[s].path \in Paths
    BY AtFront DEF ReadFile
  <1> DEFINE c == WithFile(session[s], got)
             b == Beginning(session[s].path, got)
  <1>2. /\ pc[d] = "find" /\ pc' = [pc EXCEPT ![d] = "store"]
        /\ session' = [session EXCEPT ![s] = c]
        /\ response' = [response EXCEPT ![s] = c.send_message]
        /\ queue' = queue /\ draft' = draft /\ total_bytes' = total_bytes
        /\ cache_' = cache_ /\ cwd' = cwd
        /\ broken' = broken /\ reused' = reused /\ delivered' = delivered
    BY <1>1 DEF ReadFile, sharedVars, socketVars
  <1>3. TypeOK
    BY DEF DispatchInv
  <1>4. Untouched(s) /\ session[s].path \in Files /\ total_bytes[d] = 0
    BY <1>1, <1>2 DEF DispatchInv, FrontInv
  <1>5. PICK more \in BOOLEAN :
           c = Responding(session[s], b, more) /\ Responding(session[s], b, more) \in SessionRecord
    BY <1>1, <1>4, FileComposed DEF Untouched
  <1>6. c \in SessionRecord /\ c.send_message = b
    BY <1>5 DEF Responding
  <1>7. c.path = session[s].path /\ ~c.is_cached /\ ~c.ewouldblock_flag
    BY <1>4, <1>5 DEF Responding, Untouched
  <1> HIDE DEF c, b
  <1>8. session' \in [Sessions -> SessionRecord] /\ c.send_message \in Seq(Part)
    BY <1>2, <1>3, <1>6 DEF TypeOK, SessionRecord
  <1>9. TypeOK'
    BY <1>2, <1>3, <1>8 DEF TypeOK, SessionRecord
  <1>10. session'[s] = c /\ response'[s] = b /\ delivered'[s] = <<>>
    BY <1>2, <1>3, <1>4, <1>6 DEF TypeOK, Untouched
  <1>11. \A t \in Sessions \ {s} : Kept(t)
    BY <1>2, <1>3 DEF Kept, TypeOK
  <1>12. Current(d)' = s
    BY <1>1, <1>2 DEF Current
  <1>13. Storing(s)'
    BY <1>4, <1>6, <1>7, <1>10 DEF Storing, Begins, b
  <1>14. FrontInv(d)'
    BY <1>2, <1>3, <1>4, <1>12, <1>13 DEF FrontInv, TypeOK, DispatchInv
  <1>15. SharedGrows
    BY <1>2 DEF SharedGrows
  <1>16. pc'[d] # "idle" /\ \A e \in Dispatchers \ {d} : pc'[e] = pc[e]
    BY <1>2, <1>3 DEF TypeOK
  <1> QED
    BY <1>1, <1>2, <1>7, <1>9, <1>10, <1>11, <1>14, <1>15, <1>16, FrontStep

\* The steps that gather a listing change the working directory or the draft,
\* and no session.
LEMMA ListingStep ==
  ASSUME DispatchInv, NEW d \in Dispatchers,
         SetCurrent(d) \/ ListNames(d) \/ ListLinks(d)
  PROVE  DispatchInv'
  <1>1. TypeOK
    BY DEF DispatchInv
  <1>2. /\ pc[d] \in {"chdir", "names", "links"}
        /\ \E next \in {"names", "links", "heading"} : pc' = [pc EXCEPT ![d] = next]
        /\ session' = session /\ response' = response /\ delivered' = delivered
        /\ queue' = queue /\ total_bytes' = total_bytes
        /\ cache_' = cache_ /\ broken' = broken /\ reused' = reused
    BY DEF SetCurrent, ListNames, ListLinks, ReadDirectory, sharedVars, socketVars
  <1>3. cwd' \in Dirs
    BY <1>1 DEF SetCurrent, ListNames, ListLinks, ReadDirectory, sharedVars, TypeOK,
                CwdAfter
  <1>4. draft' \in [Dispatchers -> Seq(Part)]
    <2>1. CASE SetCurrent(d)
      BY <1>1, <2>1 DEF SetCurrent, TypeOK
    <2>2. ASSUME NEW n \in Nat, NEW part \in {"names", "links"}, NEW next,
                 ReadDirectory(d, part, n, next)
          PROVE  draft' \in [Dispatchers -> Seq(Part)]
      <3>1. [part |-> part, of |-> cwd, n |-> n] \in Part
        BY <1>1 DEF TypeOK, Part, Paths
      <3> QED  BY <1>1, <2>2, <3>1 DEF ReadDirectory, TypeOK
    <2>3. CASE ListNames(d)
      BY <2>2, <2>3 DEF ListNames
    <2>4. CASE ListLinks(d)
      BY <2>2, <2>4 DEF ListLinks
    <2> QED  BY <2>1, <2>3, <2>4
  <1>5. pc' \in [Dispatchers -> {"idle", "find", "chdir", "names", "links",
                                 "heading", "store", "send", "undefined"}]
    BY <1>1, <1>2 DEF TypeOK
  <1>6. TypeOK'
    BY <1>1, <1>2, <1>3, <1>4, <1>5 DEF TypeOK
  <1>7. /\ pc'[d] \in {"names", "links", "heading"}
        /\ \A e \in Dispatchers \ {d} : pc'[e] = pc[e]
    BY <1>1, <1>2 DEF TypeOK
  <1>8. queue[d] # <<>> /\ Composing(Current(d)) /\ total_bytes[d] = 0
    BY <1>2 DEF DispatchInv, FrontInv
  <1>9. Current(d)' = Current(d) /\ CurrentSession(d)' = CurrentSession(d)
    BY <1>2 DEF Current, CurrentSession
  <1>10. Composing(Current(d))'
    BY <1>2, <1>8, <1>9 DEF Composing, Untouched
  <1>11. FrontInv(d)'
    BY <1>2, <1>7, <1>8, <1>10 DEF FrontInv
  <1>12. SharedGrows /\ \A t \in Sessions : Kept(t)
    BY <1>2 DEF SharedGrows, Kept
  <1> QED
    BY <1>2, <1>6, <1>7, <1>9, <1>11, <1>12, FrontStep DEF CurrentSession

LEMMA ListHeadingStep ==
  ASSUME DispatchInv, NEW d \in Dispatchers, ListHeading(d)
  PROVE  DispatchInv'
  <1>1. PICK s \in Sessions :
           /\ s = Current(d)
           /\ session[s] = CurrentSession(d)
           /\ session[s] \in SessionRecord
           /\ session[s].path \in Paths
    BY AtFront DEF ListHeading
  <1> DEFINE body == <<[part |-> "heading", of |-> cwd, n |-> 0]>> \o draft[d]
             c == Composed(session[s], TRUE, body, 0)
  <1>2. /\ pc[d] = "heading"
        /\ \E next \in {"store", "send"} : pc' = [pc EXCEPT ![d] = next]
        /\ session' = [session EXCEPT ![s] = c]
        /\ response' = [response EXCEPT ![s] = c.send_message]
        /\ draft' = [draft EXCEPT ![d] = <<>>]
        /\ queue' = queue /\ total_bytes' = total_bytes
        /\ cache_' = cache_ /\ cwd' = cwd
        /\ broken' = broken /\ reused' = reused /\ delivered' = delivered
    BY <1>1 DEF ListHeading, sharedVars, socketVars
  <1>3. TypeOK
    BY DEF DispatchInv
  <1>4. Composing(s) /\ total_bytes[d] = 0 /\ queue[d] # <<>>
    BY <1>1, <1>2 DEF DispatchInv, FrontInv
  <1>5. body \in Seq(Part)
    <2> DEFINE h == <<[part |-> "heading", of |-> cwd, n |-> 0]>>
    <2>1. [part |-> "heading", of |-> cwd, n |-> 0] \in Part
      BY <1>3 DEF TypeOK, Part, Paths
    <2>2. h \in Seq(Part)
      BY <2>1
    <2>3. draft[d] \in Seq(Part)
      BY <1>3 DEF TypeOK
    <2> HIDE DEF h
    <2> QED  BY <2>2, <2>3, ConcatProperties DEF h
  <1>6. PICK m \in Seq(Part) :
           /\ m # <<>>
           /\ c = Responding(session[s], m, session[s].send_message_has_more_bytes)
           /\ Responding(session[s], m, session[s].send_message_has_more_bytes) \in SessionRecord
    BY <1>1, <1>5, ListingComposed
  <1> HIDE DEF c, body
  <1>7. c \in SessionRecord /\ c.send_message = m /\ c.path = session[s].path
    BY <1>6 DEF Responding
  <1>8. ~c.is_cached /\ ~c.ewouldblock_flag /\ ~c.send_message_has_more_bytes
    BY <1>4, <1>6 DEF Responding, Composing
  <1>9. session' \in [Sessions -> SessionRecord]
    BY <1>2, <1>3, <1>7 DEF TypeOK, SessionRecord
  <1>10. TypeOK'
    BY <1>2, <1>3, <1>7, <1>9 DEF TypeOK, SessionRecord
  <1>11. session'[s] = c /\ response'[s] = m /\ delivered'[s] = delivered[s]
    BY <1>2, <1>3, <1>7 DEF TypeOK
  <1>12. \A t \in Sessions \ {s} : Kept(t)
    BY <1>2, <1>3 DEF Kept, TypeOK
  <1>13. Current(d)' = s /\ CurrentSession(d)' = c
    BY <1>1, <1>2, <1>11 DEF Current, CurrentSession
  <1>14. Continues(s, m)'
    <2>1. CASE Untouched(s)
      BY <1>11, <2>1, ConcatEmptySeq DEF Continues, Untouched
    <2>2. CASE s \in broken
      BY <1>2, <1>6, <2>2 DEF Continues
    <2> QED  BY <1>4, <2>1, <2>2 DEF Composing
  <1>15. Storing(s)'
    BY <1>4, <1>7, <1>8, <1>11, <1>14 DEF Storing, Composing
  <1>16. Unsent(d)' = m
    <2>1. Unsent(d)' = SubSeq(m, 0 + 1, Len(m))
      BY <1>2, <1>4, <1>7, <1>8, <1>13 DEF Unsent, ResponseData
    <2> QED  BY <2>1, SubSeqIn
  <1>17. SendingTo(s, m)'
    BY <1>4, <1>7, <1>8, <1>11, <1>14 DEF SendingTo, Composing
  <1>18. pc'[d] \in {"store", "send"} /\ \A e \in Dispatchers \ {d} : pc'[e] = pc[e]
    BY <1>2, <1>3 DEF TypeOK
  <1>19. FrontInv(d)'
    BY <1>2, <1>4, <1>13, <1>15, <1>16, <1>17, <1>18 DEF FrontInv
  <1>20. SharedGrows
    BY <1>2 DEF SharedGrows
  <1> QED
    BY <1>1, <1>2, <1>7, <1>10, <1>11, <1>12, <1>18, <1>19, <1>20, FrontStep

LEMMA RecordMoved ==
  ASSUME NEW c \in SessionRecord, NEW m \in Seq(Part), NEW cached \in BOOLEAN
  PROVE  LET moved == [c EXCEPT !.send_message = m, !.is_cached = cached]
         IN  /\ moved \in SessionRecord
             /\ moved.path = c.path
             /\ moved.is_cached = cached
             /\ moved.ewouldblock_flag = c.ewouldblock_flag
  <1> DEFINE moved == [c EXCEPT !.send_message = m, !.is_cached = cached]
             c1 == [c EXCEPT !.send_message = m]
  <1>1. c1 \in SessionRecord /\ moved = [c1 EXCEPT !.is_cached = cached]
    <2>1. c1 = [path |-> c.path, ewouldblock_flag |-> c.ewouldblock_flag,
                is_cached |-> c.is_cached, send_message |-> m,
                send_message_has_more_bytes |-> c.send_message_has_more_bytes,
                send_message_index |-> c.send_message_index,
                send_message_header_size |-> c.send_message_header_size]
      BY DEF SessionRecord
    <2>2. c1 \in SessionRecord
      BY <2>1 DEF SessionRecord
    <2>3. moved = [c1 EXCEPT !.is_cached = cached]
      BY DEF SessionRecord
    <2> QED  BY <2>2, <2>3
  <1>2. moved \in SessionRecord
    <2> HIDE DEF c1
    <2> QED  BY <1>1 DEF SessionRecord
  <1>3. moved.path = c.path /\ moved.is_cached = cached
    BY DEF SessionRecord
  <1>4. moved.ewouldblock_flag = c.ewouldblock_flag
    BY DEF SessionRecord
  <1> QED  BY <1>2, <1>3, <1>4

LEMMA StoreStep ==
  ASSUME DispatchInv, NEW d \in Dispatchers, Store(d)
  PROVE  DispatchInv'
  <1>1. PICK s \in Sessions :
           /\ s = Current(d)
           /\ session[s] = CurrentSession(d)
           /\ session[s] \in SessionRecord
           /\ session[s].path \in Paths
    BY AtFront DEF Store
  <1> DEFINE p == session[s].path
             m == session[s].send_message
  <1>2. /\ pc[d] = "store" /\ pc' = [pc EXCEPT ![d] = "send"]
        /\ session' = [session EXCEPT ![s].send_message = <<>>, ![s].is_cached = TRUE]
        /\ cache_' = [cache_ EXCEPT ![p] = m]
        /\ queue' = queue /\ draft' = draft /\ total_bytes' = total_bytes
        /\ response' = response /\ cwd' = cwd
        /\ broken' = broken /\ reused' = reused /\ delivered' = delivered
    BY <1>1 DEF Store, socketVars
  <1>3. TypeOK
    BY DEF DispatchInv
  <1>4. Storing(s) /\ total_bytes[d] = 0 /\ queue[d] # <<>>
    BY <1>1, <1>2 DEF DispatchInv, FrontInv
  <1>5. m \in Seq(Part) /\ p \in Paths
    BY <1>1 DEF SessionRecord
  <1>6. /\ session' \in [Sessions -> SessionRecord]
        /\ session'[s].path = p
        /\ session'[s].is_cached
        /\ ~session'[s].ewouldblock_flag
        /\ \A t \in Sessions \ {s} : session'[t] = session[t]
    <2>1. session[s] \in SessionRecord /\ ~session[s].ewouldblock_flag
      BY <1>1, <1>4 DEF Storing
    <2> DEFINE c == [session[s] EXCEPT !.send_message = <<>>, !.is_cached = TRUE]
    <2>2. <<>> \in Seq(Part)
      OBVIOUS
    <2>3. c \in SessionRecord /\ c.path = p
      BY <2>1, <2>2, RecordMoved
    <2>4. c.is_cached /\ ~c.ewouldblock_flag
      BY <2>1, <2>2, RecordMoved
    <2>5. session' = [session EXCEPT ![s] = c]
      BY <1>2, <1>3 DEF TypeOK
    <2> HIDE DEF c
    <2>6. session \in [Sessions -> SessionRecord]
      BY <1>3 DEF TypeOK, SessionRecord
    <2> QED  BY <2>3, <2>4, <2>5, <2>6
  <1>7. TypeOK'
    BY <1>2, <1>3, <1>5, <1>6 DEF TypeOK, SessionRecord
  <1>8. \A t \in Sessions \ {s} : Kept(t)
    BY <1>2, <1>6 DEF Kept
  <1>9. Current(d)' = s /\ CurrentSession(d)' = session'[s]
    BY <1>1, <1>2 DEF Current, CurrentSession
  <1>10. cache_'[p] = m /\ \A x \in Paths : x # p => cache_'[x] = cache_[x]
    BY <1>2, <1>3, <1>5 DEF TypeOK
  <1>11. SharedGrows
    BY <1>2, <1>4, <1>10 DEF SharedGrows, Storing, Paths
  <1>12. Unsent(d)' = m
    <2>1. Unsent(d)' = SubSeq(m, 0 + 1, Len(m))
      BY <1>2, <1>4, <1>6, <1>9, <1>10 DEF Unsent, ResponseData
    <2> QED  BY <1>5, <2>1, SubSeqIn
  <1>13. ASSUME p \in Files
         PROVE  Begins(cache_'[p], p) /\ delivered'[s] \o m = response'[s]
    BY <1>2, <1>4, <1>5, <1>10, <1>13, ConcatEmptySeq DEF Storing
  <1>14. SendingTo(Current(d), Unsent(d))'
    BY <1>6, <1>9, <1>12, <1>13 DEF SendingTo, FillsPlaces
  <1>15. FrontInv(d)'
    BY <1>2, <1>3, <1>4, <1>14 DEF FrontInv, TypeOK
  <1>16. pc'[d] # "idle" /\ \A e \in Dispatchers \ {d} : pc'[e] = pc[e]
    BY <1>2, <1>3 DEF TypeOK
  <1> QED
    BY <1>1, <1>2, <1>6, <1>7, <1>8, <1>11, <1>15, <1>16, FrontStep

LEMMA Joining ==
  ASSUME NEW x \in Seq(Part), NEW y \in Seq(Part), NEW z \in Seq(Part)
  PROVE  (x \o y) \o z = x \o (y \o z)
  BY ConcatAssociative

\* What is delivered grows by what is no longer to be sent, unless that goes to a
\* stranger.
LEMMA SendStep ==
  ASSUME DispatchInv, NEW d \in Dispatchers, NEW k \in Nat, Send(d, k)
  PROVE  DispatchInv'
  <1>1. PICK s \in Sessions :
           /\ s = Current(d)
           /\ session[s] = CurrentSession(d)
           /\ session[s] \in SessionRecord
           /\ session[s].path \in Paths
    BY AtFront DEF Send
  <1> DEFINE r == ResponseData(session[s])
             t == total_bytes[d]
             u == SubSeq(r, t + 1, Len(r))
             a == SubSeq(u, 1, k)
             b == SubSeq(r, t + k + 1, Len(r))
  <1>2. Unsent(d) = u
    BY <1>1 DEF Unsent
  <1>3. /\ pc[d] = "send" /\ k \in 1 .. Len(u)
        /\ delivered' = IF s \in broken THEN delivered
                        ELSE [delivered EXCEPT ![s] = @ \o a]
        /\ total_bytes' = [total_bytes EXCEPT ![d] = t + k]
        /\ queue' = queue /\ pc' = pc /\ session' = session /\ draft' = draft
        /\ cache_' = cache_ /\ cwd' = cwd /\ response' = response
        /\ broken' = broken /\ reused' = reused
    BY <1>1, <1>2 DEF Send, sharedVars
  <1>4. TypeOK
    BY DEF DispatchInv
  <1>5. SendingTo(s, u) /\ queue[d] # <<>>
    BY <1>1, <1>2, <1>3 DEF DispatchInv, FrontInv
  <1>6. r \in Seq(Part) /\ t \in Nat /\ t + k \in Nat
    BY <1>1, <1>4 DEF ResponseData, TypeOK, SessionRecord
  <1>7. Unsent(d)' = b
    <2>1. total_bytes'[d] = t + k
      BY <1>3, <1>4 DEF TypeOK
    <2>2. ResponseData(CurrentSession(d))' = r
      BY <1>1, <1>3 DEF ResponseData, CurrentSession, Current
    <2> QED  BY <2>1, <2>2 DEF Unsent
  <1> HIDE DEF r, t
  <1>8. a \in Seq(Part) /\ a \o b = u
    BY <1>3, <1>6, Cutting
  <1>9. b \in Seq(Part) /\ delivered[s] \in Seq(Part)
    BY <1>4, <1>6, SubSeqIn DEF TypeOK
  <1> HIDE DEF u, a, b
  <1>10. delivered[s] \o a \in Seq(Part)
    BY <1>8, <1>9, ConcatProperties
  <1>11. s \notin broken => delivered'[s] \o b = delivered[s] \o u
    <2> SUFFICES ASSUME s \notin broken PROVE delivered'[s] \o b = delivered[s] \o u
      OBVIOUS
    <2>1. delivered'[s] = delivered[s] \o a
      BY <1>3, <1>4 DEF TypeOK
    <2>2. (delivered[s] \o a) \o b = delivered[s] \o (a \o b)
      BY <1>8, <1>9, Joining
    <2> QED  BY <1>8, <2>1, <2>2
  <1>12. delivered' \in [Sessions -> Seq(Part)]
    BY <1>3, <1>4, <1>10 DEF TypeOK
  <1>13. TypeOK'
    BY <1>3, <1>4, <1>6, <1>12 DEF TypeOK
  <1>14. \A x \in Sessions \ {s} : Kept(x)
    BY <1>3, <1>4 DEF Kept, TypeOK
  <1>15. Current(d)' = s /\ CurrentSession(d)' = CurrentSession(d)
    BY <1>1, <1>3 DEF Current, CurrentSession
  <1>16. /\ Continues(s, u) =>
              delivered'[s] \o b = response'[s] \/ s \in broken'
         /\ FillsPlaces(s, u) =>
              Places(delivered'[s] \o b) = Places(response'[s]) \/ s \in broken'
    BY <1>3, <1>11 DEF Continues, FillsPlaces
  <1>17. SendingTo(Current(d), Unsent(d))'
    <2>1. /\ Continues(s, u) => Continues(s, Unsent(d))'
          /\ FillsPlaces(s, u) => FillsPlaces(s, Unsent(d))'
      BY <1>7, <1>16 DEF Continues, FillsPlaces
    <2> QED  BY <1>3, <1>5, <1>15, <2>1 DEF SendingTo
  <1>18. FrontInv(d)'
    BY <1>3, <1>5, <1>17 DEF FrontInv
  <1>19. SharedGrows /\ pc'[d] # "idle"
    BY <1>3 DEF SharedGrows
  <1>20. \A e \in Dispatchers \ {d} : pc'[e] = pc[e] /\ total_bytes'[e] = total_bytes[e]
    BY <1>3, <1>4 DEF TypeOK
  <1> QED
    BY <1>1, <1>3, <1>13, <1>14, <1>18, <1>19, <1>20, FrontStep

\* The two dispatchers of a race are lost; the others go on.
LEMMA RaceStep ==
  ASSUME DispatchInv, NEW d \in Dispatchers, CacheRace(d)
  PROVE  DispatchInv'
  <1> USE DEF DispatchInv
  <1>1. PICK e \in Dispatchers \ {d} :
           /\ pc[d] = "store" /\ pc[e] \in {"find", "store", "send"}
           /\ pc' = [pc EXCEPT ![d] = "undefined", ![e] = "undefined"]
    BY DEF CacheRace
  <1>2. /\ queue' = queue /\ session' = session /\ draft' = draft
        /\ total_bytes' = total_bytes /\ cache_' = cache_ /\ cwd' = cwd

        /\ broken' = broken /\ reused' = reused /\ delivered' = delivered /\ response' = response
    BY DEF CacheRace, sharedVars, socketVars
  <1>3. /\ TypeOK'
        /\ \A x \in Dispatchers :
             pc'[x] = pc[x] \/ (pc[x] # "idle" /\ pc'[x] = "undefined")
    BY <1>1, <1>2 DEF TypeOK
  <1>4. SharedGrows /\ \A t : Kept(t)
    BY <1>2 DEF SharedGrows, Kept
  <1>5. \A x \in Dispatchers : QueueInv(x)' /\ FrontInv(x)'
    BY <1>2, <1>3, <1>4, Elsewhere
  <1>6. OneQueueEach' /\ CacheInv' /\ NewInv'
    BY <1>2 DEF OneQueueEach, CacheInv, NewInv, Untouched
  <1>7. UncachedIsDeliveredWhole'
    BY <1>2 DEF UncachedIsDeliveredWhole, Finished, Queued
  <1> QED  BY <1>3, <1>5, <1>6, <1>7

\* A connection breaks, or its socket number is given to another one.
LEMMA BreakStep ==
  ASSUME DispatchInv, NEW s \in Sessions, ConnectionBreaks(s) \/ SocketReused(s)
  PROVE  DispatchInv'
  <1> USE DEF DispatchInv
  <1>1. /\ broken \subseteq broken' /\ broken' \subseteq broken \cup {s}
        /\ reused' \subseteq broken'
        /\ queue' = queue /\ pc' = pc /\ session' = session /\ draft' = draft
        /\ total_bytes' = total_bytes /\ cache_' = cache_ /\ cwd' = cwd
        /\ delivered' = delivered /\ response' = response
    BY DEF ConnectionBreaks, SocketReused, sharedVars, TypeOK
  <1>2. TypeOK'
    BY <1>1 DEF TypeOK
  <1>3. SharedGrows /\ \A t : Kept(t)
    BY <1>1 DEF SharedGrows, Kept
  <1>4. \A x \in Dispatchers : QueueInv(x)' /\ FrontInv(x)'
    BY <1>1, <1>3, Elsewhere
  <1>5. OneQueueEach' /\ CacheInv' /\ NewInv'
    BY <1>1 DEF OneQueueEach, CacheInv, NewInv, Untouched
  <1>6. UncachedIsDeliveredWhole'
    BY <1>1 DEF UncachedIsDeliveredWhole, Finished, Queued
  <1> QED  BY <1>2, <1>4, <1>5, <1>6

-----------------------------------------------------------------------------
\* The steps that change a queue.

LEMMA RotatedQueue ==
  ASSUME TypeOK, NEW d \in Dispatchers, queue[d] # <<>>
  PROVE  LET q == Rotated(queue[d])
         IN  /\ q \in Seq(Sessions) /\ q # <<>> /\ Head(q) \in Sessions
             /\ \E f \in [DOMAIN q -> DOMAIN queue[d]] :
                  /\ \A i \in DOMAIN q : q[i] = queue[d][f[i]]
                  /\ \A i, j \in DOMAIN q : f[i] = f[j] => i = j
                  /\ \A j \in DOMAIN queue[d] : \E i \in DOMAIN q : f[i] = j
  <1> DEFINE o == queue[d]
             q == Rotated(o)
             n == Len(o)
             f == [i \in 1 .. n |-> IF i = n THEN 1 ELSE i + 1]
             id == [i \in 1 .. n |-> i]
  <1>1. o \in Seq(Sessions) /\ n \in Nat \ {0} /\ DOMAIN o = 1 .. n
    BY DEF TypeOK
  <1>2. CASE q = o
    <2>1. id \in [DOMAIN q -> DOMAIN o] /\ \A i \in DOMAIN q : id[i] = i
      BY <1>1, <1>2
    <2>2. Head(q) \in Sessions /\ q # <<>>
      BY <1>1, <1>2
    <2> HIDE DEF id, o, q
    <2> QED  BY <1>1, <1>2, <2>1, <2>2 DEF o, q
  <1>3. CASE q = Append(Tail(o), Head(o))
    <2>1. q \in Seq(Sessions) /\ Len(q) = n /\ DOMAIN q = 1 .. n
      BY <1>1, <1>3
    <2>2. \A i \in 1 .. n : q[i] = o[IF i = n THEN 1 ELSE i + 1]
      BY <1>1, <1>3
    <2>3. f \in [1 .. n -> 1 .. n]
      BY <1>1
    <2>4. \A i \in 1 .. n : q[i] = o[f[i]]
      BY <2>2
    <2>5. \A i, j \in 1 .. n : f[i] = f[j] => i = j
      BY <1>1
    <2>6. \A j \in 1 .. n : \E i \in 1 .. n : f[i] = j
      <3> SUFFICES ASSUME NEW j \in 1 .. n PROVE \E i \in 1 .. n : f[i] = j
        OBVIOUS
      <3>1. CASE j = 1
        <4>1. n \in 1 .. n /\ f[n] = 1
          BY <1>1
        <4> QED  BY <3>1, <4>1
      <3>2. CASE j # 1
        <4>1. j - 1 \in 1 .. n /\ f[j - 1] = j
          BY <1>1, <3>2
        <4> QED  BY <4>1
      <3> QED  BY <3>1, <3>2
    <2>7. q # <<>> /\ Head(q) \in Sessions
      BY <1>1, <2>1
    <2> HIDE DEF f, o, q, n
    <2>8. /\ f \in [DOMAIN q -> DOMAIN o]
          /\ \A i \in DOMAIN q : q[i] = o[f[i]]
          /\ \A i, j \in DOMAIN q : f[i] = f[j] => i = j
          /\ \A j \in DOMAIN o : \E i \in DOMAIN q : f[i] = j
      BY <1>1, <2>1, <2>3, <2>4, <2>5, <2>6
    <2> QED  BY <2>1, <2>7, <2>8, Zenon DEF o, q
  <1> QED  BY <1>2, <1>3 DEF Rotated

\* A queue that only loses or moves sessions.
LEMMA Reordered ==
  ASSUME OneQueueEach, NEW d \in Dispatchers,
         \A e \in Dispatchers \ {d} : queue'[e] = queue[e],
         NEW f \in [DOMAIN queue'[d] -> DOMAIN queue[d]],
         \A i \in DOMAIN queue'[d] : queue'[d][i] = queue[d][f[i]],
         \A i, j \in DOMAIN queue'[d] : f[i] = f[j] => i = j
  PROVE  OneQueueEach'
  <1> SUFFICES ASSUME NEW x \in Dispatchers, NEW y \in Dispatchers,
                      NEW i \in DOMAIN queue'[x], NEW j \in DOMAIN queue'[y],
                      queue'[x][i] = queue'[y][j]
               PROVE  x = y /\ i = j
    BY DEF OneQueueEach
  <1>1. CASE x # d /\ y # d
    BY <1>1 DEF OneQueueEach
  <1>2. CASE x = d /\ y # d
    <2>1. f[i] \in DOMAIN queue[x] /\ j \in DOMAIN queue[y] /\ queue[x][f[i]] = queue[y][j]
      BY <1>2
    <2> QED  BY <1>2, <2>1 DEF OneQueueEach
  <1>3. CASE x # d /\ y = d
    <2>1. f[j] \in DOMAIN queue[y] /\ i \in DOMAIN queue[x] /\ queue[x][i] = queue[y][f[j]]
      BY <1>3
    <2> QED  BY <1>3, <2>1 DEF OneQueueEach
  <1>4. CASE x = d /\ y = d
    <2>1. f[i] \in DOMAIN queue[d] /\ f[j] \in DOMAIN queue[d] /\ queue[d][f[i]] = queue[d][f[j]]
      BY <1>4
    <2>2. f[i] = f[j]
      BY <2>1 DEF OneQueueEach
    <2> QED  BY <1>4, <2>2
  <1> QED  BY <1>1, <1>2, <1>3, <1>4

LEMMA BeginStep ==
  ASSUME DispatchInv, NEW d \in Dispatchers, Begin(d)
  PROVE  DispatchInv'
  <1>1. TypeOK /\ OneQueueEach /\ QueueInv(d) /\ FrontInv(d)
    BY DEF DispatchInv
  <1>2. pc[d] = "idle" /\ queue[d] # <<>> /\ total_bytes[d] = 0
    BY <1>1 DEF Begin, HasWork, FrontInv
  <1>3. PICK q \in Seq(Sessions) :
           q = Rotated(queue[d]) /\ q # <<>> /\ Head(q) \in Sessions
    BY <1>1, <1>2, RotatedQueue
  <1>4. PICK f \in [DOMAIN q -> DOMAIN queue[d]] :
           /\ \A i \in DOMAIN q : q[i] = queue[d][f[i]]
           /\ \A i, j \in DOMAIN q : f[i] = f[j] => i = j
           /\ \A j \in DOMAIN queue[d] : \E i \in DOMAIN q : f[i] = j
    <2>1. LET r == Rotated(queue[d])
          IN  \E g \in [DOMAIN r -> DOMAIN queue[d]] :
                 /\ \A i \in DOMAIN r : r[i] = queue[d][g[i]]
                 /\ \A i, j \in DOMAIN r : g[i] = g[j] => i = j
                 /\ \A j \in DOMAIN queue[d] : \E i \in DOMAIN r : g[i] = j
      BY <1>1, <1>2, RotatedQueue
    <2> QED  BY <1>3, <2>1, Zenon
  <1>5. PICK s \in Sessions : s = Head(q)
    BY <1>3
  <1>6. /\ queue' = [queue EXCEPT ![d] = q]
        /\ session' = [session EXCEPT ![s].ewouldblock_flag = FALSE]
        /\ pc' = [pc EXCEPT ![d] = IF session[s].ewouldblock_flag THEN "send"
                                    ELSE IF session[s].path \in Files THEN "find"
                                    ELSE "chdir"]
        /\ draft' = draft /\ total_bytes' = total_bytes /\ cache_' = cache_ /\ cwd' = cwd

        /\ broken' = broken /\ reused' = reused /\ delivered' = delivered /\ response' = response
    BY <1>3, <1>5 DEF Begin, sharedVars, socketVars
  <1>7. /\ queue'[d] = q
        /\ \A e \in Dispatchers \ {d} :
             queue'[e] = queue[e] /\ pc'[e] = pc[e] /\ total_bytes'[e] = total_bytes[e]
    BY <1>1, <1>6 DEF TypeOK
  <1>8. 1 \in DOMAIN q /\ q[1] = s /\ f[1] \in DOMAIN queue[d] /\ queue[d][f[1]] = s
    BY <1>3, <1>4, <1>5
  <1>9. OneQueueEach'
    BY <1>1, <1>4, <1>7, Reordered
  <1>10. \A i \in DOMAIN q : q[i] = s => i = 1
    <2> SUFFICES ASSUME NEW i \in DOMAIN q, q[i] = s PROVE i = 1
      OBVIOUS
    <2>1. f[i] \in DOMAIN queue[d] /\ queue[d][f[i]] = s
      BY <1>4
    <2>2. f[i] = f[1]
      BY <1>1, <1>8, <2>1 DEF OneQueueEach
    <2> QED  BY <1>4, <1>8, <2>2
  <1>11. \A t \in Sessions : Queued(t)' <=> Queued(t)
    <2> SUFFICES ASSUME NEW t \in Sessions PROVE Queued(t)' <=> Queued(t)
      OBVIOUS
    <2>1. (\E i \in DOMAIN q : q[i] = t) <=> (\E i \in DOMAIN queue[d] : queue[d][i] = t)
      BY <1>4
    <2> QED  BY <1>7, <2>1 DEF Queued
  <1>12. session[s] \in SessionRecord /\ session[s].path \in Paths /\ Waiting(s)
    BY <1>1, <1>2, <1>8 DEF QueueInv, TypeOK, SessionRecord
  <1>13. /\ session' \in [Sessions -> SessionRecord]
         /\ session'[s] = [session[s] EXCEPT !.ewouldblock_flag = FALSE]
         /\ \A t \in Sessions \ {s} : session'[t] = session[t]
    BY <1>1, <1>6, <1>12 DEF TypeOK, SessionRecord
  <1>14. /\ session'[s].path = session[s].path
         /\ session'[s].send_message = session[s].send_message
         /\ session'[s].send_message_index = session[s].send_message_index
         /\ session'[s].send_message_header_size = session[s].send_message_header_size
    BY <1>12, <1>13 DEF SessionRecord
  <1>15. /\ ~session'[s].ewouldblock_flag
         /\ session'[s].is_cached <=> session[s].is_cached
         /\ session'[s].send_message_has_more_bytes <=> session[s].send_message_has_more_bytes
    BY <1>12, <1>13 DEF SessionRecord
  <1>16. /\ session[s].ewouldblock_flag => pc'[d] = "send"
         /\ ~session[s].ewouldblock_flag /\ session[s].path \in Files => pc'[d] = "find"
         /\ ~session[s].ewouldblock_flag /\ session[s].path \notin Files => pc'[d] = "chdir"
    BY <1>1, <1>6 DEF TypeOK
  <1>17. pc'[d] \in {"send", "find", "chdir"}
    BY <1>16
  <1>18. TypeOK'
    <2>1. pc' \in [Dispatchers -> {"idle", "find", "chdir", "names", "links",
                                   "heading", "store", "send", "undefined"}]
      BY <1>1, <1>6, <1>17 DEF TypeOK
    <2>2. queue' \in [Dispatchers -> Seq(Sessions)]
      BY <1>1, <1>3, <1>6 DEF TypeOK
    <2>3. draft' = draft /\ total_bytes' = total_bytes /\ cache_' = cache_ /\ cwd' = cwd

          /\ broken' = broken /\ reused' = reused /\ delivered' = delivered /\ response' = response
      BY <1>6
    <2> QED  BY <1>1, <1>13, <2>1, <2>2, <2>3 DEF TypeOK, SessionRecord
  <1>19. \A t \in Sessions \ {s} : Kept(t)
    BY <1>6, <1>13 DEF Kept
  <1>20. SharedGrows
    BY <1>6 DEF SharedGrows
  <1>21. QueueInv(d)'
    <2> SUFFICES ASSUME NEW i \in DOMAIN q
                 PROVE  session'[q[i]].path \in Paths /\ (i # 1 => Waiting(q[i])')
      BY <1>7, <1>17 DEF QueueInv
    <2>1. f[i] \in DOMAIN queue[d] /\ q[i] = queue[d][f[i]] /\ q[i] \in Sessions
      BY <1>3, <1>4
    <2>2. session[q[i]].path \in Paths /\ Waiting(q[i])
      BY <1>1, <1>2, <2>1 DEF QueueInv
    <2>3. CASE q[i] = s
      BY <1>10, <1>12, <1>14, <2>3
    <2>4. CASE q[i] # s
      <3>1. q[i] \in Sessions \ {s}
        BY <2>1, <2>4
      <3>2. Waiting(q[i])'
        BY <1>19, <1>20, <2>2, <3>1, WaitingKept
      <3> QED  BY <1>13, <2>2, <3>1, <3>2
    <2> QED  BY <2>3, <2>4
  <1>22. Current(d)' = s /\ CurrentSession(d)' = session'[s]
    BY <1>5, <1>7 DEF Current, CurrentSession
  <1>23. Untouched(s) => Untouched(s)'
    BY <1>6, <1>14, <1>15 DEF Untouched
  <1>24. FrontInv(d)'
    <2>1. queue'[d] # <<>> /\ total_bytes'[d] = 0
      BY <1>2, <1>3, <1>6, <1>7
    <2>2. CASE session[s].ewouldblock_flag
      <3>1. /\ ~session[s].is_cached /\ session[s].path \notin Files
            /\ ~session[s].send_message_has_more_bytes
            /\ Continues(s, session[s].send_message)
        BY <1>12, <2>2 DEF Waiting, Untouched
      <3>2. session[s].send_message \in Seq(Part)
        BY <1>12 DEF SessionRecord
      <3>3. Unsent(d)' = session[s].send_message
        <4>1. Unsent(d)' = SubSeq(session[s].send_message, 0 + 1, Len(session[s].send_message))
          BY <1>14, <1>15, <1>22, <2>1, <3>1 DEF Unsent, ResponseData
        <4> QED  BY <3>2, <4>1, SubSeqIn
      <3>4. SendingTo(Current(d), Unsent(d))'
        BY <1>6, <1>14, <1>15, <1>22, <3>1, <3>3 DEF SendingTo, Continues
      <3> QED  BY <1>16, <2>1, <2>2, <3>4 DEF FrontInv
    <2>3. CASE ~session[s].ewouldblock_flag /\ session[s].path \in Files
      <3>1. Untouched(s)
        BY <1>12, <2>3 DEF Waiting
      <3> QED  BY <1>14, <1>16, <1>22, <1>23, <2>1, <2>3, <3>1 DEF FrontInv
    <2>4. CASE ~session[s].ewouldblock_flag /\ session[s].path \notin Files
      <3>1. Composing(s)'
        BY <1>6, <1>12, <1>14, <1>15, <1>23, <2>4 DEF Waiting, Untouched, Composing
      <3> QED  BY <1>16, <1>22, <2>1, <2>4, <3>1 DEF FrontInv
    <2> QED  BY <2>2, <2>3, <2>4
  <1>25. Finished(s)' => FALSE
    BY <1>8, <1>11 DEF Finished, Queued
  <1> QED
    <2>1. \E i \in DOMAIN queue[d] : queue[d][i] = s
      BY <1>8
    <2>2. \A t \in Sessions \ {s} : Kept(t) /\ (Queued(t)' <=> Queued(t))
      BY <1>11, <1>19
    <2> QED
      BY <1>7, <1>9, <1>14, <1>18, <1>20, <1>21, <1>24, <1>25, <2>1, <2>2, TurnStep

LEMMA ErasedIn ==
  ASSUME NEW c \in SessionRecord, NEW n \in Nat
  PROVE  LET e == CountedAndErased(c, n)
         IN  /\ e \in SessionRecord
             /\ e.path = c.path
             /\ e.is_cached <=> c.is_cached
             /\ e.ewouldblock_flag <=> c.ewouldblock_flag
             /\ e.send_message_has_more_bytes <=> c.send_message_has_more_bytes
             /\ ~c.is_cached =>
                   e.send_message = SubSeq(c.send_message, n + 1, Len(c.send_message))
  <1> DEFINE m == IF c.is_cached THEN c.send_message
                  ELSE SubSeq(c.send_message, n + 1, Len(c.send_message))
             x == c.send_message_index + n
             e == [path |-> c.path, ewouldblock_flag |-> c.ewouldblock_flag,
                   is_cached |-> c.is_cached, send_message |-> m,
                   send_message_has_more_bytes |-> c.send_message_has_more_bytes,
                   send_message_index |-> x,
                   send_message_header_size |-> c.send_message_header_size]
  <1>1. c.send_message \in Seq(Part) /\ c.send_message_index \in Nat
    BY DEF SessionRecord
  <1>2. m \in Seq(Part) /\ x \in Nat
    BY <1>1, SubSeqIn
  <1>3. CountedAndErased(c, n) = [c EXCEPT !.send_message_index = x, !.send_message = m]
    BY DEF CountedAndErased, SessionRecord
  <1>4. ~c.is_cached => m = SubSeq(c.send_message, n + 1, Len(c.send_message))
    OBVIOUS
  <1> HIDE DEF m, x
  <1>5. CountedAndErased(c, n) = e
    BY <1>3 DEF SessionRecord
  <1>6. e \in SessionRecord
    BY <1>2 DEF SessionRecord
  <1> QED  BY <1>4, <1>5, <1>6

\* The end of an iteration that has sent everything, would have blocked or has
\* failed, with c the fields of the session then.
LEMMA EndStep ==
  ASSUME DispatchInv, NEW d \in Dispatchers, pc[d] = "send",
         NEW c \in SessionRecord, EndIteration(d, c),
         c.path = CurrentSession(d).path,
         c.is_cached <=> CurrentSession(d).is_cached,
         ~c.is_cached =>
            /\ c.send_message = CurrentSession(d).send_message
            /\ c.send_message_has_more_bytes <=> CurrentSession(d).send_message_has_more_bytes
            /\ Unsent(d) # <<>> /\ ~c.ewouldblock_flag => Current(d) \in broken
  PROVE  DispatchInv'
  <1>1. PICK s \in Sessions :
           /\ s = Current(d)
           /\ session[s] = CurrentSession(d)
           /\ session[s] \in SessionRecord
           /\ session[s].path \in Paths
    BY AtFront
  <1> DEFINE n == total_bytes[d]
  <1>2. TypeOK /\ OneQueueEach /\ QueueInv(d) /\ FrontInv(d) /\ n \in Nat
    BY DEF DispatchInv, TypeOK
  <1>3. PICK e \in SessionRecord :
           /\ e = CountedAndErased(c, n)
           /\ e.path = c.path
           /\ e.is_cached <=> c.is_cached
           /\ e.ewouldblock_flag <=> c.ewouldblock_flag
           /\ e.send_message_has_more_bytes <=> c.send_message_has_more_bytes
           /\ ~c.is_cached =>
                 e.send_message = SubSeq(c.send_message, n + 1, Len(c.send_message))
    BY <1>2, ErasedIn
  <1>4. /\ session' = [session EXCEPT ![s] = e]
        /\ queue' = [queue EXCEPT ![d] = IF Over(e) THEN Tail(@) ELSE @]
        /\ total_bytes' = [total_bytes EXCEPT ![d] = 0]
        /\ pc' = [pc EXCEPT ![d] = "idle"]
        /\ draft' = draft /\ cache_' = cache_ /\ cwd' = cwd /\ response' = response
        /\ broken' = broken /\ reused' = reused /\ delivered' = delivered
    BY <1>1, <1>3 DEF EndIteration, sharedVars, socketVars
  <1>5. /\ queue[d] # <<>> /\ queue[d] \in Seq(Sessions)
        /\ 1 \in DOMAIN queue[d] /\ queue[d][1] = s
    <2>1. queue[d] # <<>>
      BY <1>2 DEF FrontInv
    <2> QED  BY <1>1, <1>2, <2>1, FrontIn
  <1>6. SendingTo(s, Unsent(d))
    BY <1>1, <1>2 DEF FrontInv
  <1>7. ~e.is_cached => e.send_message = Unsent(d)
    BY <1>1, <1>3 DEF Unsent, ResponseData
  <1> HIDE DEF n
  <1>8. /\ pc'[d] = "idle" /\ total_bytes'[d] = 0
        /\ queue'[d] = IF Over(e) THEN Tail(queue[d]) ELSE queue[d]
        /\ \A x \in Dispatchers \ {d} :
             queue'[x] = queue[x] /\ pc'[x] = pc[x] /\ total_bytes'[x] = total_bytes[x]
    BY <1>2, <1>4 DEF TypeOK
  <1>9. session'[s] = e /\ \A t \in Sessions \ {s} : session'[t] = session[t]
    BY <1>2, <1>4 DEF TypeOK
  <1>10. TypeOK'
    <2>1. session' \in [Sessions -> SessionRecord]
      BY <1>2, <1>4 DEF TypeOK, SessionRecord
    <2>2. queue' \in [Dispatchers -> Seq(Sessions)]
      BY <1>2, <1>4, <1>5 DEF TypeOK
    <2> QED  BY <1>2, <1>4, <2>1, <2>2 DEF TypeOK, SessionRecord
  <1>11. \A t \in Sessions \ {s} : Kept(t)
    BY <1>4, <1>9 DEF Kept
  <1>12. SharedGrows
    BY <1>4 DEF SharedGrows
  <1>13. \A i \in DOMAIN queue[d] :
            i # 1 => /\ queue[d][i] \in Sessions \ {s}
                     /\ session'[queue[d][i]].path \in Paths
                     /\ Waiting(queue[d][i])
    <2> SUFFICES ASSUME NEW i \in DOMAIN queue[d], i # 1
                 PROVE  /\ queue[d][i] \in Sessions \ {s}
                        /\ session'[queue[d][i]].path \in Paths
                        /\ Waiting(queue[d][i])
      OBVIOUS
    <2>1. queue[d][i] \in Sessions \ {s}
      BY <1>2, <1>5 DEF OneQueueEach
    <2> QED  BY <1>2, <1>9, <2>1 DEF QueueInv
  <1>14. \A t \in Sessions \ {s} : Waiting(t) => Waiting(t)'
    BY <1>11, <1>12, WaitingKept
  <1>15. FrontInv(d)'
    BY <1>8 DEF FrontInv
  <1>16. CASE Over(e)
    <2> DEFINE f == [i \in DOMAIN queue'[d] |-> i + 1]
    <2>1. /\ queue'[d] \in Seq(Sessions)
          /\ DOMAIN queue'[d] = 1 .. Len(queue[d]) - 1
          /\ \A i \in DOMAIN queue'[d] :
               queue'[d][i] = queue[d][i + 1] /\ i + 1 \in DOMAIN queue[d] /\ i + 1 # 1
      BY <1>5, <1>8, <1>16
    <2>2. f \in [DOMAIN queue'[d] -> DOMAIN queue[d]]
      BY <2>1
    <2>3. /\ \A i \in DOMAIN queue'[d] : queue'[d][i] = queue[d][f[i]]
          /\ \A i, j \in DOMAIN queue'[d] : f[i] = f[j] => i = j
      BY <2>1
    <2> HIDE DEF f
    <2>4. OneQueueEach'
      BY <1>2, <1>8, <2>2, <2>3, Reordered
    <2>5. QueueInv(d)'
      <3> SUFFICES ASSUME NEW i \in DOMAIN queue'[d]
                   PROVE  session'[queue'[d][i]].path \in Paths /\ Waiting(queue[d][i])'
        BY DEF QueueInv
      <3>1. PICK t \in Sessions \ {s} : t = queue[d][i + 1]
        BY <1>13, <2>1
      <3>2. t = queue'[d][i] /\ session'[t].path \in Paths /\ Waiting(t)
        BY <1>13, <2>1, <3>1
      <3>3. Waiting(t)'
        BY <1>14, <3>1, <3>2
      <3> QED  BY <3>2, <3>3
    <2>6. \A t \in Sessions \ {s} : Queued(t)' <=> Queued(t)
      <3> SUFFICES ASSUME NEW t \in Sessions \ {s} PROVE Queued(t)' <=> Queued(t)
        OBVIOUS
      <3>1. (\E i \in DOMAIN queue[d] : queue[d][i] = t)
              => \E i \in DOMAIN queue'[d] : queue'[d][i] = t
        <4> SUFFICES ASSUME NEW i \in DOMAIN queue[d], queue[d][i] = t
                     PROVE  \E j \in DOMAIN queue'[d] : queue'[d][j] = t
          OBVIOUS
        <4>1. i # 1
          BY <1>5
        <4>2. i - 1 \in DOMAIN queue'[d] /\ (i - 1) + 1 = i
          BY <1>5, <2>1, <4>1
        <4> QED  BY <2>1, <4>2
      <3>2. (\E i \in DOMAIN queue'[d] : queue'[d][i] = t)
              => \E i \in DOMAIN queue[d] : queue[d][i] = t
        BY <2>1
      <3>3. \A x \in Dispatchers :
              (\E i \in DOMAIN queue'[x] : queue'[x][i] = t)
                <=> (\E i \in DOMAIN queue[x] : queue[x][i] = t)
        <4> SUFFICES ASSUME NEW x \in Dispatchers, x # d
                     PROVE  (\E i \in DOMAIN queue'[x] : queue'[x][i] = t)
                              <=> (\E i \in DOMAIN queue[x] : queue[x][i] = t)
          BY <3>1, <3>2
        <4>1. queue'[x] = queue[x]
          BY <1>8
        <4> QED  BY <4>1
      <3> QED  BY <3>3 DEF Queued
    <2>7. ~session'[s].is_cached /\ s \notin broken' => delivered'[s] = response'[s]
      <3> SUFFICES ASSUME ~e.is_cached, s \notin broken PROVE delivered[s] = response[s]
        BY <1>4, <1>9
      <3>1. Unsent(d) = <<>>
        BY <1>7, <1>16 DEF Over
      <3>2. delivered[s] \o <<>> = response[s]
        BY <1>1, <1>3, <1>6, <3>1 DEF SendingTo, Continues
      <3>3. delivered[s] \in Seq(Part)
        BY <1>2 DEF TypeOK
      <3> QED  BY <3>2, <3>3, ConcatEmptySeq
    <2>8. \A t \in Sessions \ {s} : Kept(t) /\ (Queued(t)' <=> Queued(t))
      BY <1>11, <2>6
    <2>9. session'[s].path = session[s].path /\ \E i \in DOMAIN queue[d] : queue[d][i] = s
      BY <1>1, <1>3, <1>5, <1>9
    <2> QED
      BY <1>8, <1>10, <1>12, <1>15, <2>4, <2>5, <2>7, <2>8, <2>9, TurnStep
  <1>17. CASE ~Over(e)
    <2>1. queue' = queue
      BY <1>2, <1>4, <1>17 DEF TypeOK
    <2>2. ~e.is_cached /\ ~e.send_message_has_more_bytes /\ session[s].path \notin Files
      BY <1>1, <1>3, <1>6, <1>17 DEF Over, SendingTo
    <2>3. Unsent(d) # <<>> /\ e.send_message = Unsent(d)
      BY <1>7, <1>17, <2>2 DEF Over
    <2>4. Waiting(s)'
      <3>1. Continues(s, Unsent(d))
        BY <1>1, <1>3, <1>6, <2>2 DEF SendingTo
      <3>2. Continues(s, session[s].send_message)'
        BY <1>4, <1>9, <2>3, <3>1 DEF Continues
      <3>3. session'[s].ewouldblock_flag \/ s \in broken'
        BY <1>1, <1>3, <1>4, <1>9, <2>2, <2>3
      <3>4. /\ session'[s].path \notin Files /\ ~session'[s].is_cached
            /\ ~session'[s].send_message_has_more_bytes
        BY <1>1, <1>3, <1>9, <2>2
      <3> QED  BY <3>2, <3>3, <3>4 DEF Waiting
    <2>5. QueueInv(d)'
      <3> SUFFICES ASSUME NEW i \in DOMAIN queue[d]
                   PROVE  session'[queue[d][i]].path \in Paths /\ Waiting(queue[d][i])'
        BY <2>1 DEF QueueInv
      <3>1. CASE i = 1
        BY <1>1, <1>3, <1>5, <1>9, <2>1, <2>4, <3>1
      <3>2. CASE i # 1
        <4>1. PICK t \in Sessions \ {s} : t = queue[d][i]
          BY <1>13, <3>2
        <4>2. session'[t].path \in Paths /\ Waiting(t)'
          BY <1>13, <1>14, <3>2, <4>1
        <4> QED  BY <2>1, <4>1, <4>2
      <3> QED  BY <3>1, <3>2
    <2>6. OneQueueEach' /\ \A t \in Sessions : Queued(t)' <=> Queued(t)
      BY <1>2, <2>1 DEF OneQueueEach, Queued
    <2>7. Finished(s)' => FALSE
      BY <1>5, <2>1 DEF Finished, Queued
    <2>8. \A t \in Sessions \ {s} : Kept(t) /\ (Queued(t)' <=> Queued(t))
      BY <1>11, <2>6
    <2>9. session'[s].path = session[s].path /\ \E i \in DOMAIN queue[d] : queue[d][i] = s
      BY <1>1, <1>3, <1>5, <1>9
    <2> QED
      BY <1>8, <1>10, <1>12, <1>15, <2>1, <2>5, <2>6, <2>7, <2>8, <2>9, TurnStep
  <1> QED  BY <1>16, <1>17

LEMMA RecordReset ==
  ASSUME NEW c \in SessionRecord
  PROVE  LET b == [c EXCEPT !.send_message = <<>>, !.send_message_has_more_bytes = FALSE]
         IN  b \in SessionRecord /\ b.path = c.path /\ (b.is_cached <=> c.is_cached)
  <1> DEFINE c1 == [c EXCEPT !.send_message = <<>>]
             b == [c EXCEPT !.send_message = <<>>, !.send_message_has_more_bytes = FALSE]
  <1>1. c1 \in SessionRecord
    <2>1. c1 = [path |-> c.path, ewouldblock_flag |-> c.ewouldblock_flag,
                is_cached |-> c.is_cached, send_message |-> <<>>,
                send_message_has_more_bytes |-> c.send_message_has_more_bytes,
                send_message_index |-> c.send_message_index,
                send_message_header_size |-> c.send_message_header_size]
      BY DEF SessionRecord
    <2>2. <<>> \in Seq(Part)
      OBVIOUS
    <2> QED  BY <2>1, <2>2 DEF SessionRecord
  <1>2. b = [c1 EXCEPT !.send_message_has_more_bytes = FALSE]
    BY DEF SessionRecord
  <1>3. b.path = c.path /\ (b.is_cached <=> c.is_cached)
    BY DEF SessionRecord
  <1>4. b \in SessionRecord
    <2> HIDE DEF c1
    <2> QED  BY <1>1, <1>2 DEF SessionRecord
  <1> QED  BY <1>3, <1>4

LEMMA SendingStep ==
  ASSUME DispatchInv, NEW d \in Dispatchers, Sending(d)
  PROVE  DispatchInv'
  <1>1. ASSUME NEW k \in 1 .. 3 + FILE_CHUNK, Send(d, k)
        PROVE  DispatchInv'
    <2>1. k \in Nat
      BY ConstantsOK
    <2> QED  BY <1>1, <2>1, SendStep
  <1>2. ASSUME SendAll(d) \/ SendWouldBlock(d) \/ SendFails(d)
        PROVE  DispatchInv'
    <2>1. pc[d] = "send"
      BY <1>2 DEF SendAll, SendWouldBlock, SendFails
    <2>2. PICK s \in Sessions :
             /\ s = Current(d)
             /\ session[s] = CurrentSession(d)
             /\ session[s] \in SessionRecord
             /\ session[s].path \in Paths
      BY <2>1, AtFront
    <2> DEFINE c == session[s]
    <2>3. ~c.ewouldblock_flag
      BY <2>1, <2>2 DEF DispatchInv, FrontInv, SendingTo
    <2>4. CASE SendAll(d)
      <3>1. EndIteration(d, c) /\ Unsent(d) = <<>>
        BY <2>2, <2>4 DEF SendAll
      <3> QED  BY <2>1, <2>2, <3>1, EndStep
    <2>5. CASE SendWouldBlock(d)
      <3> DEFINE b == [c EXCEPT !.ewouldblock_flag = TRUE]
      <3>1. EndIteration(d, b)
        BY <2>2, <2>5 DEF SendWouldBlock
      <3>2. b \in SessionRecord /\ b.path = c.path /\ b.send_message = c.send_message
        BY <2>2 DEF SessionRecord
      <3>3. /\ b.is_cached <=> c.is_cached
            /\ b.send_message_has_more_bytes <=> c.send_message_has_more_bytes
            /\ b.ewouldblock_flag
        BY <2>2 DEF SessionRecord
      <3> HIDE DEF b
      <3> QED  BY <2>1, <2>2, <3>1, <3>2, <3>3, EndStep
    <2>6. CASE SendFails(d) /\ ~c.is_cached
      <3>1. EndIteration(d, c) /\ Current(d) \in broken
        BY <2>2, <2>6 DEF SendFails, Dead
      <3> QED  BY <2>1, <2>2, <2>3, <3>1, EndStep
    <2>7. CASE SendFails(d) /\ c.is_cached
      <3> DEFINE b == [c EXCEPT !.send_message = <<>>, !.send_message_has_more_bytes = FALSE]
      <3>1. EndIteration(d, b)
        BY <2>2, <2>7 DEF SendFails
      <3>2. b \in SessionRecord /\ b.path = c.path /\ (b.is_cached <=> c.is_cached)
        BY <2>2, RecordReset
      <3> HIDE DEF b
      <3> QED  BY <2>1, <2>2, <2>7, <3>1, <3>2, EndStep
    <2> QED  BY <1>2, <2>4, <2>5, <2>6, <2>7
  <1> QED  BY <1>1, <1>2 DEF Sending

LEMMA ArrivalStep ==
  ASSUME DispatchInv, NEW d \in Dispatchers, NEW s \in Sessions, NEW p \in Paths,
         onNewMessageArrived(d, s, p)
  PROVE  DispatchInv'
  <1> USE DEF DispatchInv
  <1>1. /\ pc[d] = "idle" /\ session[s].path = NoPath
        /\ session' = [session EXCEPT ![s] = NewSession(p)]
        /\ queue' = [queue EXCEPT ![d] = Append(@, s)]
        /\ pc' = pc /\ draft' = draft /\ total_bytes' = total_bytes /\ cache_' = cache_
        /\ cwd' = cwd /\ response' = response
        /\ broken' = broken /\ reused' = reused /\ delivered' = delivered
    BY DEF onNewMessageArrived, sharedVars, socketVars
  <1>2. NewSession(p) \in SessionRecord
    BY DEF NewSession, SessionRecord
  <1>3. TypeOK'
    <2>1. session' \in [Sessions -> SessionRecord]
      BY <1>1, <1>2 DEF TypeOK, SessionRecord
    <2>2. queue' \in [Dispatchers -> Seq(Sessions)]
      BY <1>1 DEF TypeOK
    <2> QED  BY <1>1, <2>1, <2>2 DEF TypeOK, SessionRecord
  <1>4. /\ queue[d] \in Seq(Sessions) /\ queue'[d] = Append(queue[d], s)
        /\ \A e \in Dispatchers \ {d} : queue'[e] = queue[e]
        /\ session'[s] = NewSession(p)
        /\ \A t \in Sessions \ {s} : session'[t] = session[t]
    BY <1>1 DEF TypeOK
  <1>5. /\ DOMAIN queue'[d] = 1 .. Len(queue[d]) + 1
        /\ DOMAIN queue[d] = 1 .. Len(queue[d])
        /\ queue'[d][Len(queue[d]) + 1] = s
        /\ \A i \in DOMAIN queue[d] : queue'[d][i] = queue[d][i]
    BY <1>4
  <1>6. \A e \in Dispatchers : \A i \in DOMAIN queue[e] : queue[e][i] \in Sessions \ {s}
    BY <1>1, ConstantsOK DEF QueueInv, TypeOK
  <1>7. \A t \in Sessions \ {s} : Kept(t)
    BY <1>1, <1>4 DEF Kept
  <1>8. SharedGrows
    BY <1>1 DEF SharedGrows
  <1>9. Untouched(s)' /\ session'[s].path = p
    <2>1. Untouched(s)
      BY <1>1 DEF NewInv
    <2> QED  BY <1>1, <1>4, <2>1 DEF Untouched, NewSession
  <1>10. OneQueueEach'
    <2>1. \A x \in Dispatchers : \A i \in DOMAIN queue'[x] :
             \/ i \in DOMAIN queue[x] /\ queue'[x][i] = queue[x][i]
             \/ x = d /\ i = Len(queue[d]) + 1 /\ queue'[x][i] = s
      BY <1>4, <1>5
    <2> QED  BY <1>6, <2>1 DEF OneQueueEach
  <1>11. QueueInv(d)'
    <2> SUFFICES ASSUME NEW i \in DOMAIN queue'[d]
                 PROVE  session'[queue'[d][i]].path \in Paths /\ Waiting(queue[d][i])'
      BY DEF QueueInv
    <2>1. CASE i = Len(queue[d]) + 1
      BY <1>5, <1>9, <2>1 DEF Waiting
    <2>2. CASE i \in DOMAIN queue[d]
      <3>1. PICK t \in Sessions \ {s} : t = queue[d][i]
        BY <1>6, <2>2
      <3>2. session[t].path \in Paths /\ Waiting(t)
        BY <1>1, <2>2, <3>1 DEF QueueInv
      <3>3. Waiting(t)'
        BY <1>7, <1>8, <3>2, WaitingKept
      <3> QED  BY <1>4, <1>5, <2>2, <3>1, <3>2, <3>3
    <2> QED  BY <1>5, <2>1, <2>2
  <1>12. FrontInv(d)'
    BY <1>1 DEF FrontInv
  <1>13. \A e \in Dispatchers \ {d} : QueueInv(e)' /\ FrontInv(e)'
    BY <1>1, <1>4, <1>6, <1>7, <1>8, Elsewhere
  <1>14. CacheInv'
    BY <1>1 DEF CacheInv
  <1>15. p # NoPath
    BY ConstantsOK
  <1>16. NewInv'
    BY <1>7, <1>9, <1>15 DEF NewInv, Kept, Untouched
  <1>17. \A t \in Sessions : Queued(t) => Queued(t)'
    <2> SUFFICES ASSUME NEW t \in Sessions, NEW e \in Dispatchers,
                        NEW i \in DOMAIN queue[e], queue[e][i] = t
                 PROVE  Queued(t)'
      BY DEF Queued
    <2>1. i \in DOMAIN queue'[e] /\ queue'[e][i] = t
      BY <1>4, <1>5
    <2> QED  BY <2>1 DEF Queued
  <1>18. Queued(s)'
    BY <1>4, <1>5 DEF Queued
  <1>19. UncachedIsDeliveredWhole'
    <2> SUFFICES ASSUME NEW t \in Sessions, Finished(t)', ~session'[t].is_cached,
                        t \notin broken'
                 PROVE  delivered'[t] = response'[t]
      BY DEF UncachedIsDeliveredWhole
    <2>1. t \in Sessions \ {s} /\ Kept(t) /\ ~Queued(t) /\ t \notin broken
      BY <1>1, <1>7, <1>17, <1>18 DEF Finished
    <2> QED  BY <2>1 DEF UncachedIsDeliveredWhole, Finished, Kept
  <1> QED
    BY <1>3, <1>10, <1>11, <1>12, <1>13, <1>14, <1>16, <1>19

-----------------------------------------------------------------------------
\* The theorems.

LEMMA DispatchInit == Init => DispatchInv
  <1> SUFFICES ASSUME Init PROVE DispatchInv
    OBVIOUS
  <1> USE DEF Init
  <1>1. NewSession(NoPath) \in SessionRecord
    BY DEF NewSession, SessionRecord
  <1>2. TypeOK
    BY <1>1, ConstantsOK DEF TypeOK, SessionRecord
  <1>3. OneQueueEach /\ CacheInv
    BY DEF OneQueueEach, CacheInv, Paths
  <1>4. \A d \in Dispatchers : QueueInv(d) /\ FrontInv(d)
    <2> SUFFICES ASSUME NEW d \in Dispatchers PROVE QueueInv(d) /\ FrontInv(d)
      OBVIOUS
    <2>1. queue[d] = <<>> /\ pc[d] = "idle" /\ total_bytes[d] = 0
      OBVIOUS
    <2>2. QueueInv(d)
      BY <2>1 DEF QueueInv
    <2> QED  BY <2>1, <2>2 DEF FrontInv
  <1>5. NewInv
    BY DEF NewInv, Untouched, NewSession
  <1>6. UncachedIsDeliveredWhole
    BY DEF UncachedIsDeliveredWhole
  <1> QED  BY <1>2, <1>3, <1>4, <1>5, <1>6 DEF DispatchInv

LEMMA DispatchStep == DispatchInv /\ [Next]_vars => DispatchInv'
  <1> SUFFICES ASSUME DispatchInv, [Next]_vars PROVE DispatchInv'
    OBVIOUS
  <1>1. CASE Arrivals
    BY <1>1, ArrivalStep DEF Arrivals
  <1>2. ASSUME NEW s \in Sessions, ConnectionBreaks(s) \/ SocketReused(s)
        PROVE  DispatchInv'
    BY <1>2, BreakStep
  <1>3. ASSUME NEW d \in Dispatchers, Dispatcher(d) PROVE DispatchInv'
    BY <1>3, BeginStep, FindCachedStep, ReadFileStep, ListingStep, ListHeadingStep,
       StoreStep, RaceStep, SendingStep DEF Dispatcher
  <1>4. CASE UNCHANGED vars
    <2>1. /\ queue' = queue /\ pc' = pc /\ session' = session /\ draft' = draft
          /\ total_bytes' = total_bytes /\ cache_' = cache_ /\ cwd' = cwd

          /\ broken' = broken /\ reused' = reused /\ delivered' = delivered /\ response' = response
      BY <1>4 DEF vars, sharedVars, socketVars
    <2>2. SharedGrows /\ \A t : Kept(t)
      BY <2>1 DEF SharedGrows, Kept
    <2>3. \A x \in Dispatchers : QueueInv(x)' /\ FrontInv(x)'
      BY <2>1, <2>2, Elsewhere DEF DispatchInv
    <2>4. TypeOK' /\ OneQueueEach' /\ CacheInv' /\ NewInv'
      BY <2>1 DEF DispatchInv, TypeOK, OneQueueEach, CacheInv, NewInv, Untouched
    <2>5. UncachedIsDeliveredWhole'
      BY <2>1 DEF DispatchInv, UncachedIsDeliveredWhole, Finished, Queued
    <2> QED  BY <2>3, <2>4, <2>5 DEF DispatchInv
  <1> QED  BY <1>1, <1>2, <1>3, <1>4 DEF Next

LEMMA Inductive == Spec => []DispatchInv
  BY DispatchInit, DispatchStep, PTL DEF Spec

\* Dispatchers and the cache they share keep every variable to its values; in
\* particular no part of a file is ever counted from a negative offset.
THEOREM TypeCorrect == Spec => []TypeOK
  <1>1. DispatchInv => TypeOK
    BY DEF DispatchInv
  <1> QED  BY <1>1, Inductive, PTL

\* dispatchMessageQueue and onClientRequest: whatever mix of short sends,
\* would-blocks and rotations a response goes through, and whoever replaces the
\* cache entry of its file meanwhile, what is delivered and what is left to send
\* fill the places of the response, none left out and none twice.
THEOREM NoGapsNoRepeats == Spec => []ResumesExactly
  <1>1. DispatchInv => ResumesExactly
    <2> SUFFICES ASSUME DispatchInv, NEW d \in Dispatchers, NEW i \in DOMAIN queue[d],
                        NEW s, s = queue[d][i], s \notin broken, pc[d] # "undefined",
                        response[s] # <<>>,
                        session[s].is_cached => session[s].path \in Files
                 PROVE  Places(delivered[s] \o (IF i = 1 /\ pc[d] = "send" THEN Unsent(d)
                                                ELSE session[s].send_message))
                          = Places(response[s])
      BY DEF ResumesExactly
    <2>1. TypeOK /\ QueueInv(d) /\ FrontInv(d)
      BY DEF DispatchInv
    <2>2. s \in Sessions
      BY <2>1 DEF TypeOK
    <2>3. CASE i # 1 \/ pc[d] = "idle"
      <3>1. Waiting(s)
        BY <2>1, <2>3 DEF QueueInv
      <3>2. delivered[s] \o session[s].send_message = response[s]
        BY <3>1 DEF Waiting, Untouched, Continues
      <3>3. ~(i = 1 /\ pc[d] = "send")
        BY <2>3
      <3> QED  BY <3>2, <3>3
    <2>4. CASE i = 1 /\ pc[d] # "idle"
      <3>1. s = Current(d)
        BY <2>1, <2>4, FrontIn DEF FrontInv
      <3>2. CASE pc[d] = "send"
        <4>1. SendingTo(s, Unsent(d))
          BY <2>1, <3>1, <3>2 DEF FrontInv
        <4>2. Places(delivered[s] \o Unsent(d)) = Places(response[s])
          BY <4>1 DEF SendingTo, Continues, FillsPlaces
        <4> QED  BY <2>4, <3>2, <4>2
      <3>3. CASE pc[d] = "store"
        <4>1. Storing(s) /\ session[s].send_message \in Seq(Part)
          BY <2>1, <2>2, <3>1, <3>3 DEF FrontInv, TypeOK
        <4>2. delivered[s] \o session[s].send_message = response[s]
          BY <4>1, ConcatEmptySeq DEF Storing, Continues
        <4> QED  BY <3>3, <4>2
      <3>4. CASE pc[d] = "find" \/ pc[d] \in {"chdir", "names", "links", "heading"}
        BY <2>1, <3>1, <3>4 DEF FrontInv, Composing, Untouched
      <3>5. pc[d] \in {"idle", "find", "chdir", "names", "links",
                       "heading", "store", "send", "undefined"}
        BY <2>1 DEF TypeOK
      <3> QED  BY <2>4, <3>2, <3>3, <3>4, <3>5
    <2> QED  BY <2>3, <2>4
  <1> QED  BY <1>1, Inductive, PTL

\* dispatchMessageQueue: a session whose response is not in the cache is popped
\* only when its client has the whole response, or is gone; also while other
\* connections break and their socket numbers are given away.
THEOREM NotGivenUpHalfWay == Spec => []UncachedIsDeliveredWhole
  <1>1. DispatchInv => UncachedIsDeliveredWhole
    BY DEF DispatchInv
  <1> QED  BY <1>1, Inductive, PTL

\* onClientRequest and the unlocked cache_: any number of dispatchers may miss
\* the same file, read more or less of it and store it; what a hit finds has the
\* size of the whole file, its blocks from the first one on as far as one read()
\* got, and zeros in the places of the others.
THEOREM CacheEntriesAgree == Spec => []CachedFileKeepsItsPlaces
  <1>1. DispatchInv => CachedFileKeepsItsPlaces
    <2> SUFFICES ASSUME DispatchInv, NEW p \in Files, cache_[p] # <<>>
                 PROVE  /\ cache_[p][1].part = "header"
                        /\ cache_[p][1].n = FileSize[p]
                        /\ \E got \in 0 .. FILE_CHUNK : \A k \in 2 .. Len(cache_[p]) :
                             cache_[p][k] =
                               [part |-> IF k - 1 <= got THEN "block" ELSE "zeros",
                                of |-> p, n |-> k - 1]
                        /\ Len(cache_[p]) > FILE_CHUNK \/ Len(cache_[p]) = FileSize[p] + 1
      BY DEF CachedFileKeepsItsPlaces
    <2>1. PICK got \in 0 .. FILE_CHUNK : cache_[p] = Beginning(p, got)
      BY DEF DispatchInv, CacheInv, Begins
    <2>2. /\ Len(cache_[p]) = 1 + Least(FileSize[p], FILE_CHUNK)
          /\ cache_[p][1] = [part |-> "header", of |-> NoPath, n |-> FileSize[p]]
          /\ \A k \in 2 .. Len(cache_[p]) :
               cache_[p][k] = [part |-> IF k - 1 <= got THEN "block" ELSE "zeros",
                               of |-> p, n |-> k - 1]
      BY <2>1, BeginningIs
    <2>3. Len(cache_[p]) > FILE_CHUNK \/ Len(cache_[p]) = FileSize[p] + 1
      BY <2>2, ConstantsOK DEF Least
    <2> QED  BY <2>2, <2>3
  <1> QED  BY <1>1, Inductive, PTL
=============================================================================
