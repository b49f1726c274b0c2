-------------------------- MODULE OpenServerProofs --------------------------
(***************************************************************************)
(* Proofs about OpenServer, for any number of sockets, connections,        *)
(* dispatchers and requests: where a response goes when sockets are reused,*)
(* and in which order a dispatcher answers.                                *)
(***************************************************************************)
EXTENDS OpenServer, MessageProcessorProofs

-----------------------------------------------------------------------------
\* The composition keeps what MessageProcessorProofs shows of its part.

\* Every step of the server is a step of the hand-over or leaves it alone.
LEMMA HandOverStep == [ServerNext]_allVars => [Next]_vars
BY DEF ServerNext, allVars, Accept, Close, Request, Write, HandOver, Next

LEMMA HandOverInvariance == ServerSpec => [](TypeInv /\ HoldInv)
<1>1. ServerInit => TypeInv /\ HoldInv
  BY InitType, InitHold DEF ServerInit
<1>2. TypeInv /\ HoldInv /\ [ServerNext]_allVars => (TypeInv /\ HoldInv)'
  BY HandOverStep, StepType, StepHold
<1> QED  BY <1>1, <1>2, PTL DEF ServerSpec

\* The session a dispatcher works on is one that was assigned to it and is not
\* finished, and all assigned requests have been accepted.
LEMMA AtWork ==
    ASSUME TypeInv, HoldInv, NEW d \in Dispatchers, dispPc[d] = "work"
    PROVE  /\ queue[d] # <<>> /\ queue[d] \in Seq(Nat)
           /\ Head(queue[d]) = queue[d][1]
           /\ Head(queue[d]) \in Given(d) \ finished
           /\ DOMAIN assigned \subseteq 1 .. accepted
<1>1. queue[d] # <<>> /\ queue[d] \in Seq(Nat)
  BY DEF TypeInv, TypeOK, HasWhatItHandles
<1>2. Head(queue[d]) = queue[d][1] /\ Head(queue[d]) \in Elems(queue[d])
  BY <1>1, TailFacts
<1>3. Elems(queue[d]) = Given(d) \ finished
  BY DEF HoldInv, HeldExactlyOnce
<1>4. DOMAIN assigned \subseteq 1 .. accepted
  <2>1. Unassigned \in Seq(Nat) /\ assigned \in Seq(Dispatchers)
    BY TailFacts DEF TypeInv, TypeOK, HasWhatItHandles, Unassigned
  <2>2. Len(Unassigned) \in Nat /\ Len(assigned) \in Nat
        /\ DOMAIN assigned = 1 .. Len(assigned)
    BY <2>1, LenProperties
  <2> QED  BY <2>2 DEF HoldInv, HeldExactlyOnce, PendingInOrder
<1> QED  BY <1>1, <1>2, <1>3, <1>4

-----------------------------------------------------------------------------
\* Where responses go.

Session == [socket : Sockets, connection : Nat]

\* There is a session for every request the processor was given, its connection
\* existed, and responses were written to connections that existed.
ServerTypeOK ==
    /\ connections \in Nat
    /\ owner \in [Sockets -> 0 .. connections]
    /\ session \in Seq(Session)
    /\ Len(session) = accepted
    /\ \A n \in DOMAIN session : session[n].connection \in 1 .. connections
    /\ written \subseteq (DOMAIN session) \X (1 .. connections)

\* A connection has one socket at most.
OneSocketEach ==
    \A f, g \in Sockets : owner[f] = owner[g] /\ owner[f] # 0 => f = g

\* The socket of a session belongs to the connection of the session, to nobody
\* or to a later connection; in the last two cases that connection is gone.
SocketMovesOn ==
    \A n \in DOMAIN session :
        /\ \/ owner[session[n].socket] = 0
           \/ owner[session[n].socket] >= session[n].connection
        /\ \A f \in Sockets :
             owner[f] = session[n].connection => f = session[n].socket

OwnerInv ==
    ServerTypeOK /\ OneSocketEach /\ SocketMovesOn /\ StrangersOnlyAfterClose

LEMMA InitOwner == ServerInit => OwnerInv
<1> SUFFICES ASSUME ServerInit PROVE OwnerInv
  OBVIOUS
<1>1. /\ connections = 0 /\ owner = [f \in Sockets |-> 0]
      /\ session = <<>> /\ written = {} /\ accepted = 0
  BY DEF ServerInit, Init
<1> QED
  BY <1>1 DEF OwnerInv, ServerTypeOK, OneSocketEach, SocketMovesOn,
              StrangersOnlyAfterClose

LEMMA AcceptOwner ==
    ASSUME OwnerInv, NEW f \in Sockets, Accept(f)
    PROVE  OwnerInv'
<1>1. /\ connections' = connections + 1
      /\ owner' = [owner EXCEPT ![f] = connections + 1]
      /\ owner[f] = 0
      /\ UNCHANGED <<session, written, accepted>>
  BY DEF Accept, Free, vars, pollVars
<1>2. ServerTypeOK'
  BY <1>1 DEF OwnerInv, ServerTypeOK
<1>3. \A g \in Sockets : owner'[g] = IF g = f THEN connections + 1 ELSE owner[g]
  BY <1>1 DEF OwnerInv, ServerTypeOK
<1>4. connections \in Nat /\ \A g \in Sockets : owner[g] \in 0 .. connections
  BY DEF OwnerInv, ServerTypeOK
<1>5. OneSocketEach'
  BY <1>3, <1>4 DEF OwnerInv, OneSocketEach
<1>6. \A n \in DOMAIN session : /\ session[n] \in Session
                                /\ session[n].connection \in 1 .. connections
  BY DEF OwnerInv, ServerTypeOK
<1>7. SocketMovesOn'
  BY <1>1, <1>3, <1>4, <1>6 DEF OwnerInv, SocketMovesOn, Session
<1>8. StrangersOnlyAfterClose'
  <2> SUFFICES ASSUME NEW w \in written, w[2] # session[w[1]].connection
               PROVE  /\ w[2] > session[w[1]].connection
                      /\ \A g \in Sockets : owner'[g] # session[w[1]].connection
    BY <1>1 DEF StrangersOnlyAfterClose, IsOpen
  <2>1. w[1] \in DOMAIN session
    BY DEF OwnerInv, ServerTypeOK
  <2>2. /\ w[2] > session[w[1]].connection
        /\ \A g \in Sockets : owner[g] # session[w[1]].connection
    BY DEF OwnerInv, StrangersOnlyAfterClose, IsOpen
  <2> QED  BY <1>3, <1>4, <1>6, <2>1, <2>2
<1> QED  BY <1>2, <1>5, <1>7, <1>8 DEF OwnerInv

LEMMA CloseOwner ==
    ASSUME OwnerInv, NEW f \in Sockets, Close(f)
    PROVE  OwnerInv'
<1>1. /\ owner' = [owner EXCEPT ![f] = 0]
      /\ UNCHANGED <<connections, session, written, accepted>>
  BY DEF Close, vars, pollVars
<1>2. ServerTypeOK'
  BY <1>1 DEF OwnerInv, ServerTypeOK
<1>3. \A g \in Sockets : owner'[g] = IF g = f THEN 0 ELSE owner[g]
  BY <1>1 DEF OwnerInv, ServerTypeOK
<1>4. \A n \in DOMAIN session : /\ session[n] \in Session
                                /\ session[n].connection \in 1 .. connections
  BY DEF OwnerInv, ServerTypeOK
<1>5. OneSocketEach'
  BY <1>3 DEF OwnerInv, OneSocketEach
<1>6. SocketMovesOn'
  BY <1>1, <1>3, <1>4 DEF OwnerInv, SocketMovesOn, Session
<1>7. StrangersOnlyAfterClose'
  <2> SUFFICES ASSUME NEW w \in written, w[2] # session[w[1]].connection
               PROVE  /\ w[2] > session[w[1]].connection
                      /\ \A g \in Sockets : owner'[g] # session[w[1]].connection
    BY <1>1 DEF StrangersOnlyAfterClose, IsOpen
  <2>1. w[1] \in DOMAIN session
    BY DEF OwnerInv, ServerTypeOK
  <2>2. /\ w[2] > session[w[1]].connection
        /\ \A g \in Sockets : owner[g] # session[w[1]].connection
    BY DEF OwnerInv, StrangersOnlyAfterClose, IsOpen
  <2> QED  BY <1>3, <1>4, <2>1, <2>2
<1> QED  BY <1>2, <1>5, <1>6, <1>7 DEF OwnerInv

LEMMA RequestOwner ==
    ASSUME TypeInv, OwnerInv, NEW f \in Sockets, Request(f)
    PROVE  OwnerInv'
<1> DEFINE s == [socket |-> f, connection |-> owner[f]]
<1>1. /\ owner[f] # 0
      /\ session' = Append(session, s)
      /\ accepted' = accepted + 1
      /\ UNCHANGED <<connections, owner, written>>
  BY DEF Request, NewSession, onNewClientMessage
<1>2. /\ connections \in Nat /\ owner \in [Sockets -> 0 .. connections]
      /\ session \in Seq(Session) /\ Len(session) = accepted
      /\ \A n \in DOMAIN session : session[n].connection \in 1 .. connections
      /\ written \subseteq (DOMAIN session) \X (1 .. connections)
  BY DEF OwnerInv, ServerTypeOK
<1>3. s \in Session /\ s.socket = f /\ s.connection = owner[f]
      /\ owner[f] \in 1 .. connections
  BY <1>1, <1>2 DEF Session
<1> HIDE DEF s
<1>4. /\ session' \in Seq(Session)
      /\ Len(session) \in Nat /\ Len(session') = Len(session) + 1
      /\ DOMAIN session = 1 .. Len(session)
      /\ DOMAIN session' = 1 .. Len(session) + 1
      /\ \A n \in DOMAIN session : session'[n] = session[n]
      /\ session'[Len(session) + 1] = s
  <2>1. session' \in Seq(Session)
    BY <1>1, <1>2, <1>3, AppendProperties
  <2> QED  BY <1>1, <1>2, <1>3, <2>1, AppendProperties, LenProperties
<1>5. \A n \in DOMAIN session' :
        \/ n \in DOMAIN session /\ session'[n] = session[n]
        \/ session'[n] = s
  BY <1>4
<1>6. ServerTypeOK'
  <2>1. \A n \in DOMAIN session' : session'[n].connection \in 1 .. connections
    BY <1>2, <1>3, <1>5
  <2>2. DOMAIN session \subseteq DOMAIN session'
    BY <1>4
  <2> QED  BY <1>1, <1>2, <1>4, <2>1, <2>2 DEF ServerTypeOK
<1>7. OneSocketEach'
  BY <1>1 DEF OwnerInv, OneSocketEach
<1>8. SocketMovesOn'
  <2>1. ASSUME NEW n \in DOMAIN session'
        PROVE  /\ \/ owner[session'[n].socket] = 0
                  \/ owner[session'[n].socket] >= session'[n].connection
               /\ \A g \in Sockets :
                    owner[g] = session'[n].connection => g = session'[n].socket
    <3>1. CASE n \in DOMAIN session /\ session'[n] = session[n]
      BY <3>1 DEF OwnerInv, SocketMovesOn
    <3>2. CASE session'[n] = s
      BY <1>1, <1>2, <1>3, <3>2 DEF OwnerInv, OneSocketEach
    <3> QED  BY <1>5, <3>1, <3>2
  <2> QED  BY <1>1, <2>1 DEF SocketMovesOn
<1>9. StrangersOnlyAfterClose'
  <2>1. \A w \in written : session'[w[1]] = session[w[1]]
    BY <1>2, <1>4
  <2> QED
    BY <1>1, <2>1 DEF OwnerInv, StrangersOnlyAfterClose, IsOpen
<1> QED  BY <1>6, <1>7, <1>8, <1>9 DEF OwnerInv

LEMMA WriteOwner ==
    ASSUME TypeInv, HoldInv, OwnerInv, NEW d \in Dispatchers, Write(d)
    PROVE  OwnerInv'
<1> DEFINE n == Head(queue[d])
           c == owner[session[n].socket]
<1>1. /\ dispPc[d] = "work" /\ c # 0
      /\ written' = written \cup {<<n, c>>}
      /\ UNCHANGED <<connections, owner, session, accepted>>
  BY DEF Write, vars, pollVars
<1>2. n \in DOMAIN session
  <2>1. n \in 1 .. accepted
    BY <1>1, AtWork DEF Given
  <2>2. DOMAIN session = 1 .. accepted
    BY LenProperties DEF OwnerInv, ServerTypeOK
  <2> QED  BY <2>1, <2>2
<1> HIDE DEF n
<1>3. /\ session[n] \in Session /\ session[n].socket \in Sockets
      /\ session[n].connection \in 1 .. connections
      /\ connections \in Nat /\ c \in 1 .. connections
  <2>1. /\ session \in Seq(Session) /\ connections \in Nat
        /\ owner \in [Sockets -> 0 .. connections]
        /\ session[n].connection \in 1 .. connections
    BY <1>2 DEF OwnerInv, ServerTypeOK
  <2>2. session[n] \in Session
    BY <1>2, <2>1, ElementOfSeq, LenProperties
  <2>3. session[n].socket \in Sockets
    BY <2>2 DEF Session
  <2>4. c \in 0 .. connections
    BY <2>1, <2>3
  <2> QED  BY <1>1, <2>1, <2>2, <2>3, <2>4
<1>4. ServerTypeOK'
  BY <1>1, <1>2, <1>3 DEF OwnerInv, ServerTypeOK
<1>5. OneSocketEach' /\ SocketMovesOn'
  BY <1>1 DEF OwnerInv, OneSocketEach, SocketMovesOn
<1>6. c # session[n].connection => c > session[n].connection
                                   /\ ~IsOpen(session[n].connection)
  BY <1>1, <1>2, <1>3 DEF OwnerInv, SocketMovesOn, IsOpen
<1>7. StrangersOnlyAfterClose'
  BY <1>1, <1>6 DEF OwnerInv, StrangersOnlyAfterClose, IsOpen
<1> QED  BY <1>4, <1>5, <1>7 DEF OwnerInv

LEMMA StepOwner ==
    TypeInv /\ HoldInv /\ OwnerInv /\ [ServerNext]_allVars => OwnerInv'
<1> SUFFICES ASSUME TypeInv, HoldInv, OwnerInv, [ServerNext]_allVars
             PROVE  OwnerInv'
  OBVIOUS
<1>1. CASE HandOver \/ UNCHANGED allVars
  <2>1. UNCHANGED <<connections, owner, session, written, accepted>>
    BY <1>1 DEF HandOver, allVars, serverVars, vars, pollVars, NotifyProcessor,
                Processor, ProcessorWait, ProcessorRelock, NotifyDispatcher,
                ProcessorUnlock, AssignToWorker, Dispatcher, DispatcherWait,
                DispatcherBegin, DispatcherEmptyFront, DispatcherEnd
  <2> QED
    BY <2>1 DEF OwnerInv, ServerTypeOK, OneSocketEach, SocketMovesOn,
                StrangersOnlyAfterClose, IsOpen
<1> QED
  BY <1>1, AcceptOwner, CloseOwner, RequestOwner, WriteOwner DEF ServerNext

\* Although sessions keep socket numbers that accept() hands out again, a
\* response reaches another connection only when the one that asked is closed,
\* and then a later one (ClientSession.socket, send() in dispatchMessageQueue).
THEOREM ResponsesStayWithTheirConnection == ServerSpec => []StrangersOnlyAfterClose
<1>1. OwnerInv => StrangersOnlyAfterClose
  BY DEF OwnerInv
<1> QED
  BY <1>1, HandOverInvariance, InitOwner, StepOwner, PTL DEF ServerSpec
-----------------------------------------------------------------------------
\* The order of responses.

\* A queue is in the order of arrival, except for sessions that have blocked:
\* what stands before an earlier request is there because that one was delayed.
InArrivalOrder(q) ==
    \A i, j \in DOMAIN q : i < j /\ q[j] < q[i] => q[j] \in delayed

OrderInv ==
    /\ \A d \in Dispatchers : InArrivalOrder(queue[d])
    /\ ewouldblock_flag \subseteq delayed
    /\ \A w \in written : w[1] \in DOMAIN assigned
    /\ NoOvertaking

LEMMA InitOrder == ServerInit => OrderInv
BY DEF ServerInit, Init, OrderInv, InArrivalOrder, NoOvertaking

\* More delays, more finished and more assigned requests do no harm to what has
\* been written.
LEMMA WrittenStays ==
    ASSUME TypeInv, OrderInv, written' = written,
           delayed \subseteq delayed', finished \subseteq finished',
           \A n \in DOMAIN assigned : n \in DOMAIN assigned' /\ assigned'[n] = assigned[n]
    PROVE  /\ \A w \in written' : w[1] \in DOMAIN assigned'
           /\ NoOvertaking'
<1>1. \A w \in written : w[1] \in DOMAIN assigned
  BY DEF OrderInv
<1>2. ASSUME NEW w \in written, NEW n \in 1 .. w[1] - 1,
             assigned'[n] = assigned'[w[1]], n \notin delayed'
      PROVE  n \in finished'
  <2>1. DOMAIN assigned = 1 .. Len(assigned) /\ Len(assigned) \in Nat
    BY LenProperties DEF TypeInv, TypeOK
  <2>2. n \in DOMAIN assigned
    BY <1>1, <2>1
  <2>3. assigned[n] = assigned[w[1]]
    BY <1>1, <1>2, <2>2
  <2> QED  BY <1>2, <2>3 DEF OrderInv, NoOvertaking
<1> QED  BY <1>1, <1>2 DEF NoOvertaking

\* A new request has the largest number.
LEMMA AppendInOrder ==
    ASSUME NEW q \in Seq(Nat), NEW n \in Nat, InArrivalOrder(q),
           \A m \in Elems(q) : m < n
    PROVE  InArrivalOrder(Append(q, n))
<1> DEFINE a == Append(q, n)
<1>1. /\ Len(q) \in Nat /\ DOMAIN q = 1 .. Len(q) /\ DOMAIN a = 1 .. Len(q) + 1
      /\ \A i \in 1 .. Len(q) : a[i] = q[i]
      /\ a[Len(q) + 1] = n
      /\ \A i \in 1 .. Len(q) : q[i] \in Nat
  <2>1. a \in Seq(Nat)
    BY AppendProperties
  <2> QED  BY <2>1, AppendProperties, LenProperties, ElementOfSeq
<1>2. \A i \in 1 .. Len(q) : q[i] < n
  BY <1>1 DEF Elems
<1> HIDE DEF a
<1>3. InArrivalOrder(a)
  BY <1>1, <1>2 DEF InArrivalOrder
<1> QED  BY <1>3 DEF a

LEMMA TailInOrder ==
    ASSUME NEW q \in Seq(Nat), q # <<>>, InArrivalOrder(q)
    PROVE  InArrivalOrder(Tail(q))
<1>1. /\ Len(q) \in Nat \ {0} /\ DOMAIN q = 1 .. Len(q)
      /\ DOMAIN Tail(q) = 1 .. Len(q) - 1
      /\ \A i \in 1 .. Len(q) - 1 : Tail(q)[i] = q[i + 1]
  BY TailFacts, LenProperties, EmptySeq
<1> QED  BY <1>1 DEF InArrivalOrder

\* Rotation moves a session to the back only when its send has blocked.
LEMMA RotatedInOrder ==
    ASSUME NEW q \in Seq(Nat), q # <<>>, InArrivalOrder(q),
           ewouldblock_flag \subseteq delayed
    PROVE  InArrivalOrder(Rotated(q))
<1>1. CASE Rotated(q) = q
  BY <1>1
<1>2. CASE Head(q) \in ewouldblock_flag /\ Rotated(q) = Append(Tail(q), Head(q))
  <2> DEFINE t == Tail(q)
             h == Head(q)
             a == Append(t, h)
  <2>1. t \in Seq(Nat) /\ h \in Nat /\ InArrivalOrder(t) /\ h \in delayed
    BY <1>2, TailFacts, TailInOrder
  <2> HIDE DEF t, h
  <2>2. /\ Len(t) \in Nat /\ DOMAIN t = 1 .. Len(t) /\ DOMAIN a = 1 .. Len(t) + 1
        /\ \A i \in 1 .. Len(t) : a[i] = t[i]
        /\ a[Len(t) + 1] = h
    <3>1. a \in Seq(Nat)
      BY <2>1, AppendProperties
    <3> QED  BY <2>1, <3>1, AppendProperties, LenProperties
  <2> HIDE DEF a
  <2>3. InArrivalOrder(a)
    <3> SUFFICES ASSUME NEW i \in DOMAIN a, NEW j \in DOMAIN a, i < j, a[j] < a[i]
                 PROVE  a[j] \in delayed
      BY DEF InArrivalOrder
    <3>1. CASE j = Len(t) + 1
      BY <2>1, <2>2, <3>1
    <3>2. CASE j # Len(t) + 1
      <4>1. i \in DOMAIN t /\ j \in DOMAIN t /\ a[i] = t[i] /\ a[j] = t[j]
        BY <2>2, <3>2
      <4> QED  BY <2>1, <4>1 DEF InArrivalOrder
    <3> QED  BY <3>1, <3>2
  <2> QED  BY <1>2, <2>3 DEF a, t, h
<1> QED  BY <1>1, <1>2 DEF Rotated

\* The processor gives dispatchers requests in the order of arrival.
LEMMA AssignOrder ==
    ASSUME TypeInv, HoldInv, OrderInv, AssignToWorker,
           UNCHANGED written, delayed' = delayed \cup ewouldblock_flag'
    PROVE  OrderInv'
<1> DEFINE n == Head(qclients_)
<1>1. /\ qclients_ \in Seq(Nat) /\ qclients_ # <<>>
      /\ assigned \in Seq(Dispatchers) /\ worker \in Dispatchers
      /\ queue \in [Dispatchers -> Seq(Nat)]
      /\ n \in Nat /\ n = qclients_[1]
  BY TailFacts DEF TypeInv, TypeOK, AssignToWorker
<1>2. /\ Unassigned = qclients_
      /\ assigned' = Append(assigned, worker)
      /\ queue' = [queue EXCEPT ![worker] = Append(queue[worker], n)]
      /\ UNCHANGED <<ewouldblock_flag, finished>>
  BY DEF AssignToWorker, Unassigned
<1>3. /\ Len(assigned) \in Nat /\ DOMAIN assigned = 1 .. Len(assigned)
      /\ 1 \in DOMAIN qclients_
  BY <1>1, LenProperties, EmptySeq
<1>4. n = Len(assigned) + 1
  BY <1>1, <1>2, <1>3 DEF HoldInv, HeldExactlyOnce, PendingInOrder
<1> HIDE DEF n
<1>5. delayed' = delayed
  BY <1>2 DEF OrderInv
<1>6. ASSUME NEW d \in Dispatchers PROVE InArrivalOrder(queue'[d])
  <2>1. InArrivalOrder(queue[d]) /\ queue[d] \in Seq(Nat)
    BY <1>1 DEF OrderInv
  <2>2. CASE d = worker
    <3>1. Elems(queue[d]) \subseteq DOMAIN assigned
      BY DEF HoldInv, HeldExactlyOnce, Given
    <3>2. \A m \in Elems(queue[d]) : m < n
      BY <1>3, <1>4, <3>1
    <3>3. queue'[d] = Append(queue[d], n)
      BY <1>1, <1>2, <2>2
    <3> QED  BY <1>1, <2>1, <3>2, <3>3, AppendInOrder
  <2>3. CASE d # worker
    BY <1>1, <1>2, <2>1, <2>3
  <2> QED  BY <2>2, <2>3
<1>7. \A m \in DOMAIN assigned : m \in DOMAIN assigned' /\ assigned'[m] = assigned[m]
  <2>1. assigned' \in Seq(Dispatchers) /\ Len(assigned') = Len(assigned) + 1
    BY <1>1, <1>2, AppendProperties
  <2> QED  BY <1>1, <1>2, <1>3, <2>1, AppendProperties, LenProperties
<1>8. (\A w \in written' : w[1] \in DOMAIN assigned') /\ NoOvertaking'
  BY <1>2, <1>5, <1>7, WrittenStays
<1> QED  BY <1>2, <1>5, <1>6, <1>8 DEF OrderInv, InArrivalOrder

LEMMA BeginOrder ==
    ASSUME TypeInv, OrderInv, NEW d \in Dispatchers, DispatcherBegin(d),
           UNCHANGED written, delayed' = delayed \cup ewouldblock_flag'
    PROVE  OrderInv'
<1>1. /\ queue \in [Dispatchers -> Seq(Nat)]
      /\ queue[d] \in Seq(Nat) /\ queue[d] # <<>>
      /\ queue' = [queue EXCEPT ![d] = Rotated(queue[d])]
      /\ ewouldblock_flag' \subseteq ewouldblock_flag
      /\ UNCHANGED <<assigned, finished>>
  BY DEF TypeInv, TypeOK, DispatcherBegin, turnVars
<1>2. delayed' = delayed
  BY <1>1 DEF OrderInv
<1>3. ASSUME NEW e \in Dispatchers PROVE InArrivalOrder(queue'[e])
  <2>1. InArrivalOrder(queue[e])
    BY DEF OrderInv
  <2>2. InArrivalOrder(Rotated(queue[d]))
    BY <1>1, RotatedInOrder DEF OrderInv
  <2> QED  BY <1>1, <2>1, <2>2
<1>4. (\A w \in written' : w[1] \in DOMAIN assigned') /\ NoOvertaking'
  BY <1>1, <1>2, WrittenStays
<1> QED  BY <1>1, <1>2, <1>3, <1>4 DEF OrderInv, InArrivalOrder

LEMMA EndOrder ==
    ASSUME TypeInv, OrderInv, NEW d \in Dispatchers, DispatcherEnd(d),
           UNCHANGED written, delayed' = delayed \cup ewouldblock_flag'
    PROVE  OrderInv'
<1>1. /\ queue \in [Dispatchers -> Seq(Nat)]
      /\ queue[d] \in Seq(Nat) /\ queue[d] # <<>>
      /\ queue' = queue \/ queue' = [queue EXCEPT ![d] = Tail(queue[d])]
      /\ finished \subseteq finished'
      /\ assigned' = assigned
  BY DEF TypeInv, TypeOK, HasWhatItHandles, DispatcherEnd, turnVars
<1>2. ASSUME NEW e \in Dispatchers PROVE InArrivalOrder(queue'[e])
  <2>1. InArrivalOrder(queue[e])
    BY DEF OrderInv
  <2>2. InArrivalOrder(Tail(queue[d]))
    BY <1>1, TailInOrder DEF OrderInv
  <2> QED  BY <1>1, <2>1, <2>2
<1>3. (\A w \in written' : w[1] \in DOMAIN assigned') /\ NoOvertaking'
  BY <1>1, WrittenStays
<1> QED  BY <1>2, <1>3 DEF OrderInv, InArrivalOrder

\* The session written for is in front: whatever of its dispatcher came before
\* it and is not behind it in the queue is finished.
LEMMA WriteOrder ==
    ASSUME TypeInv, HoldInv, OrderInv, NEW d \in Dispatchers, Write(d)
    PROVE  OrderInv'
<1> DEFINE n == Head(queue[d])
           c == owner[session[n].socket]
<1>1. /\ dispPc[d] = "work"
      /\ written' = written \cup {<<n, c>>}
      /\ UNCHANGED <<queue, ewouldblock_flag, assigned, finished, delayed>>
  BY DEF Write, vars, turnVars, sessionVars
<1>2. /\ queue[d] # <<>> /\ queue[d] \in Seq(Nat)
      /\ n = queue[d][1] /\ n \in Given(d)
  BY <1>1, AtWork
<1> HIDE DEF n, c
<1>3. ASSUME NEW m \in 1 .. n - 1, assigned[m] = assigned[n], m \notin delayed
      PROVE  m \in finished
  <2>1. n \in DOMAIN assigned /\ assigned[n] = d /\ n \in Nat
    <3>1. DOMAIN assigned = 1 .. Len(assigned)
      BY LenProperties DEF TypeInv, TypeOK
    <3> QED  BY <1>2, <3>1 DEF Given
  <2>2. m \in Given(d)
    <3>1. DOMAIN assigned = 1 .. Len(assigned) /\ Len(assigned) \in Nat
      BY LenProperties DEF TypeInv, TypeOK
    <3> QED  BY <1>3, <2>1, <3>1 DEF Given
  <2> SUFFICES ASSUME m \notin finished PROVE FALSE
    OBVIOUS
  <2>3. m \in Elems(queue[d])
    BY <2>2 DEF HoldInv, HeldExactlyOnce
  <2>4. PICK j \in DOMAIN queue[d] : queue[d][j] = m
    BY <2>3 DEF Elems
  <2>5. 1 \in DOMAIN queue[d] /\ DOMAIN queue[d] = 1 .. Len(queue[d])
        /\ Len(queue[d]) \in Nat
    BY <1>2, LenProperties, EmptySeq
  <2>6. m < n
    BY <2>1
  <2>7. j # 1
    BY <1>2, <2>1, <2>4, <2>6
  <2>8. 1 < j /\ queue[d][j] < queue[d][1]
    BY <1>2, <2>4, <2>5, <2>6, <2>7
  <2>9. InArrivalOrder(queue[d])
    BY DEF OrderInv
  <2> QED  BY <1>3, <2>4, <2>5, <2>8, <2>9 DEF InArrivalOrder
<1>4. NoOvertaking'
  BY <1>1, <1>3 DEF OrderInv, NoOvertaking
<1>5. \A w \in written' : w[1] \in DOMAIN assigned
  BY <1>1, <1>2 DEF OrderInv, Given
<1> QED  BY <1>1, <1>4, <1>5 DEF OrderInv, InArrivalOrder

LEMMA StepOrder ==
    TypeInv /\ HoldInv /\ OrderInv /\ [ServerNext]_allVars => OrderInv'
<1> SUFFICES ASSUME TypeInv, HoldInv, OrderInv, [ServerNext]_allVars
             PROVE  OrderInv'
  OBVIOUS
<1>1. CASE UNCHANGED <<queue, ewouldblock_flag, assigned, finished, written, delayed>>
  BY <1>1 DEF OrderInv, InArrivalOrder, NoOvertaking
<1>2. CASE UNCHANGED allVars
  BY <1>1, <1>2 DEF allVars, serverVars, vars, turnVars, sessionVars
<1>3. ASSUME NEW f \in Sockets, Accept(f) \/ Close(f) \/ Request(f)
      PROVE  OrderInv'
  BY <1>1, <1>3 DEF Accept, Close, Request, onNewClientMessage, vars, turnVars,
                    sessionVars
<1>4. CASE HandOver
  <2>0. UNCHANGED written /\ delayed' = delayed \cup ewouldblock_flag'
    BY <1>4 DEF HandOver
  <2>1. CASE UNCHANGED <<queue, ewouldblock_flag, assigned, finished>>
    <3>1. delayed' = delayed
      BY <2>0, <2>1 DEF OrderInv
    <3> QED  BY <1>1, <2>0, <2>1, <3>1
  <2>2. CASE NotifyProcessor \/ Processor
    BY <2>1, <2>2 DEF NotifyProcessor, Processor, ProcessorWait, ProcessorRelock,
                      NotifyDispatcher, ProcessorUnlock, turnVars, sessionVars
  <2>3. ASSUME NEW d \in Dispatchers, DispatcherWait(d) \/ DispatcherEmptyFront(d)
        PROVE  OrderInv'
    BY <2>1, <2>3 DEF DispatcherWait, DispatcherEmptyFront, turnVars, sessionVars
  <2> QED
    BY <1>4, <2>0, <2>2, <2>3, AssignOrder, BeginOrder, EndOrder
       DEF HandOver, Dispatcher
<1> QED  BY <1>2, <1>3, <1>4, WriteOrder DEF ServerNext

\* A dispatcher answers its requests in the order of their arrival, except that
\* one whose send has blocked may be overtaken (the rotation at the top of
\* dispatchMessageQueue).
THEOREM OnlyDelayedAreOvertaken == ServerSpec => []NoOvertaking
<1>1. OrderInv => NoOvertaking
  BY DEF OrderInv
<1> QED
  BY <1>1, HandOverInvariance, InitOrder, StepOrder, PTL DEF ServerSpec
=============================================================================
