----------------------- MODULE MessageProcessorProofs -----------------------
(***************************************************************************)
(* Proofs about the hand-over of requests in MessageProcessor, for any     *)
(* number of dispatchers and of requests, any outcomes of an iteration and *)
(* with or without spurious wake-ups.                                      *)
(***************************************************************************)
EXTENDS MessageProcessor, SequenceTheorems, TLAPS

USE DEF pollVars, turnVars, sessionVars, Drained, NothingQueued

-----------------------------------------------------------------------------
\* Queues.

\* A push adds its element, and keeps the queue free of duplicates if that
\* element is new (std::queue::push).
LEMMA AppendFacts ==
    ASSUME NEW S, NEW q \in Seq(S), NEW e \in S
    PROVE  /\ Elems(Append(q, e)) = Elems(q) \cup {e}
           /\ Distinct(q) /\ e \notin Elems(q) => Distinct(Append(q, e))
<1> DEFINE a == Append(q, e)
<1>1. /\ Len(q) \in Nat
      /\ DOMAIN a = 1 .. Len(q) + 1
      /\ DOMAIN q = 1 .. Len(q)
  BY AppendProperties, LenProperties
<1>2. /\ \A i \in 1 .. Len(q) : a[i] = q[i]
      /\ a[Len(q) + 1] = e
  BY AppendProperties
<1> HIDE DEF a
<1>3. Elems(a) = Elems(q) \cup {e}
  <2>1. \A i \in DOMAIN a : a[i] \in Elems(q) \cup {e}
    BY <1>1, <1>2 DEF Elems
  <2>2. \A i \in DOMAIN q : q[i] \in Elems(a)
    BY <1>1, <1>2 DEF Elems
  <2>3. e \in Elems(a)
    BY <1>1, <1>2 DEF Elems
  <2> QED  BY <2>1, <2>2, <2>3 DEF Elems
<1>4. Distinct(q) /\ e \notin Elems(q) => Distinct(a)
  BY <1>1, <1>2 DEF Distinct, Elems
<1> QED  BY <1>3, <1>4 DEF a

\* A pop takes the front element out (std::queue::pop).
LEMMA TailFacts ==
    ASSUME NEW S, NEW q \in Seq(S), q # <<>>
    PROVE  /\ Head(q) \in S
           /\ Head(q) = q[1]
           /\ Head(q) \in Elems(q)
           /\ Tail(q) \in Seq(S)
           /\ Len(Tail(q)) = Len(q) - 1
           /\ \A i \in 1 .. Len(q) - 1 : Tail(q)[i] = q[i + 1]
           /\ Distinct(q) => /\ Elems(Tail(q)) = Elems(q) \ {Head(q)}
                             /\ Distinct(Tail(q))
<1> DEFINE t == Tail(q)
<1>1. /\ t \in Seq(S)
      /\ Len(t) = Len(q) - 1
      /\ Len(q) \in Nat \ {0}
      /\ DOMAIN t = 1 .. Len(q) - 1
      /\ DOMAIN q = 1 .. Len(q)
      /\ Head(q) \in S
  BY HeadTailProperties, LenProperties, EmptySeq
<1>2. Head(q) = q[1]
  OBVIOUS
<1>3. \A i \in 1 .. Len(q) - 1 : t[i] = q[i + 1]
  BY <1>1, HeadTailProperties
<1>4. Head(q) \in Elems(q)
  BY <1>1, <1>2 DEF Elems
<1> HIDE DEF t
<1>5. ASSUME Distinct(q)
      PROVE  Elems(t) = Elems(q) \ {Head(q)} /\ Distinct(t)
  <2>1. \A i \in DOMAIN t : i + 1 \in DOMAIN q /\ i + 1 # 1 /\ t[i] = q[i + 1]
    BY <1>1, <1>3
  <2>2. \A i \in DOMAIN t : t[i] \in Elems(q) \ {Head(q)}
    BY <1>1, <1>2, <1>5, <2>1 DEF Elems, Distinct
  <2>3. \A j \in DOMAIN q : q[j] # Head(q) => q[j] \in Elems(t)
    <3> SUFFICES ASSUME NEW j \in DOMAIN q, q[j] # Head(q)
                 PROVE  q[j] \in Elems(t)
      OBVIOUS
    <3>1. j - 1 \in DOMAIN t /\ t[j - 1] = q[j]
      BY <1>1, <1>2, <1>3
    <3> QED  BY <3>1 DEF Elems
  <2>4. Distinct(t)
    BY <1>1, <1>5, <2>1 DEF Distinct
  <2>5. Elems(t) \subseteq Elems(q) \ {Head(q)}
    BY <2>2 DEF Elems
  <2>6. Elems(q) \ {Head(q)} \subseteq Elems(t)
    BY <2>3 DEF Elems
  <2> QED  BY <2>4, <2>5, <2>6
<1> QED  BY <1>1, <1>2, <1>3, <1>4, <1>5 DEF t

\* Rotating a queue neither loses nor doubles a session.
LEMMA RotatedFacts ==
    ASSUME NEW S, NEW q \in Seq(S), q # <<>>
    PROVE  /\ Rotated(q) \in Seq(S)
           /\ Rotated(q) # <<>>
           /\ Distinct(q) => /\ Elems(Rotated(q)) = Elems(q)
                             /\ Distinct(Rotated(q))
<1>1. CASE Rotated(q) = q
  BY <1>1
<1>2. CASE Rotated(q) = Append(Tail(q), Head(q))
  <2> DEFINE t == Tail(q)
             h == Head(q)
  <2>1. /\ h \in S /\ t \in Seq(S) /\ h \in Elems(q)
        /\ Distinct(q) => Elems(t) = Elems(q) \ {h} /\ Distinct(t)
    BY TailFacts
  <2>2. Rotated(q) = Append(t, h)
    BY <1>2
  <2> HIDE DEF t, h
  <2>3. Append(t, h) \in Seq(S) /\ Append(t, h) # <<>>
    BY <2>1, AppendProperties
  <2>4. ASSUME Distinct(q)
        PROVE  Elems(Append(t, h)) = Elems(q) /\ Distinct(Append(t, h))
    <3>1. Elems(Append(t, h)) = Elems(t) \cup {h}
      BY <2>1, AppendFacts
    <3>2. Distinct(Append(t, h))
      BY <2>1, <2>4, AppendFacts
    <3> QED  BY <2>1, <2>4, <3>1, <3>2
  <2> QED  BY <2>2, <2>3, <2>4
<1> QED  BY <1>1, <1>2 DEF Rotated

\* The turn stays within the dispatchers, and the dispatcher just served is
\* found again from the turn (the worker chain of processMessageQueue).
LEMMA WorkerTurns ==
    ASSUME worker \in Dispatchers
    PROVE  /\ NextWorker(worker) \in Dispatchers
           /\ LastWorker \in Dispatchers
           /\ worker' = NextWorker(worker) => LastWorker' = worker
BY ConstantsOK DEF NextWorker, LastWorker, Dispatchers

-----------------------------------------------------------------------------
\* Type correctness.

\* The copy in front of qclients_ is there until its pop, and a dispatcher at
\* work has a session in front of its queue: front() and pop() are defined.
HasWhatItHandles ==
    /\ procPc = "notify" => qclients_ # <<>>
    /\ \A d \in Dispatchers : dispPc[d] = "work" => queue[d] # <<>>

TypeInv == TypeOK /\ HasWhatItHandles

LEMMA InitType == Init => TypeInv
BY ConstantsOK
   DEF Init, TypeInv, TypeOK, HasWhatItHandles, ProcPcs, DispPcs, Dispatchers

LEMMA StepType == TypeInv /\ [Next]_vars => TypeInv'
<1> SUFFICES ASSUME TypeInv, [Next]_vars PROVE TypeInv'
  OBVIOUS
<1> USE DEF TypeInv, TypeOK, HasWhatItHandles, ProcPcs, DispPcs
<1>1. CASE onNewClientMessage
  <2>1. accepted' \in 0 .. MaxRequests /\ accepted' \in Nat
    BY <1>1, ConstantsOK DEF onNewClientMessage
  <2>2. qclients_' \in Seq(Nat)
    BY <1>1, <2>1, AppendProperties DEF onNewClientMessage
  <2> QED
    BY <1>1, <2>1, <2>2 DEF onNewClientMessage, qclients_mutex_Free
<1>2. CASE NotifyProcessor
  BY <1>2 DEF NotifyProcessor
<1>3. CASE ProcessorWait
  BY <1>3 DEF ProcessorWait
<1>4. CASE ProcessorRelock
  BY <1>4 DEF ProcessorRelock
<1>5. CASE AssignToWorker
  <2> DEFINE n == Head(qclients_)
             q == queue[worker]
  <2>1. n \in Nat /\ q \in Seq(Nat)
    BY <1>5, TailFacts DEF AssignToWorker
  <2>2. queue' = [queue EXCEPT ![worker] = Append(q, n)]
    BY <1>5 DEF AssignToWorker
  <2> HIDE DEF n, q
  <2>3. Append(q, n) \in Seq(Nat) /\ Append(q, n) # <<>>
    BY ONLY <2>1, AppendProperties
  <2>4. Append(assigned, worker) \in Seq(Dispatchers)
    BY AppendProperties
  <2>5. TypeOK'
    BY <1>5, <2>2, <2>3, <2>4, WorkerTurns DEF AssignToWorker
  <2>6. HasWhatItHandles'
    BY <1>5, <2>2, <2>3 DEF AssignToWorker
  <2> QED  BY <2>5, <2>6
<1>6. CASE NotifyDispatcher
  <2>1. dispPc' \in [Dispatchers -> DispPcs]
    BY <1>6, WorkerTurns DEF NotifyDispatcher
  <2>2. \A d \in Dispatchers : dispPc'[d] = "work" => dispPc[d] = "work"
    BY <1>6, WorkerTurns DEF NotifyDispatcher
  <2>3. qclients_' \in Seq(Nat)
    BY <1>6, TailFacts DEF NotifyDispatcher
  <2> QED  BY <1>6, <2>1, <2>2, <2>3 DEF NotifyDispatcher
<1>7. CASE ProcessorUnlock
  BY <1>7 DEF ProcessorUnlock
<1>8. ASSUME NEW d \in Dispatchers, DispatcherWait(d) PROVE TypeInv'
  BY <1>8 DEF DispatcherWait
<1>9. ASSUME NEW d \in Dispatchers, DispatcherBegin(d) PROVE TypeInv'
  <2>1. Rotated(queue[d]) \in Seq(Nat) /\ Rotated(queue[d]) # <<>>
    BY <1>9, RotatedFacts DEF DispatcherBegin
  <2>2. TypeOK'
    BY <1>9, <2>1 DEF DispatcherBegin
  <2>3. HasWhatItHandles'
    BY <1>9, <2>1 DEF DispatcherBegin
  <2> QED  BY <2>2, <2>3
<1>10. ASSUME NEW d \in Dispatchers, DispatcherEmptyFront(d) PROVE TypeInv'
  BY <1>10 DEF DispatcherEmptyFront
<1>11. ASSUME NEW d \in Dispatchers, DispatcherEnd(d) PROVE TypeInv'
  <2>1. Head(queue[d]) \in Nat /\ Tail(queue[d]) \in Seq(Nat)
    BY <1>11, TailFacts DEF DispatcherEnd
  <2>2. /\ queue' \in [Dispatchers -> Seq(Nat)]
        /\ finished' \in SUBSET Nat
        /\ ewouldblock_flag' \in SUBSET Nat
    BY <1>11, <2>1 DEF DispatcherEnd
  <2>3. \A e \in Dispatchers : dispPc'[e] = "work" =>
            dispPc[e] = "work" /\ queue'[e] = queue[e]
    BY <1>11 DEF DispatcherEnd
  <2> QED  BY <1>11, <2>2, <2>3 DEF DispatcherEnd
<1>12. CASE SpuriousWakeup
  BY <1>12 DEF SpuriousWakeup
<1>13. CASE UNCHANGED vars
  BY <1>13 DEF vars
<1> QED
  BY <1>1, <1>2, <1>3, <1>4, <1>5, <1>6, <1>7, <1>8, <1>9, <1>10, <1>11,
     <1>12, <1>13 DEF Next, Processor, Dispatcher

LEMMA TypeInvariance == Spec => []TypeInv
BY InitType, StepType, PTL DEF Spec

\* Type correctness of the hand-over.
THEOREM TypeCorrect == Spec => []TypeOK
<1>1. TypeInv => TypeOK
  BY DEF TypeInv
<1> QED  BY <1>1, TypeInvariance, PTL

-----------------------------------------------------------------------------
\* No dispatcher sleeps on a request.

LEMMA InitNoSleep == Init => NoSleepOnWork
BY DEF Init, NoSleepOnWork

LEMMA StepNoSleep == TypeInv /\ NoSleepOnWork /\ [Next]_vars => NoSleepOnWork'
<1> SUFFICES ASSUME TypeInv, NoSleepOnWork, [Next]_vars PROVE NoSleepOnWork'
  OBVIOUS
<1>0. /\ worker \in Dispatchers
      /\ dispPc \in [Dispatchers -> DispPcs]
      /\ queue \in [Dispatchers -> Seq(Nat)]
  BY DEF TypeInv, TypeOK
<1> USE DEF NoSleepOnWork
<1>1. CASE onNewClientMessage
  BY <1>1 DEF onNewClientMessage, qclients_mutex_Free
<1>2. CASE NotifyProcessor
  BY <1>2 DEF NotifyProcessor, LastWorker
<1>3. CASE ProcessorWait
  BY <1>3 DEF ProcessorWait
<1>4. CASE ProcessorRelock
  BY <1>4 DEF ProcessorRelock
<1>5. CASE AssignToWorker
  \* Only the queue of worker grows, and its notify is now to come.
  <2>1. LastWorker' = worker /\ procPc' = "notify"
    BY <1>0, <1>5, WorkerTurns DEF AssignToWorker
  <2>2. \A d \in Dispatchers \ {worker} : queue'[d] = queue[d]
    BY <1>0, <1>5 DEF AssignToWorker
  <2> QED  BY <1>0, <1>5, <2>1, <2>2 DEF AssignToWorker
<1>6. CASE NotifyDispatcher
  <2>1. LastWorker \in Dispatchers
    BY <1>0, WorkerTurns
  <2> QED  BY <1>0, <1>6, <2>1 DEF NotifyDispatcher
<1>7. CASE ProcessorUnlock
  BY <1>7 DEF ProcessorUnlock
<1>8. ASSUME NEW d \in Dispatchers, DispatcherWait(d) PROVE NoSleepOnWork'
  BY <1>0, <1>8 DEF DispatcherWait, LastWorker
<1>9. ASSUME NEW d \in Dispatchers, DispatcherBegin(d) PROVE NoSleepOnWork'
  <2>1. dispPc'[d] = "work"
    BY <1>0, <1>9 DEF DispatcherBegin
  <2>2. \A e \in Dispatchers \ {d} : queue'[e] = queue[e] /\ dispPc'[e] = dispPc[e]
    BY <1>0, <1>9 DEF DispatcherBegin
  <2> QED  BY <1>9, <2>1, <2>2 DEF DispatcherBegin, LastWorker
<1>10. ASSUME NEW d \in Dispatchers, DispatcherEmptyFront(d) PROVE NoSleepOnWork'
  BY <1>0, <1>10 DEF DispatcherEmptyFront, LastWorker
<1>11. ASSUME NEW d \in Dispatchers, DispatcherEnd(d) PROVE NoSleepOnWork'
  <2>1. dispPc'[d] = "top"
    BY <1>0, <1>11 DEF DispatcherEnd
  <2>2. \A e \in Dispatchers \ {d} : queue'[e] = queue[e] /\ dispPc'[e] = dispPc[e]
    BY <1>0, <1>11 DEF DispatcherEnd
  <2> QED  BY <1>11, <2>1, <2>2 DEF DispatcherEnd, LastWorker
<1>12. CASE SpuriousWakeup
  BY <1>0, <1>12 DEF SpuriousWakeup, LastWorker
<1>13. CASE UNCHANGED vars
  BY <1>13 DEF vars, LastWorker
<1> QED
  BY <1>1, <1>2, <1>3, <1>4, <1>5, <1>6, <1>7, <1>8, <1>9, <1>10, <1>11,
     <1>12, <1>13 DEF Next, Processor, Dispatcher

\* A dispatcher is never left asleep on a request: dispatchMessageQueue tests
\* its queue under the lock, and the notify_one that follows a push finds it
\* asleep or about to test.
THEOREM DispatcherWakes == Spec => []NoSleepOnWork
BY TypeInvariance, InitNoSleep, StepNoSleep, PTL DEF Spec

-----------------------------------------------------------------------------
\* No request is lost or doubled.

\* What makes HeldExactlyOnce inductive: only assigned requests are finished.
HoldInv == HeldExactlyOnce /\ finished \subseteq DOMAIN assigned

LEMMA InitHold == Init => HoldInv
<1> SUFFICES ASSUME Init PROVE HoldInv
  OBVIOUS
<1>1. Unassigned = <<>> /\ assigned = <<>> /\ accepted = 0 /\ finished = {}
  BY DEF Init, Unassigned
<1>2. ASSUME NEW d \in Dispatchers
      PROVE  Elems(queue[d]) = {} /\ Distinct(queue[d])
  BY DEF Init, Elems, Distinct
<1>3. PendingInOrder
  BY <1>1 DEF PendingInOrder
<1> QED  BY <1>1, <1>2, <1>3 DEF HoldInv, HeldExactlyOnce, Given

\* Steps that leave the requests where they are.
LEMMA HoldUnchanged ==
    ASSUME HoldInv, UNCHANGED <<Unassigned, queue, accepted, assigned, finished>>
    PROVE  HoldInv'
BY DEF HoldInv, HeldExactlyOnce, PendingInOrder, Given

LEMMA AcceptHolds ==
    ASSUME TypeInv, HoldInv, onNewClientMessage
    PROVE  HoldInv'
<1> DEFINE n == accepted + 1
<1>1. qclients_ \in Seq(Nat) /\ n \in Nat /\ assigned \in Seq(Dispatchers)
  BY ConstantsOK DEF TypeInv, TypeOK
<1>2. Unassigned = qclients_ /\ Unassigned' = Append(qclients_, n) /\ accepted' = n
  BY DEF onNewClientMessage, qclients_mutex_Free, Unassigned
<1>3. PendingInOrder'
  <2>1. Len(Unassigned') = Len(Unassigned) + 1
    BY <1>1, <1>2, AppendProperties
  <2>2. /\ \A i \in 1 .. Len(Unassigned) : Unassigned'[i] = Unassigned[i]
        /\ Unassigned'[Len(Unassigned) + 1] = n
    BY <1>1, <1>2, AppendProperties
  <2>3. /\ DOMAIN Unassigned = 1 .. Len(Unassigned)
        /\ DOMAIN Unassigned' = 1 .. Len(Unassigned) + 1
        /\ Len(Unassigned) \in Nat /\ Len(assigned) \in Nat
    <3>1. Append(qclients_, n) \in Seq(Nat)
      BY <1>1, AppendProperties
    <3> QED  BY <1>1, <1>2, <2>1, <3>1, LenProperties
  <2>4. assigned' = assigned
    BY DEF onNewClientMessage
  <2>5. PendingInOrder
    BY DEF HoldInv, HeldExactlyOnce
  <2> QED
    BY <1>2, <2>1, <2>2, <2>3, <2>4, <2>5 DEF PendingInOrder
<1> QED
  BY <1>3 DEF onNewClientMessage, HoldInv, HeldExactlyOnce, Given

LEMMA AssignHolds ==
    ASSUME TypeInv, HoldInv, AssignToWorker
    PROVE  HoldInv'
<1> DEFINE n == Head(qclients_)
           q == queue[worker]
<1>1. /\ qclients_ \in Seq(Nat) /\ qclients_ # <<>>
      /\ assigned \in Seq(Dispatchers)
      /\ worker \in Dispatchers
      /\ queue \in [Dispatchers -> Seq(Nat)]
      /\ q \in Seq(Nat)
  BY DEF TypeInv, TypeOK, AssignToWorker
<1>2. /\ Unassigned = qclients_
      /\ Unassigned' = Tail(qclients_)
      /\ assigned' = Append(assigned, worker)
      /\ queue' = [queue EXCEPT ![worker] = Append(q, n)]
      /\ UNCHANGED <<accepted, finished>>
  BY DEF AssignToWorker, Unassigned
<1>3. /\ Len(assigned) \in Nat
      /\ DOMAIN assigned = 1 .. Len(assigned)
      /\ DOMAIN assigned' = 1 .. Len(assigned) + 1
      /\ Len(assigned') = Len(assigned) + 1
      /\ \A m \in DOMAIN assigned : assigned'[m] = assigned[m]
      /\ assigned'[Len(assigned) + 1] = worker
  <2>1. Append(assigned, worker) \in Seq(Dispatchers)
    BY <1>1, AppendProperties
  <2> QED  BY <1>1, <1>2, <2>1, AppendProperties, LenProperties
<1>4. /\ Len(qclients_) \in Nat \ {0}
      /\ DOMAIN qclients_ = 1 .. Len(qclients_)
      /\ Len(Tail(qclients_)) = Len(qclients_) - 1
      /\ DOMAIN Tail(qclients_) = 1 .. Len(qclients_) - 1
      /\ \A i \in 1 .. Len(qclients_) - 1 : Tail(qclients_)[i] = qclients_[i + 1]
      /\ n = qclients_[1]
      /\ n \in Nat
  <2>1. Tail(qclients_) \in Seq(Nat)
    BY <1>1, TailFacts
  <2> QED  BY <1>1, <2>1, TailFacts, LenProperties, EmptySeq
<1>5. /\ accepted = Len(assigned) + Len(qclients_)
      /\ \A i \in DOMAIN qclients_ : qclients_[i] = Len(assigned) + i
      /\ finished \subseteq DOMAIN assigned
      /\ \A d \in Dispatchers : /\ Elems(queue[d]) = Given(d) \ finished
                                /\ Distinct(queue[d])
  BY <1>2 DEF HoldInv, HeldExactlyOnce, PendingInOrder
<1>6. n = Len(assigned) + 1
  BY <1>4, <1>5
<1>7. PendingInOrder'
  <2>1. accepted = Len(assigned') + Len(Tail(qclients_))
    BY <1>3, <1>4, <1>5
  <2>2. ASSUME NEW i \in DOMAIN Tail(qclients_)
        PROVE  Tail(qclients_)[i] = Len(assigned') + i
    <3>1. i \in Nat /\ i + 1 \in DOMAIN qclients_ /\ i \in 1 .. Len(qclients_) - 1
      BY <1>4
    <3>2. Tail(qclients_)[i] = qclients_[i + 1]
      BY <1>4, <3>1
    <3>3. qclients_[i + 1] = Len(assigned) + (i + 1)
      BY <1>5, <3>1
    <3> QED  BY <1>3, <3>1, <3>2, <3>3
  <2> QED  BY <1>2, <2>1, <2>2 DEF PendingInOrder
<1> HIDE DEF n, q
<1>8. n \notin finished /\ n \notin Elems(q)
  <2>1. n \notin DOMAIN assigned
    BY <1>3, <1>6
  <2> QED  BY <1>1, <1>5, <2>1 DEF q, Given
<1>9. ASSUME NEW d \in Dispatchers
      PROVE  Elems(queue'[d]) = Given(d)' \ finished' /\ Distinct(queue'[d])
  <2>1. CASE d = worker
    <3>1. queue'[d] = Append(q, n)
      BY <1>1, <1>2, <2>1
    <3>2. Elems(Append(q, n)) = Elems(q) \cup {n} /\ Distinct(Append(q, n))
      <4>1. Distinct(q)
        BY <1>1, <1>5 DEF q
      <4> QED  BY ONLY <1>1, <1>4, <1>8, <4>1, AppendFacts
    <3>3. Given(d)' = Given(d) \cup {n}
      BY <1>3, <1>6, <2>1 DEF Given
    <3>4. Elems(q) = Given(d) \ finished
      BY <1>1, <1>5, <2>1 DEF q
    <3> QED  BY <1>2, <1>8, <3>1, <3>2, <3>3, <3>4
  <2>2. CASE d # worker
    <3>1. queue'[d] = queue[d]
      BY <1>1, <1>2, <2>2
    <3>2. Given(d)' = Given(d)
      BY <1>3, <2>2 DEF Given
    <3> QED  BY <1>2, <1>5, <3>1, <3>2
  <2> QED  BY <2>1, <2>2
<1>10. finished' \subseteq DOMAIN assigned'
  BY <1>2, <1>3, <1>5
<1> QED  BY <1>7, <1>9, <1>10 DEF HoldInv, HeldExactlyOnce

LEMMA BeginHolds ==
    ASSUME TypeInv, HoldInv, NEW d \in Dispatchers, DispatcherBegin(d)
    PROVE  HoldInv'
<1>1. /\ queue \in [Dispatchers -> Seq(Nat)]
      /\ queue[d] \in Seq(Nat) /\ queue[d] # <<>>
      /\ queue' = [queue EXCEPT ![d] = Rotated(queue[d])]
      /\ UNCHANGED <<Unassigned, accepted, assigned, finished>>
  BY DEF TypeInv, TypeOK, DispatcherBegin, Unassigned
<1>2. ASSUME NEW e \in Dispatchers
      PROVE  Elems(queue'[e]) = Elems(queue[e]) /\ Distinct(queue'[e])
  <2>1. Distinct(queue[e])
    BY DEF HoldInv, HeldExactlyOnce
  <2>2. CASE e = d
    <3>1. queue'[e] = Rotated(queue[e])
      BY <1>1, <2>2
    <3> QED  BY <1>1, <2>1, <2>2, <3>1, RotatedFacts
  <2>3. CASE e # d
    BY <1>1, <2>1, <2>3
  <2> QED  BY <2>2, <2>3
<1> QED
  BY <1>1, <1>2 DEF HoldInv, HeldExactlyOnce, PendingInOrder, Given

LEMMA EndHolds ==
    ASSUME TypeInv, HoldInv, NEW d \in Dispatchers, DispatcherEnd(d)
    PROVE  HoldInv'
<1> DEFINE h == Head(queue[d])
<1>1. /\ queue \in [Dispatchers -> Seq(Nat)]
      /\ queue[d] \in Seq(Nat) /\ queue[d] # <<>>
      /\ UNCHANGED <<Unassigned, accepted, assigned>>
  BY DEF TypeInv, TypeOK, HasWhatItHandles, DispatcherEnd, Unassigned
<1>2. CASE UNCHANGED <<queue, finished>>
  BY <1>1, <1>2, HoldUnchanged
<1>3. CASE /\ queue' = [queue EXCEPT ![d] = Tail(queue[d])]
           /\ finished' = finished \cup {h}
  <2>1. \A e \in Dispatchers : /\ Elems(queue[e]) = Given(e) \ finished
                               /\ Distinct(queue[e])
    BY DEF HoldInv, HeldExactlyOnce
  <2>2. /\ h \in Elems(queue[d])
        /\ Elems(Tail(queue[d])) = Elems(queue[d]) \ {h}
        /\ Distinct(Tail(queue[d]))
    BY <1>1, <2>1, TailFacts
  <2>3. h \in Given(d)
    BY <2>1, <2>2
  <2> HIDE DEF h
  <2>4. ASSUME NEW e \in Dispatchers
        PROVE  Elems(queue'[e]) = Given(e) \ finished' /\ Distinct(queue'[e])
    <3>1. CASE e = d
      <4>1. queue'[e] = Tail(queue[d])
        BY <1>1, <1>3, <3>1
      <4> QED  BY <1>3, <2>1, <2>2, <3>1, <4>1
    <3>2. CASE e # d
      <4>1. queue'[e] = queue[e]
        BY <1>1, <1>3, <3>2
      <4>2. h \notin Given(e)
        BY <2>3, <3>2 DEF Given
      <4> QED  BY <1>3, <2>1, <4>1, <4>2
    <3> QED  BY <3>1, <3>2
  <2>5. finished' \subseteq DOMAIN assigned
    BY <1>3, <2>3 DEF HoldInv, Given
  <2> QED
    BY <1>1, <2>4, <2>5 DEF HoldInv, HeldExactlyOnce, PendingInOrder, Given
<1> QED  BY <1>2, <1>3 DEF DispatcherEnd

LEMMA StepHold == TypeInv /\ HoldInv /\ [Next]_vars => HoldInv'
<1> SUFFICES ASSUME TypeInv, HoldInv, [Next]_vars PROVE HoldInv'
  OBVIOUS
<1>1. CASE NotifyProcessor \/ ProcessorWait \/ ProcessorRelock \/ NotifyDispatcher
             \/ ProcessorUnlock \/ SpuriousWakeup \/ UNCHANGED vars
  <2>1. UNCHANGED <<Unassigned, queue, accepted, assigned, finished>>
    BY <1>1 DEF NotifyProcessor, ProcessorWait, ProcessorRelock,
                NotifyDispatcher, ProcessorUnlock, SpuriousWakeup, vars, Unassigned
  <2> QED  BY <2>1, HoldUnchanged
<1>2. ASSUME NEW d \in Dispatchers, DispatcherWait(d) \/ DispatcherEmptyFront(d)
      PROVE  HoldInv'
  <2>1. UNCHANGED <<Unassigned, queue, accepted, assigned, finished>>
    BY <1>2 DEF DispatcherWait, DispatcherEmptyFront, Unassigned
  <2> QED  BY <2>1, HoldUnchanged
<1> QED
  BY <1>1, <1>2, AcceptHolds, AssignHolds, BeginHolds, EndHolds
     DEF Next, Processor, Dispatcher

\* No request is lost, doubled or given to the wrong dispatcher anywhere
\* between onNewClientMessage and the pop that ends its session.
THEOREM NoRequestLost == Spec => []HeldExactlyOnce
<1>1. HoldInv => HeldExactlyOnce
  BY DEF HoldInv
<1> QED  BY <1>1, TypeInvariance, InitHold, StepHold, PTL DEF Spec

-----------------------------------------------------------------------------
\* The threads implement RequestDistribution.

LEMMA InitDistributes == Init => Distribution!Init
BY DEF Init, Distribution!Init

LEMMA StepDistributes ==
    TypeInv /\ HoldInv /\ [Next]_vars => [Distribution!Next]_(Distribution!vars)
<1> SUFFICES ASSUME TypeInv, HoldInv, [Next]_vars
             PROVE  [Distribution!Next]_(Distribution!vars)
  OBVIOUS
<1>1. CASE onNewClientMessage
  <2>1. Distribution!Accept
    BY <1>1 DEF onNewClientMessage, Distribution!Accept
  <2> QED  BY <2>1 DEF Distribution!Next
<1>2. CASE AssignToWorker
  <2>1. Len(assigned) < accepted
    <3>1. accepted = Len(assigned) + Len(qclients_)
      BY <1>2 DEF AssignToWorker, Unassigned, HoldInv, HeldExactlyOnce, PendingInOrder
    <3>2. Len(qclients_) \in Nat \ {0} /\ Len(assigned) \in Nat
      BY <1>2, EmptySeq, LenProperties DEF AssignToWorker, TypeInv, TypeOK
    <3> QED  BY <3>1, <3>2
  <2>2. Distribution!Assign
    BY <1>2, <2>1 DEF AssignToWorker, NextWorker, Distribution!Assign
  <2> QED  BY <2>2 DEF Distribution!Next
<1>3. ASSUME NEW d \in Dispatchers, DispatcherEnd(d)
      PROVE  [Distribution!Next]_(Distribution!vars)
  <2>1. CASE finished' = finished
    BY <1>3, <2>1 DEF DispatcherEnd, Distribution!vars
  <2>2. CASE finished' = finished \cup {Head(queue[d])}
    <3>1. Head(queue[d]) \in Elems(queue[d])
      BY <1>3, TailFacts DEF DispatcherEnd, TypeInv, TypeOK, HasWhatItHandles
    <3>2. Head(queue[d]) \in DOMAIN assigned \ finished
      BY <3>1 DEF HoldInv, HeldExactlyOnce, Given
    <3>3. Distribution!Finish
      BY <1>3, <2>2, <3>2 DEF DispatcherEnd, Distribution!Finish
    <3> QED  BY <3>3 DEF Distribution!Next
  <2> QED  BY <1>3, <2>1, <2>2 DEF DispatcherEnd
<1>4. CASE NotifyProcessor \/ Processor \/ SpuriousWakeup \/ UNCHANGED vars
  BY <1>4 DEF Processor, NotifyProcessor, ProcessorWait, ProcessorRelock,
              NotifyDispatcher, ProcessorUnlock, SpuriousWakeup, vars,
              Distribution!vars
<1>5. ASSUME NEW d \in Dispatchers,
             DispatcherWait(d) \/ DispatcherBegin(d) \/ DispatcherEmptyFront(d)
      PROVE  [Distribution!Next]_(Distribution!vars)
  BY <1>5 DEF DispatcherWait, DispatcherBegin, DispatcherEmptyFront,
              Distribution!vars
<1> QED  BY <1>1, <1>2, <1>3, <1>4, <1>5 DEF Next, Dispatcher

\* Whatever the interleaving of the poll thread, the processor and the
\* dispatchers, they implement the abstract distribution: requests are
\* assigned once, in arrival order and by turns, and finished at most once.
THEOREM ImplementsDistribution == Spec => DistributesRequests
<1>1. Spec => []HoldInv
  BY TypeInvariance, InitHold, StepHold, PTL DEF Spec
<1> QED
  BY <1>1, TypeInvariance, InitDistributes, StepDistributes, PTL
     DEF Spec, DistributesRequests, Distribution!Spec
=============================================================================
