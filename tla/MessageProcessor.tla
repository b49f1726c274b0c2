-------------------------- MODULE MessageProcessor --------------------------
(***************************************************************************)
(* The hand-over of complete requests from the poll thread to the          *)
(* processor thread (HTML_MessageProcessor::processMessageQueue) and from  *)
(* there to the dispatcher threads                                         *)
(* (HTTP_Message_Dispatcher::dispatchMessageQueue).                        *)
(*                                                                         *)
(* Each hand-over is a std::queue, a std::mutex and a                      *)
(* std::condition_variable.  A thread's program counter says which lock it *)
(* holds: the processor holds qclients_mutex_ in "drain" and "notify", a   *)
(* dispatcher holds its client_sessions_req_resp_mutex in "work" (and in   *)
(* "undefined", see DispatcherEmptyFront).  A critical section that touches*)
(* only what its lock protects is one step.  "waiting" is being inside     *)
(* wait(); "woken" is having left it and not yet owning the lock again.    *)
(*                                                                         *)
(* A request is the number of its arrival.  What a dispatcher does with it *)
(* (module MessageDispatcher) is here one of the three ways an iteration   *)
(* of its loop can end.                                                    *)
(***************************************************************************)
EXTENDS Naturals, Sequences

CONSTANTS
    NumDispatchers,  \* msgdisp0 .. msgdisp11 in the code
    MaxRequests,     \* bound on the requests of a behaviour
    Outcomes,        \* how a dispatcher's iteration may end
    SpuriousWakeups  \* whether wait() may return without a notify

ASSUME ConstantsOK ==
    /\ NumDispatchers \in Nat \ {0} /\ MaxRequests \in Nat
    /\ Outcomes \subseteq {"done", "blocked", "retry"}
    /\ SpuriousWakeups \in BOOLEAN

Dispatchers == 0 .. NumDispatchers - 1

VARIABLES
    pollPc,    \* poll thread: "idle", or "notify" between unlock and notify_one
    qclients_, \* requests waiting for the processor
    procPc,    \* processor thread
    worker,    \* the dispatcher that gets the next request
    queue,     \* queue[d]: client_sessions_req_resp_queue_ of dispatcher d
    dispPc,    \* dispPc[d]: dispatcher thread d
    ewouldblock_flag, \* the requests whose session has the flag set
    accepted,  \* history: requests accepted so far
    assigned,  \* history: assigned[n] is the dispatcher that got request n
    finished   \* history: requests popped from their dispatcher's queue

pollVars == <<pollPc, accepted>>
turnVars == <<worker, assigned>>
sessionVars == <<queue, ewouldblock_flag, finished>>
vars == <<pollVars, qclients_, procPc, turnVars, dispPc, sessionVars>>

Init ==
    /\ pollPc = "idle" /\ accepted = 0
    /\ qclients_ = <<>> /\ procPc = "top"
    /\ worker = 0 /\ assigned = <<>>
    /\ queue = [d \in Dispatchers |-> <<>>]
    /\ dispPc = [d \in Dispatchers |-> "top"]
    /\ ewouldblock_flag = {} /\ finished = {}

-----------------------------------------------------------------------------
\* Poll thread: HTML_MessageProcessor::onNewClientMessage.

qclients_mutex_Free == procPc \notin {"drain", "notify"}

onNewClientMessage ==
    /\ pollPc = "idle"
    /\ accepted < MaxRequests
    /\ qclients_mutex_Free
    /\ accepted' = accepted + 1
    /\ qclients_' = Append(qclients_, accepted')
    /\ pollPc' = "notify"
    /\ UNCHANGED <<procPc, turnVars, dispPc, sessionVars>>

\* notify_one() wakes the processor if it is inside wait() and is otherwise lost.
NotifyProcessor ==
    /\ pollPc = "notify"
    /\ pollPc' = "idle"
    /\ procPc' = IF procPc = "waiting" THEN "woken" ELSE procPc
    /\ UNCHANGED <<accepted, qclients_, turnVars, dispPc, sessionVars>>

-----------------------------------------------------------------------------
\* Processor thread: HTML_MessageProcessor::processMessageQueue.

\* lock, then wait() whatever the queue holds.
ProcessorWait ==
    /\ procPc = "top"
    /\ procPc' = "waiting"
    /\ UNCHANGED <<pollVars, qclients_, turnVars, dispPc, sessionVars>>

ProcessorRelock ==
    /\ procPc = "woken"
    /\ procPc' = "drain"
    /\ UNCHANGED <<pollVars, qclients_, turnVars, dispPc, sessionVars>>

QueueMutexFree(d) == dispPc[d] \notin {"work", "undefined"}

\* Seeded bugs: the turn does not wrap around; it skips the last dispatcher.
NextWorkerUnwrapped(w) == w + 1

NextWorkerShort(w) == IF w + 2 >= NumDispatchers THEN 0 ELSE w + 1

NextWorker(w) == IF w = NumDispatchers - 1 THEN 0 ELSE w + 1

\* The dispatcher the latest request was pushed to.
LastWorker == IF worker = 0 THEN NumDispatchers - 1 ELSE worker - 1

\* onNewMessageArrived up to its notify_one: the session is copied, so the
\* request stays at the front of qclients_ until the pop that follows the call.
AssignToWorker ==
    /\ procPc = "drain"
    /\ qclients_ # <<>>
    /\ QueueMutexFree(worker)
    /\ queue' = [queue EXCEPT ![worker] = Append(@, Head(qclients_))]
    /\ worker' = NextWorker(worker)
    /\ procPc' = "notify"
    /\ assigned' = Append(assigned, worker)
    /\ UNCHANGED <<pollVars, qclients_, dispPc, ewouldblock_flag, finished>>

NotifyDispatcher ==
    /\ procPc = "notify"
    /\ dispPc' = [dispPc EXCEPT ![LastWorker] =
                    IF @ = "waiting" THEN "woken" ELSE @]
    /\ qclients_' = Tail(qclients_)
    /\ procPc' = "drain"
    /\ UNCHANGED <<pollVars, turnVars, sessionVars>>

\* Seeded bug: one request per wake-up instead of a loop.
AlwaysDrained == TRUE

Drained == qclients_ = <<>>

ProcessorUnlock ==
    /\ procPc = "drain"
    /\ Drained
    /\ procPc' = "top"
    /\ UNCHANGED <<pollVars, qclients_, turnVars, dispPc, sessionVars>>

-----------------------------------------------------------------------------
\* Dispatcher threads: HTTP_Message_Dispatcher::dispatchMessageQueue.

\* Seeded bug: wait() without testing the queue, as the processor does.
NotTested(d) == TRUE

NothingQueued(d) == queue[d] = <<>>

DispatcherWait(d) ==
    /\ dispPc[d] = "top"
    /\ NothingQueued(d)
    /\ dispPc' = [dispPc EXCEPT ![d] = "waiting"]
    /\ UNCHANGED <<pollVars, qclients_, procPc, turnVars, sessionVars>>

\* A front session that would have blocked goes to the back if it is not alone.
\* Seeded bugs: the front session is pushed but not popped; it never moves; it
\* moves whether it has blocked or not.
RotatedTwice(q) ==
    IF Head(q) \in ewouldblock_flag /\ Len(q) > 1 THEN Append(q, Head(q)) ELSE q

RotatedNever(q) == q

RotatedAlways(q) == IF Len(q) > 1 THEN Append(Tail(q), Head(q)) ELSE q

Rotated(q) ==
    IF Head(q) \in ewouldblock_flag /\ Len(q) > 1
    THEN Append(Tail(q), Head(q))
    ELSE q

\* The lock is held and there is a session in front: rotate, then
\* onClientRequest clears the flag of the session it is given.
DispatcherBegin(d) ==
    /\ dispPc[d] \in {"top", "woken"}
    /\ queue[d] # <<>>
    /\ queue' = [queue EXCEPT ![d] = Rotated(@)]
    /\ ewouldblock_flag' = ewouldblock_flag \ {Head(Rotated(queue[d]))}
    /\ dispPc' = [dispPc EXCEPT ![d] = "work"]
    /\ UNCHANGED <<pollVars, qclients_, procPc, turnVars, finished>>

\* wait() has returned and nothing tests the queue again: front() of an empty
\* queue.  What this dispatcher does from there on is undefined.
DispatcherEmptyFront(d) ==
    /\ dispPc[d] = "woken"
    /\ queue[d] = <<>>
    /\ dispPc' = [dispPc EXCEPT ![d] = "undefined"]
    /\ UNCHANGED <<pollVars, qclients_, procPc, turnVars, sessionVars>>

\* The end of an iteration, which unlocks.  "done": the session is popped.
\* "blocked": send() would block, it stays with the flag set.  "retry": send()
\* failed on a response that is not cached, it stays as it is.
DispatcherEnd(d) ==
    /\ dispPc[d] = "work"
    /\ dispPc' = [dispPc EXCEPT ![d] = "top"]
    /\ \/ /\ "done" \in Outcomes
          /\ queue' = [queue EXCEPT ![d] = Tail(@)]
          /\ finished' = finished \cup {Head(queue[d])}
          /\ UNCHANGED ewouldblock_flag
       \/ /\ "blocked" \in Outcomes
          /\ ewouldblock_flag' = ewouldblock_flag \cup {Head(queue[d])}
          /\ UNCHANGED <<queue, finished>>
       \/ /\ "retry" \in Outcomes
          /\ UNCHANGED <<queue, finished, ewouldblock_flag>>
    /\ UNCHANGED <<pollVars, qclients_, procPc, turnVars>>

-----------------------------------------------------------------------------
\* std::condition_variable::wait without a predicate may return on its own.

SpuriousWakeup ==
    /\ SpuriousWakeups
    /\ \/ /\ procPc = "waiting"
          /\ procPc' = "woken"
          /\ UNCHANGED dispPc
       \/ /\ \E d \in Dispatchers :
                /\ dispPc[d] = "waiting"
                /\ dispPc' = [dispPc EXCEPT ![d] = "woken"]
          /\ UNCHANGED procPc
    /\ UNCHANGED <<pollVars, qclients_, turnVars, sessionVars>>

Processor == ProcessorWait \/ ProcessorRelock \/ NotifyDispatcher \/ ProcessorUnlock

Dispatcher(d) ==
    DispatcherWait(d) \/ DispatcherBegin(d) \/ DispatcherEmptyFront(d)
        \/ DispatcherEnd(d)

Next ==
    \/ onNewClientMessage
    \/ NotifyProcessor
    \/ Processor
    \/ AssignToWorker
    \/ \E d \in Dispatchers : Dispatcher(d)
    \/ SpuriousWakeup

Spec == Init /\ [][Next]_vars

(***************************************************************************)
(* Threads keep running, so each step a thread can take alone is weakly    *)
(* fair.  The processor competes for a dispatcher's mutex with a dispatcher*)
(* that may lock it again and again (it spins on a blocked session), and   *)
(* gets it only because the scheduler does not starve it: strong fairness. *)
(* Requests need not arrive and wake-ups need not be spurious.             *)
(***************************************************************************)
FairSpec ==
    /\ Spec
    /\ WF_vars(NotifyProcessor)
    /\ WF_vars(Processor)
    /\ SF_vars(AssignToWorker)
    /\ \A d \in Dispatchers : WF_vars(Dispatcher(d))

-----------------------------------------------------------------------------
\* Properties.

ProcPcs == {"top", "waiting", "woken", "drain", "notify"}
DispPcs == {"top", "waiting", "woken", "work", "undefined"}

\* Some dispatcher has called front() on an empty queue.
Undefined == \E d \in Dispatchers : dispPc[d] = "undefined"

\* Every variable keeps to the values its C++ counterpart can have.
TypeOK ==
    /\ pollPc \in {"idle", "notify"}
    /\ qclients_ \in Seq(Nat)
    /\ procPc \in ProcPcs
    /\ worker \in Dispatchers
    /\ queue \in [Dispatchers -> Seq(Nat)]
    /\ dispPc \in [Dispatchers -> DispPcs]
    /\ ewouldblock_flag \in SUBSET Nat
    /\ accepted \in 0 .. MaxRequests
    /\ assigned \in Seq(Dispatchers)
    /\ finished \in SUBSET Nat

\* The threads implement RequestDistribution: whatever the interleaving of
\* the poll thread, the processor and the dispatchers, requests are assigned
\* once, in arrival order and by turns, and finished at most once.
Distribution == INSTANCE RequestDistribution WITH turn <- worker
DistributesRequests == Distribution!Spec

\* The requests the processor has still to assign: the front of qclients_ is
\* a leftover copy between the push to a dispatcher and the pop.
Unassigned == IF procPc = "notify" THEN Tail(qclients_) ELSE qclients_

Elems(q) == {q[i] : i \in DOMAIN q}
Distinct(q) == \A i, j \in DOMAIN q : q[i] = q[j] => i = j

PendingInOrder ==
    /\ accepted = Len(assigned) + Len(Unassigned)
    /\ \A i \in DOMAIN Unassigned : Unassigned[i] = Len(assigned) + i

Given(d) == {n \in DOMAIN assigned : assigned[n] = d}

\* No request gets lost or doubled on its way: what is neither finished nor
\* still with the processor sits exactly once in the queue of the dispatcher
\* it was assigned to, through every copy, pop and rotation.
HeldExactlyOnce ==
    /\ PendingInOrder
    /\ \A d \in Dispatchers :
         Elems(queue[d]) = Given(d) \ finished /\ Distinct(queue[d])

\* A dispatcher tests its queue under the lock before it waits, so it is never
\* asleep on a request unless the notify_one for it is still to come.
NoSleepOnWork ==
    \A d \in Dispatchers :
        dispPc[d] = "waiting" /\ queue[d] # <<>> =>
            procPc = "notify" /\ d = LastWorker

\* The processor, once woken, empties its queue: it never gets stuck behind a
\* dispatcher that holds its own mutex, not even one spinning on a socket.
WokenProcessorDrains == procPc = "woken" ~> (qclients_ = <<>> \/ Undefined)

\* A slow client does not starve the others: every session in a dispatcher's
\* queue gets to the front and is worked on, however often those before it
\* would block.
EverySessionGetsItsTurn ==
    \A d \in Dispatchers : \A n \in 1 .. MaxRequests :
        n \in Elems(queue[d]) ~>
            (Undefined \/ (dispPc[d] = "work" /\ Head(queue[d]) = n))

\* html_messageprocessor.cpp:62 "Wait until main() sends data": once the poll
\* thread has sent a request, the processor assigns it.
SentRequestIsAssigned ==
    \A n \in 1 .. MaxRequests :
        accepted >= n ~> (Len(assigned) >= n \/ Undefined)

\* http_message_dispatcher.cpp:68 "Wait until main() sends data": a dispatcher
\* that comes back from wait() has a session in front of its queue.
FrontHasSession == ~Undefined
=============================================================================
