----------------------------- MODULE OpenServer -----------------------------
(***************************************************************************)
(* The server as a whole, at the granularity of sessions: connections that *)
(* the poll thread accepts and closes, requests made on them, the hand-over*)
(* of MessageProcessor, and dispatchers that write responses to the socket *)
(* number a session carries, whichever connection has that number by then. *)
(***************************************************************************)
EXTENDS MessageProcessor

CONSTANTS
    Sockets,        \* descriptors of connections
    MaxConnections  \* bound on the connections of a behaviour

ASSUME SocketsOK == Sockets \subseteq Nat /\ MaxConnections \in Nat

VARIABLES
    connections,  \* connections so far; a connection is its number
    owner,        \* owner[f]: the connection that has descriptor f, 0 if none
    session,      \* session[n]: socket of request n and, as history, its connection
    written,      \* history: <<n, c>> when c got a part of the response to n
    delayed       \* history: requests whose send has ever blocked

serverVars == <<connections, owner, session, written, delayed>>
allVars == <<vars, serverVars>>

ServerInit ==
    /\ Init
    /\ connections = 0 /\ owner = [f \in Sockets |-> 0]
    /\ session = <<>> /\ written = {} /\ delayed = {}

-----------------------------------------------------------------------------
\* Poll thread.  It accepts, closes and receives between two requests.

Free(f) == owner[f] = 0

Accept(f) ==
    /\ pollPc = "idle"
    /\ Free(f)
    /\ connections < MaxConnections
    /\ connections' = connections + 1
    /\ owner' = [owner EXCEPT ![f] = connections']
    /\ UNCHANGED <<vars, session, written, delayed>>

Close(f) ==
    /\ pollPc = "idle"
    /\ owner[f] # 0
    /\ owner' = [owner EXCEPT ![f] = 0]
    /\ UNCHANGED <<vars, connections, session, written, delayed>>

\* Seeded bug: the arguments socket and fds_index are swapped.
SwappedSession(f) ==
    [socket |-> CHOOSE g \in Sockets : g # f, connection |-> owner[f]]

\* The session the message composer makes for socket f.
NewSession(f) == [socket |-> f, connection |-> owner[f]]

\* A whole request has arrived on f.
Request(f) ==
    /\ owner[f] # 0
    /\ onNewClientMessage
    /\ session' = Append(session, NewSession(f))
    /\ UNCHANGED <<connections, owner, written, delayed>>

-----------------------------------------------------------------------------
\* Dispatcher d, in the send loop for the session in front of its queue.

Write(d) ==
    LET n == Head(queue[d])  c == owner[session[n].socket] IN
    /\ dispPc[d] = "work"
    /\ c # 0
    /\ written' = written \cup {<<n, c>>}
    /\ UNCHANGED <<vars, connections, owner, session, delayed>>

\* The threads of MessageProcessor, but for the arrival of requests (above) and
\* spurious wake-ups.
HandOver ==
    /\ \/ NotifyProcessor
       \/ Processor
       \/ AssignToWorker
       \/ \E d \in Dispatchers : Dispatcher(d)
    /\ delayed' = delayed \cup ewouldblock_flag'
    /\ UNCHANGED <<connections, owner, session, written>>

ServerNext ==
    \/ \E f \in Sockets : Accept(f) \/ Close(f) \/ Request(f)
    \/ \E d \in Dispatchers : Write(d)
    \/ HandOver

ServerSpec == ServerInit /\ [][ServerNext]_allVars

-----------------------------------------------------------------------------
\* Properties.

IsOpen(c) == \E f \in Sockets : owner[f] = c

\* A response goes to the connection that asked for it as long as that one is
\* open; it reaches another only when its own is gone and the socket number was
\* given to a later connection.
StrangersOnlyAfterClose ==
    \A w \in written :
        LET asked == session[w[1]].connection IN
        w[2] # asked => w[2] > asked /\ ~IsOpen(asked)

\* Of two requests with the same dispatcher the later is not answered before
\* the earlier is finished, unless the earlier had to wait for its client; for
\* requests with different dispatchers there is no order.
NoOvertaking ==
    \A w \in written : \A n \in 1 .. w[1] - 1 :
        assigned[n] = assigned[w[1]] /\ n \notin delayed => n \in finished
=============================================================================
